-------------------------- MODULE SchedulerProofs ---------------------------
(***************************************************************************)
(* Proofs about Scheduler for any number of workers, Cmds and channel      *)
(* capacities: the order of a lane, the shutdown, and the refinement of    *)
(* CmdExecutor.                                                            *)
(***************************************************************************)
EXTENDS Scheduler, SequenceTheorems, FiniteSetTheorems, TLAPS

-----------------------------------------------------------------------------
(* Sequences of Cmds that keep the order of every lane; ln gives the lane. *)
Ord(ln, s) ==
    \A i, j \in 1..Len(s) : i < j /\ ln[s[i]] = ln[s[j]] => s[i] < s[j]
After(ln, s, c) == \A i \in 1..Len(s) : ln[s[i]] = ln[c] => s[i] < c
Before(ln, c, s) == \A i \in 1..Len(s) : ln[s[i]] = ln[c] => c < s[i]
Precedes(ln, s, t) ==
    \A i \in 1..Len(s), j \in 1..Len(t) : ln[s[i]] = ln[t[j]] => s[i] < t[j]

(* A Cmd may be appended to an ordered sequence it comes after. *)
LEMMA AppendOrd ==
    ASSUME NEW ln, NEW s \in Seq(Cmds), NEW c \in Cmds,
           Ord(ln, s), After(ln, s, c)
    PROVE  Ord(ln, Append(s, c))
  BY AppendProperties DEF Ord, After, Cmds

(* What is left of an ordered sequence is ordered, and follows its head. *)
LEMMA TailOrd ==
    ASSUME NEW ln, NEW s \in Seq(Cmds), s # <<>>, Ord(ln, s)
    PROVE  Ord(ln, Tail(s)) /\ Before(ln, Head(s), Tail(s))
  <1>1. /\ Len(s) \in Nat /\ Len(Tail(s)) = Len(s) - 1 /\ Head(s) = s[1]
        /\ \A i \in 1..Len(Tail(s)) : Tail(s)[i] = s[i + 1]
    BY HeadTailProperties
  <1> QED BY <1>1 DEF Ord, Before

(* Appending on the left or on the right of a precedence. *)
LEMMA AppendPrecedes ==
    ASSUME NEW ln, NEW s \in Seq(Cmds), NEW t \in Seq(Cmds), NEW c \in Cmds,
           Precedes(ln, s, t)
    PROVE  /\ Before(ln, c, t) => Precedes(ln, Append(s, c), t)
           /\ After(ln, s, c) => Precedes(ln, s, Append(t, c))
  BY AppendProperties DEF Precedes, Before, After, Cmds

(* Taking the head on the left or on the right of a precedence. *)
LEMMA TailPrecedes ==
    ASSUME NEW ln, NEW s \in Seq(Cmds), NEW t \in Seq(Cmds),
           Precedes(ln, s, t)
    PROVE  /\ s # <<>> => Precedes(ln, Tail(s), t) /\ Before(ln, Head(s), t)
           /\ t # <<>> => Precedes(ln, s, Tail(t)) /\ After(ln, s, Head(t))
  <1>1. ASSUME s # <<>> PROVE Precedes(ln, Tail(s), t) /\ Before(ln, Head(s), t)
    <2>1. /\ Len(s) \in Nat /\ Len(Tail(s)) = Len(s) - 1 /\ Head(s) = s[1]
          /\ \A i \in 1..Len(Tail(s)) : Tail(s)[i] = s[i + 1]
          /\ 1 \in 1..Len(s)
      BY <1>1, HeadTailProperties
    <2> QED BY <2>1 DEF Precedes, Before
  <1>2. ASSUME t # <<>> PROVE Precedes(ln, s, Tail(t)) /\ After(ln, s, Head(t))
    <2>1. /\ Len(t) \in Nat /\ Len(Tail(t)) = Len(t) - 1 /\ Head(t) = t[1]
          /\ \A i \in 1..Len(Tail(t)) : Tail(t)[i] = t[i + 1]
          /\ 1 \in 1..Len(t)
      BY <1>2, HeadTailProperties
    <2> QED BY <2>1 DEF Precedes, After
  <1> QED BY <1>1, <1>2

-----------------------------------------------------------------------------
(* The pipeline of a lane: what was started, what waits in jobs and what   *)
(* waits in the queue are in the order of the pushes.                      *)
Pushed(s) == \A i \in 1..Len(s) : s[i] <= scheduled

PipelineInv ==
    /\ Pushed(startOrder) /\ Pushed(jobs)
    /\ Ord(lane, startOrder) /\ Ord(lane, jobs)
    /\ Precedes(lane, startOrder, jobs)
    /\ \A l \in Lanes :
        /\ Pushed(queue[l])
        /\ \A i \in 1..Len(queue[l]) : lane[queue[l][i]] = l
        /\ Ord(lane, queue[l])
        /\ Precedes(lane, jobs, queue[l])
        /\ Precedes(lane, startOrder, queue[l])

(* The pipeline survives a step that leaves it alone. *)
LEMMA PipelineFrame ==
    ASSUME PipelineInv, UNCHANGED <<queue, jobs, scheduled, lane, startOrder>>
    PROVE  PipelineInv'
  BY DEF PipelineInv, Pushed

(* The new Cmd of a push is greater than every Cmd in the pipeline. *)
LEMMA PushPipeline ==
    ASSUME TypeOK, PipelineInv, NEW l \in Lanes, push(l),
           UNCHANGED <<jobs, startOrder>>
    PROVE  PipelineInv' /\ queue' \in [Lanes -> Seq(Cmds)]
                        /\ lane' \in [Cmds -> Lanes]
                        /\ scheduled' \in 0..MaxCmds
  <1> DEFINE c == scheduled + 1
  <1>1. /\ c \in Cmds /\ scheduled \in Nat /\ scheduled' = c
        /\ lane \in [Cmds -> Lanes] /\ queue \in [Lanes -> Seq(Cmds)]
        /\ jobs \in Seq(Cmds) /\ startOrder \in Seq(Cmds)
        /\ scheduled' \in 0..MaxCmds
    BY SchedulerAssumption DEF push, TypeOK, Cmds
  <1>2. /\ lane' = [lane EXCEPT ![c] = l]
        /\ queue' = [queue EXCEPT ![l] = Append(queue[l], c)]
    BY DEF push
  <1>3. lane' \in [Cmds -> Lanes] /\ queue' \in [Lanes -> Seq(Cmds)]
    BY <1>1, <1>2
  <1>4. /\ lane'[c] = l /\ \A d \in Cmds : d # c => lane'[d] = lane[d]
        /\ queue'[l] = Append(queue[l], c)
        /\ \A k \in Lanes : k # l => queue'[k] = queue[k]
    BY <1>1, <1>2
  <1>5. ASSUME NEW s \in Seq(Cmds), Pushed(s)
        PROVE  /\ \A i \in 1..Len(s) : lane'[s[i]] = lane[s[i]] /\ s[i] < c
               /\ After(lane', s, c)
               /\ \A i \in 1..Len(s) : s[i] <= c
    <2>1. \A i \in 1..Len(s) : s[i] \in Cmds /\ s[i] <= scheduled
      BY <1>5 DEF Pushed
    <2>2. \A d \in Cmds : d <= scheduled => d < c /\ d # c
      BY <1>1 DEF Cmds
    <2>3. \A i \in 1..Len(s) : lane'[s[i]] = lane[s[i]] /\ s[i] < c
      BY <2>1, <2>2, <1>4
    <2> QED BY <1>1, <2>1, <2>3 DEF After, Cmds
  <1>6. \A k \in Lanes : queue[k] \in Seq(Cmds) /\ Pushed(queue[k])
    BY <1>1 DEF PipelineInv
  <1>7. Pushed(startOrder) /\ Pushed(jobs)
    BY DEF PipelineInv
  <1>8. ASSUME NEW s \in Seq(Cmds), NEW t \in Seq(Cmds), Pushed(s), Pushed(t)
        PROVE  /\ Ord(lane, s) => Ord(lane', s)
               /\ Precedes(lane, s, t) => Precedes(lane', s, t)
    <2>1. \A i \in 1..Len(s) : lane'[s[i]] = lane[s[i]]
      BY <1>5, <1>8
    <2>2. \A i \in 1..Len(t) : lane'[t[i]] = lane[t[i]]
      BY <1>5, <1>8
    <2> QED BY <2>1, <2>2 DEF Ord, Precedes
  <1>9. Pushed(startOrder)' /\ Pushed(jobs)'
    BY <1>1, <1>5, <1>7 DEF Pushed
  <1>10. Ord(lane', startOrder) /\ Ord(lane', jobs)
         /\ Precedes(lane', startOrder, jobs)
    BY <1>1, <1>7, <1>8 DEF PipelineInv
  <1>11. ASSUME NEW k \in Lanes
         PROVE  /\ Pushed(queue[k])'
                /\ \A i \in 1..Len(queue'[k]) : lane'[queue'[k][i]] = k
                /\ Ord(lane', queue'[k])
                /\ Precedes(lane', jobs, queue'[k])
                /\ Precedes(lane', startOrder, queue'[k])
    <2>1. /\ Ord(lane', queue[k]) /\ Precedes(lane', jobs, queue[k])
          /\ Precedes(lane', startOrder, queue[k])
      BY <1>1, <1>6, <1>7, <1>8 DEF PipelineInv
    <2>2. \A i \in 1..Len(queue[k]) : lane'[queue[k][i]] = k
      BY <1>5, <1>6 DEF PipelineInv
    <2>3. CASE k # l
      <3>1. Pushed(queue[k])'
        BY <1>1, <1>4, <1>5, <1>6, <2>3 DEF Pushed
      <3> QED BY <1>4, <2>1, <2>2, <2>3, <3>1
    <2>4. CASE k = l
      <3> HIDE DEF c
      <3>1. /\ queue[k] \in Seq(Cmds) /\ c \in Cmds /\ lane'[c] = k
            /\ queue'[k] = Append(queue[k], c)
        BY <1>1, <1>4, <1>6, <2>4
      <3>2. /\ Len(queue'[k]) = Len(queue[k]) + 1 /\ Len(queue[k]) \in Nat
            /\ \A i \in 1..Len(queue[k]) : queue'[k][i] = queue[k][i]
            /\ queue'[k][Len(queue[k]) + 1] = c
        BY <3>1, AppendProperties
      <3>3. Pushed(queue[k])'
        <4>1. \A i \in 1..Len(queue[k]) : queue[k][i] <= c
          BY <1>5, <1>6
        <4>2. c <= c
          BY <3>1 DEF Cmds
        <4>3. \A i \in 1..Len(queue'[k]) :
                 i \in 1..Len(queue[k]) \/ i = Len(queue[k]) + 1
          BY <3>2
        <4> QED BY <1>1, <3>2, <4>1, <4>2, <4>3 DEF Pushed
      <3>4. \A i \in 1..Len(queue'[k]) : lane'[queue'[k][i]] = k
        BY <2>2, <3>1, <3>2
      <3>5. After(lane', queue[k], c) /\ After(lane', jobs, c)
            /\ After(lane', startOrder, c)
        BY <1>1, <1>5, <1>6, <1>7
      <3>6. Ord(lane', queue'[k])
        BY <2>1, <3>1, <3>5, AppendOrd
      <3>7. Precedes(lane', jobs, queue'[k])
            /\ Precedes(lane', startOrder, queue'[k])
        BY <1>1, <2>1, <3>1, <3>5, AppendPrecedes
      <3> QED BY <3>3, <3>4, <3>6, <3>7
    <2> QED BY <2>3, <2>4
  <1> QED BY <1>1, <1>3, <1>9, <1>10, <1>11 DEF PipelineInv

(* popIf hands over the head of the first lane that is not empty. *)
LEMMA SubmitPipeline ==
    ASSUME TypeOK, PipelineInv, SubmitHead
    PROVE  PipelineInv' /\ queue' \in [Lanes -> Seq(Cmds)]
           /\ jobs' \in Seq(Cmds) /\ Len(jobs') <= JobsCap
  <1> DEFINE h == headLane
             c == Head(queue[h])
  <1>1. h \in Lanes
    BY DEF headLane, Lanes
  <1> HIDE DEF h
  <1>2. /\ jobs' = Append(jobs, c) /\ Len(jobs) < JobsCap
        /\ queue' = [queue EXCEPT ![h] = Tail(queue[h])]
        /\ UNCHANGED <<scheduled, lane, startOrder>>
        /\ queue[h] # <<>>
    BY DEF SubmitHead, h, histVars
  <1>3. /\ queue \in [Lanes -> Seq(Cmds)] /\ jobs \in Seq(Cmds)
        /\ startOrder \in Seq(Cmds) /\ \A l \in Lanes : queue[l] \in Seq(Cmds)
    BY DEF TypeOK
  <1>4. /\ c \in Cmds /\ Tail(queue[h]) \in Seq(Cmds)
        /\ c = queue[h][1] /\ 1 \in 1..Len(queue[h])
        /\ Len(queue[h]) \in Nat
        /\ Len(Tail(queue[h])) = Len(queue[h]) - 1
        /\ \A i \in 1..Len(Tail(queue[h])) : Tail(queue[h])[i] = queue[h][i + 1]
    BY <1>1, <1>2, <1>3, HeadTailProperties
  <1>5. lane[c] = h /\ c <= scheduled
    BY <1>1, <1>4 DEF PipelineInv, Pushed
  <1> HIDE DEF c
  <1>6. /\ queue'[h] = Tail(queue[h]) /\ queue' \in [Lanes -> Seq(Cmds)]
        /\ \A l \in Lanes : l # h => queue'[l] = queue[l]
    BY <1>1, <1>2, <1>3, <1>4
  <1>7. /\ jobs' \in Seq(Cmds) /\ Len(jobs') = Len(jobs) + 1
        /\ Len(jobs) \in Nat /\ Len(jobs') <= JobsCap
        /\ \A i \in 1..Len(jobs) : jobs'[i] = jobs[i]
        /\ jobs'[Len(jobs) + 1] = c
    BY <1>2, <1>3, <1>4, AppendProperties, SchedulerAssumption
  <1>8. Pushed(startOrder)' /\ Pushed(jobs)'
    BY <1>2, <1>5, <1>7 DEF PipelineInv, Pushed
  <1>9. After(lane, jobs, c) /\ After(lane, startOrder, c)
    BY <1>1, <1>2, <1>3, TailPrecedes DEF PipelineInv, c
  <1>10. Ord(lane, jobs') /\ Precedes(lane, startOrder, jobs')
    BY <1>2, <1>3, <1>4, <1>9, AppendOrd, AppendPrecedes DEF PipelineInv
  <1>11. ASSUME NEW l \in Lanes
         PROVE  /\ Pushed(queue[l])'
                /\ \A i \in 1..Len(queue'[l]) : lane[queue'[l][i]] = l
                /\ Ord(lane, queue'[l])
                /\ Precedes(lane, jobs', queue'[l])
                /\ Precedes(lane, startOrder, queue'[l])
    <2>1. CASE l = h
      <3>1. Pushed(queue[l])' /\ \A i \in 1..Len(queue'[l]) : lane[queue'[l][i]] = l
        <4>1. Pushed(queue[l]) /\ \A i \in 1..Len(queue[l]) : lane[queue[l][i]] = l
          BY DEF PipelineInv
        <4>2. Pushed(queue[l])'
          BY <1>2, <1>4, <1>6, <2>1, <4>1 DEF Pushed
        <4>3. \A i \in 1..Len(queue'[l]) : lane[queue'[l][i]] = l
          BY <1>2, <1>4, <1>6, <2>1, <4>1
        <4> QED BY <4>2, <4>3
      <3>2. Ord(lane, queue'[l]) /\ Before(lane, c, queue'[l])
        BY <1>2, <1>3, <1>6, <2>1, TailOrd DEF PipelineInv, c
      <3>3. Precedes(lane, jobs, queue'[l]) /\ Precedes(lane, startOrder, queue'[l])
        BY <1>2, <1>3, <1>6, <2>1, TailPrecedes DEF PipelineInv
      <3>4. Precedes(lane, jobs', queue'[l])
        BY <1>2, <1>3, <1>4, <1>6, <3>2, <3>3, AppendPrecedes
      <3> QED BY <3>1, <3>2, <3>3, <3>4
    <2>2. CASE l # h
      <3>1. queue'[l] = queue[l]
        BY <1>6, <2>2
      <3>2. Before(lane, c, queue[l])
        BY <1>5, <2>2 DEF PipelineInv, Before
      <3>3. Precedes(lane, jobs', queue[l])
        BY <1>2, <1>3, <1>4, <3>2, AppendPrecedes DEF PipelineInv
      <3> QED BY <1>2, <3>1, <3>3 DEF PipelineInv, Pushed
    <2> QED BY <2>1, <2>2
  <1>12. PipelineInv'
    BY <1>2, <1>8, <1>10, <1>11 DEF PipelineInv
  <1> QED BY <1>6, <1>7, <1>12

(* A worker takes the head of jobs. *)
LEMMA TakePipeline ==
    ASSUME TypeOK, PipelineInv, NEW w \in Workers, TakeJob(w)
    PROVE  PipelineInv' /\ jobs' \in Seq(Cmds) /\ Len(jobs') <= JobsCap
           /\ startOrder' \in Seq(Cmds) /\ Head(jobs) \in Cmds
  <1> DEFINE c == Head(jobs)
  <1>1. /\ jobs' = Tail(jobs) /\ jobs # <<>>
        /\ startOrder' = Append(startOrder, c)
        /\ UNCHANGED <<queue, scheduled, lane>>
    BY DEF TakeJob
  <1>2. /\ jobs \in Seq(Cmds) /\ startOrder \in Seq(Cmds)
        /\ Len(jobs) <= JobsCap
        /\ \A l \in Lanes : queue[l] \in Seq(Cmds)
    BY DEF TypeOK
  <1>3. /\ c \in Cmds /\ jobs' \in Seq(Cmds) /\ c = jobs[1]
        /\ 1 \in 1..Len(jobs) /\ Len(jobs) \in Nat
        /\ Len(jobs') = Len(jobs) - 1
        /\ \A i \in 1..Len(jobs') : jobs'[i] = jobs[i + 1]
    BY <1>1, <1>2, HeadTailProperties
  <1>4. c <= scheduled
    BY <1>3 DEF PipelineInv, Pushed
  <1> HIDE DEF c
  <1>5. /\ startOrder' \in Seq(Cmds)
        /\ Len(startOrder) \in Nat /\ Len(startOrder') = Len(startOrder) + 1
        /\ \A i \in 1..Len(startOrder) : startOrder'[i] = startOrder[i]
        /\ startOrder'[Len(startOrder) + 1] = c
    BY <1>1, <1>2, <1>3, AppendProperties
  <1>6. Pushed(jobs)' /\ Pushed(startOrder)'
    BY <1>1, <1>3, <1>4, <1>5 DEF PipelineInv, Pushed
  <1>7. /\ Ord(lane, jobs') /\ Before(lane, c, jobs')
        /\ Precedes(lane, startOrder, jobs') /\ After(lane, startOrder, c)
    BY <1>1, <1>2, TailOrd, TailPrecedes DEF PipelineInv, c
  <1>8. Ord(lane, startOrder') /\ Precedes(lane, startOrder', jobs')
    BY <1>1, <1>2, <1>3, <1>7, AppendOrd, AppendPrecedes DEF PipelineInv
  <1>9. ASSUME NEW l \in Lanes
        PROVE  /\ Precedes(lane, jobs', queue[l])
               /\ Precedes(lane, startOrder', queue[l])
    <2>1. Precedes(lane, jobs', queue[l]) /\ Before(lane, c, queue[l])
      BY <1>1, <1>2, TailPrecedes DEF PipelineInv, c
    <2> QED BY <1>1, <1>2, <1>3, <2>1, AppendPrecedes DEF PipelineInv
  <1>10. PipelineInv'
    BY <1>1, <1>6, <1>7, <1>8, <1>9 DEF PipelineInv, Pushed
  <1>11. Len(jobs') <= JobsCap
    BY <1>2, <1>3, SchedulerAssumption
  <1> QED BY <1>3, <1>5, <1>10, <1>11 DEF c

-----------------------------------------------------------------------------
(* The life of a Cmd after it was taken from jobs. *)
Started(c) == \E i \in 1..Len(startOrder) : startOrder[i] = c
Settled(c) == c \in dispatched \/ \E r \in dropped : r.cmd = c
Busy(w) == worker[w].pc \in {"run", "send"}

(* A worker's Cmd is its own; it has been called if and only if the worker *)
(* is about to send its result.                                            *)
WorkerInv ==
    /\ \A w \in Workers : Busy(w) => worker[w].cmd \in Cmds
    /\ \A w \in Workers : Busy(w) => Started(worker[w].cmd)
    /\ \A w, v \in Workers :
        Busy(w) /\ Busy(v) /\ worker[w].cmd = worker[v].cmd => w = v
    /\ \A w \in Workers : worker[w].pc = "run" => runs[worker[w].cmd] = 0
    /\ \A w \in Workers : worker[w].pc = "send" => runs[worker[w].cmd] = 1

(* A Cmd is called once, between its start and its result. *)
RunsInv ==
    \A c \in Cmds :
        /\ runs[c] \in {0, 1}
        /\ runs[c] = 1 => Started(c)
        /\ Started(c) /\ runs[c] = 0 =>
            \E w \in Workers : worker[w].pc = "run" /\ worker[w].cmd = c

(* A result belongs to a Cmd that was called, and is in one place only. *)
ResultInv ==
    /\ \A i \in 1..Len(results) :
        /\ runs[results[i].cmd] = 1
        /\ ~Settled(results[i].cmd)
        /\ \A w \in Workers :
            worker[w].pc = "send" => worker[w].cmd # results[i].cmd
    /\ \A i, j \in 1..Len(results) : results[i].cmd = results[j].cmd => i = j
    /\ \A c \in Cmds : Settled(c) => runs[c] = 1
    /\ \A w \in Workers : worker[w].pc = "send" => ~Settled(worker[w].cmd)

(* What the deferred calls of Run have done at each point. *)
PhaseInv ==
    /\ main \in {"closeMsgs", "stopPool", "wait", "join"} => stopped
    /\ main \in {"stopPool", "wait", "join"} => msgClosed
    /\ main = "join" => resultsClosed
    /\ jobsClosed => main \in {"wait", "join", "returned"}
    /\ resultsClosed => /\ main \in {"join", "returned"} /\ jobs = <<>>
                        /\ \A w \in Workers : worker[w].pc = "exited"
    /\ \A w \in Workers : worker[w].pc = "exited" => jobsClosed /\ jobs = <<>>
    /\ driver = "fini" =>
        main = "returned" /\ resultsClosed /\ msgClosed /\ stopped

(* The inductive invariant. *)
SchedInv ==
    TypeOK /\ PipelineInv /\ WorkerInv /\ RunsInv /\ ResultInv /\ PhaseInv

(* Initially nothing is scheduled. *)
LEMMA SchedInit == ASSUME Init PROVE SchedInv
  <1> USE SchedulerAssumption DEF Init
  <1>1. TypeOK
    <2>1. /\ queue \in [Lanes -> Seq(Cmds)] /\ jobs \in Seq(Cmds)
          /\ startOrder \in Seq(Cmds) /\ results \in Seq(ResultRecs)
          /\ Len(jobs) <= JobsCap /\ Len(results) <= ResultsCap
      OBVIOUS
    <2>2. worker \in [Workers -> [pc : {"idle", "run", "send", "exited"},
                                  cmd : 0..MaxCmds, out : Outcomes]]
      BY DEF Free, Outcomes
    <2>3. lane \in [Cmds -> Lanes] /\ runs \in [Cmds -> Nat] /\ scheduled \in 0..MaxCmds
      BY DEF Lanes
    <2> QED BY <2>1, <2>2, <2>3 DEF TypeOK
  <1>2. PipelineInv
    BY DEF PipelineInv, Pushed, Ord, Precedes
  <1>3. WorkerInv /\ RunsInv /\ PhaseInv
    BY DEF WorkerInv, RunsInv, PhaseInv, Busy, Started, Free
  <1>4. ResultInv
    BY DEF ResultInv, Settled, Free
  <1> QED BY <1>1, <1>2, <1>3, <1>4 DEF SchedInv

(* The parts survive steps that leave their state alone. *)
LEMMA WorkerFrame ==
    ASSUME WorkerInv, RunsInv, UNCHANGED <<worker, runs, startOrder>>
    PROVE  WorkerInv' /\ RunsInv'
  BY DEF WorkerInv, RunsInv, Busy, Started

LEMMA ResultFrame ==
    ASSUME ResultInv, UNCHANGED <<worker, runs, results, dispatched, dropped>>
    PROVE  ResultInv'
  BY DEF ResultInv, Settled

(* ScheduleAt. *)
LEMMA ScheduleStep ==
    ASSUME SchedInv, NEW l \in Lanes, ScheduleAt(l) PROVE SchedInv'
  <1> USE DEF ScheduleAt, runVars
  <1>1. /\ PipelineInv' /\ queue' \in [Lanes -> Seq(Cmds)]
        /\ lane' \in [Cmds -> Lanes] /\ scheduled' \in 0..MaxCmds
    BY PushPipeline DEF SchedInv
  <1>2. TypeOK'
    BY <1>1 DEF SchedInv, TypeOK
  <1>3. PhaseInv'
    BY DEF SchedInv, PhaseInv
  <1> QED BY <1>1, <1>2, <1>3, WorkerFrame, ResultFrame DEF SchedInv

(* Steps of Run that move nothing but its control state. *)
ControlStep ==
    \/ CtxCancel \/ RunInit \/ FrameStart \/ SeeDone \/ DrainEnd \/ FrameEnd
    \/ StopFlag \/ CloseMsgs \/ StopPool \/ CloseResults \/ RunReturns

LEMMA ControlLemma == ASSUME SchedInv, ControlStep PROVE SchedInv'
  <1> USE DEF histVars, runVars
  <1>1. UNCHANGED <<queue, jobs, worker, results, scheduled, lane, runs,
                    startOrder, dispatched, dropped>>
    BY DEF ControlStep, CtxCancel, RunInit, FrameStart, SeeDone, DrainEnd,
           FrameEnd, GoTo, StopFlag, CloseMsgs, StopPool, CloseResults,
           RunReturns
  <1>2. PipelineInv' /\ WorkerInv' /\ RunsInv' /\ ResultInv'
    BY <1>1, PipelineFrame, WorkerFrame, ResultFrame DEF SchedInv
  <1>3. /\ main' \in {"init", "select", "drain", "frame", "stopping",
                      "closeMsgs", "stopPool", "wait", "join", "returned"}
        /\ driver' \in {"off", "ready", "fini"}
        /\ {ctxDone', jobsClosed', resultsClosed', stopped', msgClosed'}
              \subseteq BOOLEAN
    BY DEF SchedInv, TypeOK, ControlStep, CtxCancel, RunInit, FrameStart,
           SeeDone, DrainEnd, FrameEnd, GoTo, StopFlag, CloseMsgs, StopPool,
           CloseResults, RunReturns
  <1>4. TypeOK'
    BY <1>1, <1>3 DEF SchedInv, TypeOK
  <1>5. PhaseInv'
    <2> USE DEF SchedInv, PhaseInv, TypeOK
    <2>1. CASE CtxCancel
      BY <2>1 DEF CtxCancel
    <2>2. CASE RunInit
      BY <2>2 DEF RunInit
    <2>3. CASE FrameStart \/ SeeDone \/ DrainEnd \/ FrameEnd
      BY <2>3 DEF FrameStart, SeeDone, DrainEnd, FrameEnd, GoTo
    <2>4. CASE StopFlag
      BY <2>4 DEF StopFlag
    <2>5. CASE CloseMsgs
      BY <2>5 DEF CloseMsgs
    <2>6. CASE StopPool
      BY <2>6 DEF StopPool
    <2>7. CASE CloseResults
      BY <2>7, SchedulerAssumption DEF CloseResults
    <2>8. CASE RunReturns
      BY <2>8 DEF RunReturns
    <2> QED BY <2>1, <2>2, <2>3, <2>4, <2>5, <2>6, <2>7, <2>8 DEF ControlStep
  <1> QED BY <1>2, <1>4, <1>5 DEF SchedInv

(* popIf. *)
LEMMA SubmitStep == ASSUME SchedInv, SubmitHead PROVE SchedInv'
  <1> USE DEF SubmitHead, runVars, histVars
  <1>1. /\ PipelineInv' /\ queue' \in [Lanes -> Seq(Cmds)]
        /\ jobs' \in Seq(Cmds) /\ Len(jobs') <= JobsCap
    BY SubmitPipeline DEF SchedInv
  <1>2. TypeOK'
    BY <1>1 DEF SchedInv, TypeOK
  <1>3. PhaseInv'
    BY DEF SchedInv, PhaseInv
  <1> QED BY <1>1, <1>2, <1>3, WorkerFrame, ResultFrame DEF SchedInv

(* The first result, taken by the main loop or by Stop, settles its Cmd. *)
LEMMA FirstResult ==
    ASSUME SchedInv, results # <<>>, results' = Tail(results)
    PROVE  /\ Head(results) = results[1] /\ 1 \in 1..Len(results)
           /\ Head(results) \in ResultRecs /\ Head(results).cmd \in Cmds
           /\ results' \in Seq(ResultRecs) /\ Len(results') <= ResultsCap
           /\ Len(results) \in Nat /\ Len(results') = Len(results) - 1
           /\ \A i \in 1..Len(results') : results'[i] = results[i + 1]
           /\ \A i \in 1..Len(results') : i + 1 \in 1..Len(results)
           /\ \A i \in 1..Len(results') : results'[i].cmd # Head(results).cmd
           /\ \A i \in 1..Len(results') : results'[i].cmd \in Cmds
  <1>1. results \in Seq(ResultRecs) /\ Len(results) <= ResultsCap
    BY DEF SchedInv, TypeOK
  <1>2. /\ Head(results) = results[1] /\ 1 \in 1..Len(results)
        /\ Head(results) \in ResultRecs /\ results' \in Seq(ResultRecs)
        /\ Len(results) \in Nat /\ Len(results') = Len(results) - 1
        /\ \A i \in 1..Len(results') : results'[i] = results[i + 1]
        /\ \A i \in 1..Len(results') : i + 1 \in 1..Len(results)
    BY <1>1, HeadTailProperties
  <1>3. \A i \in 1..Len(results') : results'[i].cmd # Head(results).cmd
    BY <1>2 DEF SchedInv, ResultInv
  <1>4. \A r \in ResultRecs : r.cmd \in Cmds
    BY DEF ResultRecs
  <1>5. Len(results') <= ResultsCap
    BY <1>1, <1>2, SchedulerAssumption
  <1> QED BY <1>2, <1>3, <1>4, <1>5

LEMMA SettleFirst ==
    ASSUME SchedInv, results # <<>>, results' = Tail(results),
           UNCHANGED <<worker, runs>>,
           \A c \in Cmds : Settled(c)' <=> Settled(c) \/ c = Head(results).cmd
    PROVE  ResultInv'
  <1> DEFINE c == Head(results).cmd
             Now(d) == d \in dispatched' \/ \E r \in dropped' : r.cmd = d
  <1>0. \A d \in Cmds : Now(d) <=> Settled(d) \/ d = c
    BY DEF Settled
  <1> HIDE DEF Now
  <1>1. /\ c \in Cmds /\ runs[c] = 1
        /\ \A w \in Workers : worker[w].pc = "send" => worker[w].cmd # c
    BY FirstResult DEF SchedInv, ResultInv
  <1>2. \A i \in 1..Len(results') :
           /\ runs[results'[i].cmd] = 1 /\ ~Settled(results'[i].cmd)
           /\ \A w \in Workers :
                 worker[w].pc = "send" => worker[w].cmd # results'[i].cmd
    BY FirstResult DEF SchedInv, ResultInv
  <1>3. \A i \in 1..Len(results') : ~Now(results'[i].cmd)
    BY <1>0, <1>2, FirstResult
  <1>4. \A i, j \in 1..Len(results') : results'[i].cmd = results'[j].cmd => i = j
    <2>1. \A i \in 1..Len(results') : results'[i] = results[i + 1] /\ i + 1 \in 1..Len(results)
      BY FirstResult
    <2> QED BY <2>1 DEF SchedInv, ResultInv
  <1>5. \A d \in Cmds : Now(d) => runs[d] = 1
    BY <1>0, <1>1 DEF SchedInv, ResultInv
  <1>6. \A w \in Workers : worker[w].pc = "send" => ~Now(worker[w].cmd)
    <2>1. \A w \in Workers : worker[w].pc = "send" =>
             worker[w].cmd \in Cmds /\ ~Settled(worker[w].cmd)
      BY DEF SchedInv, WorkerInv, ResultInv, Busy
    <2> QED BY <1>0, <1>1, <2>1
  <1> QED BY <1>2, <1>3, <1>4, <1>5, <1>6 DEF ResultInv, Settled, Now

(* dispatchResult, in the select or at the start of a frame. *)
LEMMA DispatchStep ==
    ASSUME SchedInv, SelectResult \/ DrainResult PROVE SchedInv'
  <1> USE DEF SelectResult, DrainResult, dispatchResult, runVars
  <1>1. \A c \in Cmds : Settled(c)' <=> Settled(c) \/ c = Head(results).cmd
    BY DEF Settled
  <1>2. ResultInv'
    BY <1>1, SettleFirst
  <1>3. /\ PipelineInv' /\ queue' \in [Lanes -> Seq(Cmds)]
        /\ lane' \in [Cmds -> Lanes] /\ scheduled' \in 0..MaxCmds
    <2>1. CASE UNCHANGED <<queue, scheduled, lane>>
      BY <2>1, PipelineFrame DEF SchedInv, TypeOK
    <2>2. CASE push("normal")
      BY <2>2, PushPipeline DEF SchedInv, Lanes
    <2> QED BY <2>1, <2>2
  <1>4. dispatched' \subseteq Cmds
    BY FirstResult DEF SchedInv, TypeOK
  <1>5. TypeOK'
    BY <1>3, <1>4, FirstResult DEF SchedInv, TypeOK
  <1>6. PhaseInv'
    BY DEF SchedInv, PhaseInv
  <1> QED BY <1>2, <1>3, <1>5, <1>6, WorkerFrame DEF SchedInv

(* The drain goroutine of Stop. *)
LEMMA DiscardStep == ASSUME SchedInv, DiscardResult PROVE SchedInv'
  <1> USE DEF DiscardResult, runVars
  <1>1. \A c \in Cmds : Settled(c)' <=> Settled(c) \/ c = Head(results).cmd
    BY DEF Settled
  <1>2. ResultInv'
    BY <1>1, SettleFirst
  <1>3. dropped' \subseteq ResultRecs
    BY FirstResult DEF SchedInv, TypeOK
  <1>4. TypeOK'
    BY <1>3, FirstResult DEF SchedInv, TypeOK
  <1>5. PhaseInv'
    BY DEF SchedInv, PhaseInv
  <1> QED BY <1>2, <1>4, <1>5, PipelineFrame, WorkerFrame DEF SchedInv

(* A worker takes a Cmd: it had not been started. *)
LEMMA TakeStep ==
    ASSUME SchedInv, NEW w \in Workers, TakeJob(w) PROVE SchedInv'
  <1> DEFINE c == Head(jobs)
  <1>1. /\ PipelineInv' /\ jobs' \in Seq(Cmds) /\ Len(jobs') <= JobsCap
        /\ startOrder' \in Seq(Cmds) /\ c \in Cmds
    BY TakePipeline DEF SchedInv
  <1>2. /\ worker \in [Workers -> [pc : {"idle", "run", "send", "exited"},
                                   cmd : 0..MaxCmds, out : Outcomes]]
        /\ worker' = [worker EXCEPT ![w] = [pc |-> "run", cmd |-> c, out |-> "nil"]]
        /\ UNCHANGED <<runs, results, dispatched, dropped>>
    <2>1. [Free EXCEPT !.pc = "run", !.cmd = c]
            = [pc |-> "run", cmd |-> c, out |-> "nil"]
      <3>1. [Free EXCEPT !.pc = "run"] = [pc |-> "run", cmd |-> 0, out |-> "nil"]
        BY DEF Free
      <3>2. [[pc |-> "run", cmd |-> 0, out |-> "nil"] EXCEPT !.cmd = c]
              = [pc |-> "run", cmd |-> c, out |-> "nil"]
        OBVIOUS
      <3>3. [Free EXCEPT !.pc = "run", !.cmd = c]
              = [[Free EXCEPT !.pc = "run"] EXCEPT !.cmd = c]
        OBVIOUS
      <3> QED BY <3>1, <3>2, <3>3
    <2>2. worker' = [worker EXCEPT ![w] = [Free EXCEPT !.pc = "run", !.cmd = c]]
          /\ UNCHANGED <<runs, results, dispatched, dropped>>
      BY DEF TakeJob
    <2> QED BY <2>1, <2>2 DEF SchedInv, TypeOK
  <1>3. /\ worker'[w].pc = "run" /\ worker'[w].cmd = c
        /\ \A v \in Workers : v # w => worker'[v] = worker[v]
        /\ worker[w].pc = "idle"
    BY <1>2 DEF TakeJob
  <1>4. worker' \in [Workers -> [pc : {"idle", "run", "send", "exited"},
                                 cmd : 0..MaxCmds, out : Outcomes]]
    BY <1>1, <1>2 DEF Cmds, Outcomes
  <1>5. TypeOK'
    BY <1>1, <1>4 DEF SchedInv, TypeOK, TakeJob, runVars
  <1>6. ~Started(c)
    <2>1. c = jobs[1] /\ 1 \in 1..Len(jobs)
      BY HeadTailProperties DEF SchedInv, TypeOK, TakeJob
    <2>2. c \in Nat /\ ~(c < c)
      BY <1>1 DEF Cmds
    <2> HIDE DEF c
    <2> QED BY <2>1, <2>2 DEF SchedInv, PipelineInv, Precedes, Started
  <1>7. \A d : Started(d)' <=> Started(d) \/ d = c
    <2>1. /\ Len(startOrder) \in Nat /\ Len(startOrder') = Len(startOrder) + 1
          /\ \A i \in 1..Len(startOrder) : startOrder'[i] = startOrder[i]
          /\ startOrder'[Len(startOrder) + 1] = c
      BY <1>1, AppendProperties DEF SchedInv, TypeOK, TakeJob
    <2> HIDE DEF c
    <2> QED BY <2>1 DEF Started
  <1>8. runs[c] = 0
    BY <1>1, <1>6 DEF SchedInv, RunsInv
  <1> HIDE DEF c
  <1>9. WorkerInv'
    BY <1>1, <1>2, <1>3, <1>6, <1>7, <1>8 DEF SchedInv, WorkerInv, Busy
  <1>10. RunsInv'
    <2>1. ASSUME NEW d \in Cmds, Started(d)', runs[d] = 0
          PROVE  \E v \in Workers : worker'[v].pc = "run" /\ worker'[v].cmd = d
      BY <1>3, <1>7, <2>1 DEF SchedInv, RunsInv
    <2> QED BY <1>2, <1>7, <2>1 DEF SchedInv, RunsInv
  <1>11. ResultInv'
    BY <1>2, <1>3 DEF SchedInv, ResultInv, Settled
  <1>12. PhaseInv'
    BY <1>2, <1>3 DEF SchedInv, PhaseInv, TakeJob, runVars
  <1> QED BY <1>1, <1>5, <1>9, <1>10, <1>11, <1>12 DEF SchedInv

(* runCmd: the one call of the Cmd. *)
LEMMA RunStep ==
    ASSUME SchedInv, NEW w \in Workers, NEW out \in Outcomes, RunCmd(w, out)
    PROVE  SchedInv'
  <1> DEFINE c == worker[w].cmd
  <1>1. /\ worker \in [Workers -> [pc : {"idle", "run", "send", "exited"},
                                   cmd : 0..MaxCmds, out : Outcomes]]
        /\ worker[w].pc = "run" /\ runs \in [Cmds -> Nat]
        /\ worker' = [worker EXCEPT ![w].pc = "send", ![w].out = out]
        /\ runs' = [runs EXCEPT ![c] = runs[c] + 1]
        /\ UNCHANGED <<results, dispatched, dropped, startOrder>>
    BY DEF SchedInv, TypeOK, RunCmd
  <1>2. /\ worker'[w].pc = "send" /\ worker'[w].cmd = c
        /\ \A v \in Workers : v # w => worker'[v] = worker[v]
        /\ worker' \in [Workers -> [pc : {"idle", "run", "send", "exited"},
                                    cmd : 0..MaxCmds, out : Outcomes]]
    BY <1>1 DEF Outcomes
  <1>3. c \in Cmds /\ Started(c) /\ runs[c] = 0
    BY <1>1 DEF SchedInv, WorkerInv, Busy
  <1> HIDE DEF c
  <1>4. /\ runs'[c] = 1 /\ runs' \in [Cmds -> Nat]
        /\ \A d \in Cmds : d # c => runs'[d] = runs[d]
    BY <1>1, <1>3
  <1>5. \A v \in Workers : v # w /\ Busy(v) => worker[v].cmd # c
    BY <1>1 DEF SchedInv, WorkerInv, Busy, c
  <1>6. ~Settled(c)
    BY <1>3 DEF SchedInv, ResultInv
  <1>7. \A i \in 1..Len(results) : results[i].cmd # c /\ results[i].cmd \in Cmds
    <2>1. \A i \in 1..Len(results) : results[i] \in ResultRecs
      BY DEF SchedInv, TypeOK
    <2> QED BY <1>3, <2>1 DEF SchedInv, ResultInv, ResultRecs
  <1>8. TypeOK'
    BY <1>2, <1>4 DEF SchedInv, TypeOK, RunCmd, runVars
  <1>9. PipelineInv'
    BY PipelineFrame DEF SchedInv, RunCmd
  <1>10. WorkerInv'
    BY <1>1, <1>2, <1>3, <1>4, <1>5 DEF SchedInv, WorkerInv, Busy, Started
  <1>11. RunsInv'
    <2>1. ASSUME NEW d \in Cmds, Started(d), runs'[d] = 0
          PROVE  \E v \in Workers : worker'[v].pc = "run" /\ worker'[v].cmd = d
      <3>1. d # c /\ runs[d] = 0
        BY <1>4, <2>1
      <3>2. PICK v \in Workers : worker[v].pc = "run" /\ worker[v].cmd = d
        BY <2>1, <3>1 DEF SchedInv, RunsInv
      <3> QED BY <1>2, <3>1, <3>2 DEF c
    <2>2. \A d \in Cmds : runs'[d] \in {0, 1} /\ (runs'[d] = 1 => Started(d))
      BY <1>3, <1>4 DEF SchedInv, RunsInv
    <2>3. \A d : Started(d)' <=> Started(d)
      BY <1>1 DEF Started
    <2> QED BY <2>1, <2>2, <2>3 DEF RunsInv
  <1>12. ResultInv'
    BY <1>1, <1>2, <1>3, <1>4, <1>6, <1>7 DEF SchedInv, ResultInv, Settled
  <1>13. PhaseInv'
    BY <1>1, <1>2 DEF SchedInv, PhaseInv, RunCmd, runVars
  <1> QED BY <1>8, <1>9, <1>10, <1>11, <1>12, <1>13 DEF SchedInv

(* The non-blocking send: the result goes into the channel or is lost. *)
LEMMA SendStep ==
    ASSUME SchedInv, NEW w \in Workers, SendResult(w) PROVE SchedInv'
  <1> DEFINE c == worker[w].cmd
  <1>1. /\ worker \in [Workers -> [pc : {"idle", "run", "send", "exited"},
                                   cmd : 0..MaxCmds, out : Outcomes]]
        /\ worker[w].pc = "send" /\ worker' = [worker EXCEPT ![w] = Free]
        /\ UNCHANGED <<dispatched, startOrder, runs>>
        /\ results \in Seq(ResultRecs) /\ Len(results) \in Nat
        /\ Len(results) <= ResultsCap /\ dropped \subseteq ResultRecs
    BY DEF SchedInv, TypeOK, SendResult
  <1>2. /\ worker'[w].pc = "idle"
        /\ \A v \in Workers : v # w => worker'[v] = worker[v]
        /\ worker' \in [Workers -> [pc : {"idle", "run", "send", "exited"},
                                    cmd : 0..MaxCmds, out : Outcomes]]
    BY <1>1, SchedulerAssumption DEF Outcomes, Free
  <1>3. /\ c \in Cmds /\ runs[c] = 1 /\ ~Settled(c)
        /\ \A i \in 1..Len(results) : results[i].cmd # c
    BY <1>1 DEF SchedInv, WorkerInv, ResultInv, Busy
  <1>4. ResultOf(w) \in ResultRecs /\ ResultOf(w).cmd = c
    BY <1>1, <1>3 DEF ResultOf, ResultRecs
  <1>5. \A v \in Workers : v # w /\ Busy(v) => worker[v].cmd # c
    BY <1>1 DEF SchedInv, WorkerInv, Busy
  <1> HIDE DEF c
  <1>6. WorkerInv'
    BY <1>1, <1>2 DEF SchedInv, WorkerInv, Busy, Started
  <1>7. RunsInv'
    <2>1. ASSUME NEW d \in Cmds, Started(d), runs[d] = 0
          PROVE  \E v \in Workers : worker'[v].pc = "run" /\ worker'[v].cmd = d
      <3>1. PICK v \in Workers : worker[v].pc = "run" /\ worker[v].cmd = d
        BY <2>1 DEF SchedInv, RunsInv
      <3> QED BY <1>1, <1>2, <3>1
    <2> QED BY <1>1, <2>1 DEF SchedInv, RunsInv, Started
  <1>8. PipelineInv'
    BY PipelineFrame DEF SchedInv, SendResult
  <1>9. PhaseInv'
    BY <1>1, <1>2 DEF SchedInv, PhaseInv, SendResult, runVars
  <1>10. CASE Len(results) < ResultsCap
    <2>1. results' = Append(results, ResultOf(w)) /\ dropped' = dropped
      BY <1>10 DEF SendResult
    <2>2. /\ results' \in Seq(ResultRecs) /\ Len(results') = Len(results) + 1
          /\ \A i \in 1..Len(results) : results'[i] = results[i]
          /\ results'[Len(results) + 1] = ResultOf(w)
          /\ Len(results') <= ResultsCap
      BY <1>1, <1>4, <1>10, <2>1, AppendProperties, SchedulerAssumption
    <2>3. TypeOK'
      BY <1>2, <2>1, <2>2 DEF SchedInv, TypeOK, SendResult, runVars
    <2>4. ResultInv'
      <3>1. \A i \in 1..Len(results') :
               i \in 1..Len(results) \/ i = Len(results) + 1
        BY <1>1, <2>2
      <3>2. \A i \in 1..Len(results') :
               /\ runs[results'[i].cmd] = 1 /\ ~Settled(results'[i].cmd)
               /\ \A v \in Workers :
                     worker'[v].pc = "send" => worker'[v].cmd # results'[i].cmd
        BY <1>2, <1>3, <1>4, <1>5, <2>2, <3>1 DEF SchedInv, ResultInv, Busy
      <3>3. \A i, j \in 1..Len(results') :
               results'[i].cmd = results'[j].cmd => i = j
        BY <1>3, <1>4, <2>2, <3>1 DEF SchedInv, ResultInv
      <3>4. \A v \in Workers : worker'[v].pc = "send" => ~Settled(worker'[v].cmd)
        BY <1>2 DEF SchedInv, ResultInv
      <3> QED BY <1>1, <2>1, <3>2, <3>3, <3>4 DEF SchedInv, ResultInv, Settled
    <2> QED BY <1>6, <1>7, <1>8, <1>9, <2>3, <2>4 DEF SchedInv
  <1>11. CASE ~(Len(results) < ResultsCap)
    <2>1. results' = results /\ dropped' = dropped \cup {ResultOf(w)}
      BY <1>11 DEF SendResult
    <2>2. TypeOK'
      BY <1>2, <1>4, <2>1 DEF SchedInv, TypeOK, SendResult, runVars
    <2>3. \A d : d \in dispatched' \/ (\E r \in dropped' : r.cmd = d)
                   <=> Settled(d) \/ d = c
      BY <1>1, <1>4, <2>1 DEF Settled
    <2>4. ResultInv'
      BY <1>1, <1>2, <1>3, <1>5, <2>1, <2>3
         DEF SchedInv, ResultInv, Settled, Busy
    <2> QED BY <1>6, <1>7, <1>8, <1>9, <2>2, <2>4 DEF SchedInv
  <1> QED BY <1>10, <1>11

(* A worker leaves when jobs is closed and empty. *)
LEMMA ExitStep ==
    ASSUME SchedInv, NEW w \in Workers, WorkerExit(w) PROVE SchedInv'
  <1>1. /\ worker \in [Workers -> [pc : {"idle", "run", "send", "exited"},
                                   cmd : 0..MaxCmds, out : Outcomes]]
        /\ worker[w].pc = "idle"
        /\ worker' = [worker EXCEPT ![w].pc = "exited"]
        /\ UNCHANGED <<dispatched, dropped, startOrder, runs, results>>
    BY DEF SchedInv, TypeOK, WorkerExit, histVars
  <1>2. /\ worker'[w].pc = "exited"
        /\ \A v \in Workers : v # w => worker'[v] = worker[v]
        /\ worker' \in [Workers -> [pc : {"idle", "run", "send", "exited"},
                                    cmd : 0..MaxCmds, out : Outcomes]]
    BY <1>1
  <1>3. TypeOK'
    BY <1>2 DEF SchedInv, TypeOK, WorkerExit, histVars, runVars
  <1>4. PipelineInv'
    BY PipelineFrame DEF SchedInv, WorkerExit, histVars
  <1>5. WorkerInv'
    BY <1>1, <1>2 DEF SchedInv, WorkerInv, Busy, Started
  <1>6. RunsInv'
    <2>1. ASSUME NEW d \in Cmds, Started(d), runs[d] = 0
          PROVE  \E v \in Workers : worker'[v].pc = "run" /\ worker'[v].cmd = d
      <3>1. PICK v \in Workers : worker[v].pc = "run" /\ worker[v].cmd = d
        BY <2>1 DEF SchedInv, RunsInv
      <3> QED BY <1>1, <1>2, <3>1
    <2> QED BY <1>1, <2>1 DEF SchedInv, RunsInv, Started
  <1>7. ResultInv'
    BY <1>1, <1>2 DEF SchedInv, ResultInv, Settled
  <1>8. PhaseInv'
    BY <1>1, <1>2 DEF SchedInv, PhaseInv, WorkerExit, runVars
  <1> QED BY <1>3, <1>4, <1>5, <1>6, <1>7, <1>8 DEF SchedInv

(* Nothing happens. *)
LEMMA StutterStep == ASSUME SchedInv, UNCHANGED vars PROVE SchedInv'
  <1> USE DEF vars, runVars, histVars
  <1>1. TypeOK' /\ PhaseInv'
    BY DEF SchedInv, TypeOK, PhaseInv
  <1> QED BY <1>1, PipelineFrame, WorkerFrame, ResultFrame DEF SchedInv

(* Every step keeps the invariant. *)
LEMMA SchedNext == ASSUME SchedInv, [Next]_vars PROVE SchedInv'
  BY ScheduleStep, ControlLemma, SubmitStep, DispatchStep, DiscardStep,
     TakeStep, RunStep, SendStep, ExitStep, StutterStep
     DEF Next, MainStep, WorkerStep, ControlStep, Returned

LEMMA SchedInvariance == Spec => []SchedInv
  <1>1. Init => SchedInv
    BY SchedInit
  <1>2. SchedInv /\ [Next]_vars => SchedInv'
    BY SchedNext
  <1> QED BY <1>1, <1>2, PTL DEF Spec

-----------------------------------------------------------------------------
(* Cmds of one lane are started in the order they were scheduled, for any  *)
(* number of workers and any capacity of the jobs channel (queue.popIf).   *)
THEOREM LaneOrderTheorem == Spec => []LaneOrder
  <1>1. SchedInv => LaneOrder
    <2> SUFFICES ASSUME SchedInv PROVE LaneOrder
      OBVIOUS
    <2>1. DOMAIN startOrder = 1..Len(startOrder)
      BY DEF SchedInv, TypeOK
    <2> QED BY <2>1 DEF SchedInv, PipelineInv, Ord, LaneOrder
  <1> QED BY <1>1, SchedInvariance, PTL

(* An injective sequence has as many elements as places. *)
LEMMA CountLemma ==
    ASSUME NEW s \in Seq(Cmds),
           \A i, j \in 1..Len(s) : s[i] = s[j] => i = j
    PROVE  Cardinality({c \in Cmds : \E i \in 1..Len(s) : s[i] = c}) = Len(s)
  <1> DEFINE R == {c \in Cmds : \E i \in 1..Len(s) : s[i] = c}
  <1>1. Len(s) \in Nat /\ s \in [1..Len(s) -> R]
    <2>1. Len(s) \in Nat /\ s \in [1..Len(s) -> Cmds]
      BY LenProperties
    <2> QED BY <2>1
  <1>2. s \in Bijection(1..Len(s), R)
    BY <1>1 DEF Bijection, Injection, Surjection, IsInjective
  <1>3. ExistsBijection(1..Len(s), R)
    BY <1>2 DEF ExistsBijection
  <1> HIDE DEF R
  <1>4. Cardinality(R) = Len(s)
    BY <1>1, <1>3, FS_CountingElements
  <1> QED BY <1>4 DEF R

(* At any point of a shutdown the channels are within their capacities,    *)
(* results is closed only when every worker is gone and all it took has    *)
(* been run, and the driver is finished last (FrameScheduler.Run's defers, *)
(* workerPool.Stop).                                                       *)
THEOREM ShutdownTheorem == Spec => []SafeShutdown
  <1>1. SchedInv => SafeShutdown
    <2> SUFFICES ASSUME SchedInv PROVE SafeShutdown
      OBVIOUS
    <2>1. ASSUME resultsClosed
          PROVE  Len(startOrder) = Cardinality({c \in Cmds : runs[c] = 1})
      <3>1. \A w \in Workers : worker[w].pc # "run"
        BY <2>1 DEF SchedInv, PhaseInv
      <3>2. {c \in Cmds : runs[c] = 1}
              = {c \in Cmds : \E i \in 1..Len(startOrder) : startOrder[i] = c}
        BY <3>1 DEF SchedInv, RunsInv, Started
      <3>3. startOrder \in Seq(Cmds) /\ Len(startOrder) \in Nat
        BY DEF SchedInv, TypeOK
      <3>4. ASSUME NEW i \in 1..Len(startOrder), NEW j \in 1..Len(startOrder),
                   startOrder[i] = startOrder[j]
            PROVE  i = j
        <4>1. startOrder[i] \in Nat /\ startOrder[j] \in Nat
          <5>1. startOrder[i] \in Cmds /\ startOrder[j] \in Cmds
            BY <3>3, ElementOfSeq
          <5> QED BY <5>1 DEF Cmds
        <4>2. ~(i < j) /\ ~(j < i)
          BY <3>4, <4>1 DEF SchedInv, PipelineInv, Ord
        <4> QED BY <3>3, <4>2
      <3> QED BY <3>2, <3>3, <3>4, CountLemma
    <2> QED BY <2>1 DEF SchedInv, PhaseInv, SafeShutdown, ShutdownOrder
  <1> QED BY <1>1, SchedInvariance, PTL

-----------------------------------------------------------------------------
(* The refinement of CmdExecutor: the status of the Cmds as a function of  *)
(* what was scheduled, dispatched, dropped and run.                        *)
Lost(dro, c) == \E r \in dro : r.cmd = c

(* g is f with the status of c set to v. *)
Becomes(f, g, c, v) == g = [f EXCEPT ![c] = v]

Stat(sch, dis, dro, rn, c) ==
    IF c > sch THEN "new"
    ELSE IF c \in dis THEN "dispatched"
    ELSE IF Lost(dro, c) THEN "lost"
    ELSE IF rn[c] > 0 THEN "ran" ELSE "pending"
StatusOf(sch, dis, dro, rn) == [c \in Cmds |-> Stat(sch, dis, dro, rn, c)]

LEMMA StatusDef ==
    /\ status = StatusOf(scheduled, dispatched, dropped, runs)
    /\ status' = StatusOf(scheduled', dispatched', dropped', runs')
  BY DEF status, StatusOf, Stat, Lost

(* A push makes one new Cmd pending. *)
LEMMA StatusPush ==
    ASSUME NEW sch \in Nat, NEW dis, NEW dro, NEW rn, sch + 1 \in Cmds,
           sch + 1 \notin dis, ~Lost(dro, sch + 1), rn[sch + 1] = 0
    PROVE  /\ StatusOf(sch, dis, dro, rn)[sch + 1] = "new"
           /\ Becomes(StatusOf(sch, dis, dro, rn),
                      StatusOf(sch + 1, dis, dro, rn), sch + 1, "pending")
  <1>1. Stat(sch, dis, dro, rn, sch + 1) = "new"
    BY DEF Stat
  <1>2. ASSUME NEW d \in Cmds
        PROVE  Stat(sch + 1, dis, dro, rn, d) =
                 IF d = sch + 1 THEN "pending" ELSE Stat(sch, dis, dro, rn, d)
    <2>1. d \in Nat /\ (d # sch + 1 => (d > sch <=> d > sch + 1))
      BY DEF Cmds
    <2>2. ~(sch + 1 > sch + 1) /\ ~(0 > 0)
      OBVIOUS
    <2> QED BY <2>1, <2>2 DEF Stat
  <1> QED BY <1>1, <1>2 DEF StatusOf, Becomes

(* A call of a pending Cmd. *)
LEMMA StatusRun ==
    ASSUME NEW sch \in Nat, NEW dis, NEW dro, NEW rn \in [Cmds -> Nat], NEW rm,
           NEW c \in Cmds, c <= sch, c \notin dis, ~Lost(dro, c), rn[c] = 0,
           rm = [rn EXCEPT ![c] = rn[c] + 1]
    PROVE  /\ StatusOf(sch, dis, dro, rn)[c] = "pending"
           /\ Becomes(StatusOf(sch, dis, dro, rn),
                      StatusOf(sch, dis, dro, rm), c, "ran")
  <1>1. ~(c > sch) /\ ~(rn[c] > 0) /\ rm[c] > 0
    BY DEF Cmds
  <1>2. \A d \in Cmds : d # c => rm[d] = rn[d]
    OBVIOUS
  <1>3. Stat(sch, dis, dro, rn, c) = "pending"
    BY <1>1 DEF Stat
  <1>4. \A d \in Cmds : Stat(sch, dis, dro, rm, d) =
           IF d = c THEN "ran" ELSE Stat(sch, dis, dro, rn, d)
    BY <1>1, <1>2 DEF Stat
  <1>5. StatusOf(sch, dis, dro, rm) =
           [StatusOf(sch, dis, dro, rn) EXCEPT ![c] = "ran"]
    BY <1>4 DEF StatusOf
  <1> QED BY <1>3, <1>5 DEF StatusOf, Becomes

(* A Cmd that ran is dispatched ... *)
LEMMA StatusDispatch ==
    ASSUME NEW sch \in Nat, NEW dis, NEW dro, NEW rn,
           NEW c \in Cmds, c <= sch, c \notin dis, ~Lost(dro, c), rn[c] = 1
    PROVE  /\ StatusOf(sch, dis, dro, rn)[c] = "ran"
           /\ Becomes(StatusOf(sch, dis, dro, rn),
                      StatusOf(sch, dis \cup {c}, dro, rn), c, "dispatched")
  <1>1. ~(c > sch) /\ rn[c] > 0
    BY DEF Cmds
  <1>2. Stat(sch, dis, dro, rn, c) = "ran"
    BY <1>1 DEF Stat
  <1>3. \A d \in Cmds : Stat(sch, dis \cup {c}, dro, rn, d) =
           IF d = c THEN "dispatched" ELSE Stat(sch, dis, dro, rn, d)
    BY <1>1 DEF Stat
  <1> QED BY <1>2, <1>3 DEF StatusOf, Becomes

(* ... or lost. *)
LEMMA StatusLose ==
    ASSUME NEW sch \in Nat, NEW dis, NEW dro, NEW rn, NEW r, r.cmd \in Cmds,
           r.cmd <= sch, r.cmd \notin dis, ~Lost(dro, r.cmd), rn[r.cmd] = 1
    PROVE  Becomes(StatusOf(sch, dis, dro, rn),
                   StatusOf(sch, dis, dro \cup {r}, rn), r.cmd, "lost")
  <1> DEFINE c == r.cmd
  <1>1. ~(c > sch) /\ rn[c] > 0
    BY DEF Cmds
  <1>2. \A d : Lost(dro \cup {r}, d) <=> Lost(dro, d) \/ d = c
    BY DEF Lost
  <1>3. \A d \in Cmds : Stat(sch, dis, dro \cup {r}, rn, d) =
           IF d = c THEN "lost" ELSE Stat(sch, dis, dro, rn, d)
    BY <1>1, <1>2 DEF Stat
  <1> HIDE DEF c
  <1> QED BY <1>3 DEF StatusOf, Becomes, c

Down == {"stopping", "closeMsgs", "stopPool", "wait", "join", "returned"}

(* Steps the contract does not see, or sees as the end of Run. *)
LEMMA QuietRefines ==
    ASSUME UNCHANGED <<scheduled, dispatched, dropped, runs>>,
           main \in Down => main' \in Down
    PROVE  [Executor!Next]_(Executor!vars)
  <1>1. status' = status /\ runs' = runs
    BY StatusDef
  <1> HIDE DEF status
  <1>2. CASE main \in Down
    BY <1>1, <1>2 DEF Executor!vars, Down
  <1>3. CASE main \notin Down /\ main' \notin Down
    BY <1>1, <1>3 DEF Executor!vars, Down
  <1>4. CASE main \notin Down /\ main' \in Down
    BY <1>1, <1>4 DEF Executor!Next, Executor!Stop, Down
  <1> QED BY <1>2, <1>3, <1>4

(* The Cmd of the next push is new. *)
LEMMA NextCmdNew ==
    ASSUME SchedInv, scheduled < MaxCmds
    PROVE  /\ scheduled \in Nat /\ scheduled + 1 \in Cmds
           /\ scheduled + 1 \notin dispatched /\ ~Lost(dropped, scheduled + 1)
           /\ runs[scheduled + 1] = 0
  <1>1. scheduled \in Nat /\ scheduled + 1 \in Cmds
    BY SchedulerAssumption DEF SchedInv, TypeOK, Cmds
  <1>2. ~Started(scheduled + 1)
    <2>1. ~(scheduled + 1 <= scheduled)
      BY <1>1
    <2> QED BY <2>1 DEF SchedInv, PipelineInv, Pushed, Started
  <1>3. runs[scheduled + 1] = 0
    BY <1>1, <1>2 DEF SchedInv, RunsInv
  <1>4. ~Settled(scheduled + 1)
    BY <1>1, <1>3 DEF SchedInv, ResultInv
  <1> QED BY <1>1, <1>3, <1>4 DEF Settled, Lost

(* A Cmd that was called has been scheduled. *)
LEMMA RanScheduled ==
    ASSUME SchedInv, NEW c \in Cmds, Started(c) \/ runs[c] = 1
    PROVE  c <= scheduled /\ scheduled \in Nat
  <1>1. scheduled \in Nat
    BY DEF SchedInv, TypeOK
  <1>2. Started(c)
    BY DEF SchedInv, RunsInv
  <1>3. c <= scheduled
    BY <1>2 DEF SchedInv, PipelineInv, Pushed, Started
  <1> QED BY <1>1, <1>3

(* ScheduleAt is Schedule. *)
LEMMA ScheduleRefines ==
    ASSUME SchedInv, NEW l \in Lanes, ScheduleAt(l)
    PROVE  [Executor!Next]_(Executor!vars)
  <1> DEFINE c == scheduled + 1
  <1>1. /\ scheduled < MaxCmds /\ scheduled' = c
        /\ UNCHANGED <<main, dispatched, dropped, runs>>
    BY DEF ScheduleAt, push, runVars
  <1>2. c \in Cmds /\ status[c] = "new"
        /\ status' = [status EXCEPT ![c] = "pending"]
    <2>1. c \in Cmds /\ status[c] = "new" /\ Becomes(status, status', c, "pending")
      BY <1>1, StatusDef, StatusPush, NextCmdNew
    <2> QED BY <2>1 DEF Becomes
  <1> HIDE DEF c, status
  <1>3. Executor!Schedule(c)
    BY <1>1, <1>2 DEF Executor!Schedule
  <1> QED BY <1>2, <1>3 DEF Executor!Next

(* runCmd is Execute. *)
LEMMA RunRefines ==
    ASSUME SchedInv, NEW w \in Workers, NEW out \in Outcomes, RunCmd(w, out)
    PROVE  [Executor!Next]_(Executor!vars)
  <1> DEFINE c == worker[w].cmd
  <1>1. /\ worker[w].pc = "run" /\ runs' = [runs EXCEPT ![c] = runs[c] + 1]
        /\ UNCHANGED <<main, scheduled, dispatched, dropped>>
    BY DEF RunCmd, runVars
  <1>2. c \in Cmds /\ Started(c) /\ runs[c] = 0
    BY <1>1 DEF SchedInv, WorkerInv, Busy
  <1>3. c \notin dispatched /\ ~Lost(dropped, c)
    BY <1>2 DEF SchedInv, ResultInv, Settled, Lost
  <1>4. c <= scheduled /\ scheduled \in Nat
    BY <1>2, RanScheduled
  <1>5. runs \in [Cmds -> Nat]
    BY DEF SchedInv, TypeOK
  <1> HIDE DEF c
  <1>6. status[c] = "pending" /\ status' = [status EXCEPT ![c] = "ran"]
    <2>1. status[c] = "pending" /\ Becomes(status, status', c, "ran")
      BY <1>1, <1>2, <1>3, <1>4, <1>5, StatusDef, StatusRun
    <2> QED BY <2>1 DEF Becomes
  <1> HIDE DEF status
  <1>7. Executor!Execute(c)
    BY <1>1, <1>6 DEF Executor!Execute
  <1> QED BY <1>2, <1>7 DEF Executor!Next

(* A result that does not fit is Lose, one that fits is not seen. *)
LEMMA SendRefines ==
    ASSUME SchedInv, NEW w \in Workers, SendResult(w)
    PROVE  [Executor!Next]_(Executor!vars)
  <1> DEFINE c == worker[w].cmd
  <1>1. CASE Len(results) < ResultsCap
    BY <1>1, QuietRefines DEF SendResult, runVars
  <1>2. CASE ~(Len(results) < ResultsCap)
    <2>1. /\ worker[w].pc = "send" /\ dropped' = dropped \cup {ResultOf(w)}
          /\ UNCHANGED <<main, scheduled, dispatched, runs>>
      BY <1>2 DEF SendResult, runVars
    <2>2. c \in Cmds /\ runs[c] = 1 /\ c \notin dispatched /\ ~Lost(dropped, c)
      BY <2>1 DEF SchedInv, WorkerInv, Busy, ResultInv, Settled, Lost
    <2>3. c <= scheduled /\ scheduled \in Nat
      BY <2>2, RanScheduled
    <2>4. ResultOf(w).cmd = c
      BY DEF ResultOf
    <2> HIDE DEF c
    <2>5. status[c] = "ran" /\ status' = [status EXCEPT ![c] = "lost"]
      <3>1. status[c] = "ran" /\ Becomes(status, status', c, "lost")
        <4>1. Becomes(StatusOf(scheduled, dispatched, dropped, runs),
                      StatusOf(scheduled, dispatched,
                               dropped \cup {ResultOf(w)}, runs), c, "lost")
          BY <2>2, <2>3, <2>4, StatusLose
        <4> QED BY <2>1, <2>2, <2>3, <4>1, StatusDef, StatusDispatch
      <3> QED BY <3>1 DEF Becomes
    <2> HIDE DEF status
    <2>6. Executor!Lose(c)
      BY <2>1, <2>5 DEF Executor!Lose
    <2> QED BY <2>2, <2>6 DEF Executor!Next
  <1> QED BY <1>1, <1>2

(* The Cmd of the first result has run and is not settled. *)
LEMMA FirstRan ==
    ASSUME SchedInv, results # <<>>, results' = Tail(results)
    PROVE  LET c == Head(results).cmd
           IN  /\ c \in Cmds /\ runs[c] = 1 /\ c \notin dispatched
               /\ ~Lost(dropped, c) /\ c <= scheduled /\ scheduled \in Nat
  <1> DEFINE c == Head(results).cmd
  <1>1. c \in Cmds /\ runs[c] = 1 /\ ~Settled(c)
    BY FirstResult DEF SchedInv, ResultInv
  <1>2. c <= scheduled /\ scheduled \in Nat
    BY <1>1, RanScheduled
  <1> QED BY <1>1, <1>2 DEF Settled, Lost

(* The drain goroutine of Stop is Lose. *)
LEMMA DiscardRefines ==
    ASSUME SchedInv, DiscardResult PROVE [Executor!Next]_(Executor!vars)
  <1> DEFINE c == Head(results).cmd
  <1>1. /\ results # <<>> /\ results' = Tail(results)
        /\ dropped' = dropped \cup {Head(results)}
        /\ UNCHANGED <<main, scheduled, dispatched, runs>>
    BY DEF DiscardResult, runVars
  <1>2. c \in Cmds /\ status[c] = "ran" /\ status' = [status EXCEPT ![c] = "lost"]
    <2>1. /\ c \in Cmds /\ runs[c] = 1 /\ c \notin dispatched
          /\ ~Lost(dropped, c) /\ c <= scheduled /\ scheduled \in Nat
      BY <1>1, FirstRan
    <2>2. status[c] = "ran" /\ Becomes(status, status', c, "lost")
      <3>1. Becomes(StatusOf(scheduled, dispatched, dropped, runs),
                    StatusOf(scheduled, dispatched,
                             dropped \cup {Head(results)}, runs), c, "lost")
        BY <2>1, StatusLose
      <3> HIDE DEF c
      <3> QED BY <1>1, <2>1, <3>1, StatusDef, StatusDispatch
    <2> QED BY <2>1, <2>2 DEF Becomes
  <1> HIDE DEF c, status
  <1>3. Executor!Lose(c)
    BY <1>1, <1>2 DEF Executor!Lose
  <1> QED BY <1>2, <1>3 DEF Executor!Next

(* dispatchResult is Dispatch, with the next Cmd of a chain or without. *)
LEMMA DispatchRefines ==
    ASSUME SchedInv, SelectResult \/ DrainResult
    PROVE  [Executor!Next]_(Executor!vars)
  <1> DEFINE c == Head(results).cmd
             d == scheduled + 1
  <1>1. /\ results # <<>> /\ results' = Tail(results)
        /\ dispatched' = dispatched \cup {c}
        /\ main \in {"select", "drain"}
        /\ UNCHANGED <<main, dropped, runs>>
        /\ scheduled' = scheduled \/ (scheduled < MaxCmds /\ scheduled' = d)
    BY DEF SelectResult, DrainResult, dispatchResult, push, runVars
  <1>2. /\ c \in Cmds /\ status[c] = "ran"
        /\ StatusOf(scheduled, dispatched', dropped, runs)
             = [status EXCEPT ![c] = "dispatched"]
    <2>1. /\ c \in Cmds /\ runs[c] = 1 /\ c \notin dispatched
          /\ ~Lost(dropped, c) /\ c <= scheduled /\ scheduled \in Nat
      BY <1>1, FirstRan
    <2>2. /\ status[c] = "ran"
          /\ Becomes(status, StatusOf(scheduled, dispatched', dropped, runs),
                     c, "dispatched")
      <3>1. Becomes(StatusOf(scheduled, dispatched, dropped, runs),
                    StatusOf(scheduled, dispatched \cup {c}, dropped, runs),
                    c, "dispatched")
        BY <2>1, StatusDispatch
      <3> HIDE DEF c
      <3> QED BY <1>1, <2>1, <3>1, StatusDef, StatusDispatch
    <2> QED BY <2>1, <2>2 DEF Becomes
  <1>3. CASE scheduled' = scheduled
    <2>1. status' = [status EXCEPT ![c] = "dispatched"]
      BY <1>1, <1>2, <1>3, StatusDef
    <2> HIDE DEF c, status
    <2>2. Executor!Dispatch(c)
      BY <1>1, <1>2, <2>1 DEF Executor!Dispatch
    <2> QED BY <1>2, <2>2 DEF Executor!Next
  <1>4. CASE scheduled < MaxCmds /\ scheduled' = d
    <2>1. /\ scheduled \in Nat /\ d \in Cmds /\ d \notin dispatched
          /\ ~Lost(dropped, d) /\ runs[d] = 0
      BY <1>4, NextCmdNew
    <2>2. d # c
      BY <1>1, <2>1, FirstRan
    <2>3. status[d] = "new"
      <3>1. StatusOf(scheduled, dispatched, dropped, runs)[d] = "new"
        BY <2>1, StatusPush
      <3> QED BY <3>1, StatusDef
    <2>4. status' = [StatusOf(scheduled, dispatched', dropped, runs)
                       EXCEPT ![d] = "pending"]
      <3>1. d \notin dispatched'
        BY <1>1, <2>1, <2>2
      <3>2. Becomes(StatusOf(scheduled, dispatched', dropped, runs),
                    StatusOf(scheduled + 1, dispatched', dropped, runs),
                    d, "pending")
        BY <2>1, <3>1, StatusPush
      <3> QED BY <1>1, <1>4, <3>2, StatusDef DEF Becomes
    <2>5. status' = [status EXCEPT ![c] = "dispatched", ![d] = "pending"]
      BY <1>2, <2>4
    <2> HIDE DEF c, d, status
    <2>6. Executor!Dispatch(c)
      BY <1>1, <1>2, <2>1, <2>3, <2>5 DEF Executor!Dispatch
    <2> QED BY <1>2, <2>6 DEF Executor!Next
  <1> QED BY <1>1, <1>3, <1>4

(* Every step of the scheduler is a step of the contract or is not seen. *)
LEMMA StepRefines ==
    ASSUME SchedInv, [Next]_vars PROVE [Executor!Next]_(Executor!vars)
  <1>1. ASSUME ControlStep \/ SubmitHead \/ UNCHANGED vars
        PROVE  [Executor!Next]_(Executor!vars)
    <2>1. UNCHANGED <<scheduled, dispatched, dropped, runs>>
          /\ (main \in Down => main' \in Down)
      BY <1>1 DEF Down, ControlStep, CtxCancel, RunInit, FrameStart, SeeDone,
             DrainEnd, FrameEnd, GoTo, StopFlag, CloseMsgs, StopPool,
             CloseResults, RunReturns, SubmitHead, vars, runVars, histVars
    <2> QED BY <2>1, QuietRefines
  <1>2. ASSUME NEW w \in Workers, TakeJob(w) \/ WorkerExit(w)
        PROVE  [Executor!Next]_(Executor!vars)
    BY <1>2, QuietRefines DEF TakeJob, WorkerExit, runVars, histVars
  <1> QED BY <1>1, <1>2, ScheduleRefines, RunRefines, SendRefines,
             DiscardRefines, DispatchRefines
          DEF Next, MainStep, WorkerStep, ControlStep, Returned

(* The scheduler implements the contract of CmdExecutor: a Cmd is called   *)
(* at most once, its outcome is dispatched at most once, after the call    *)
(* and only while Run is alive, whatever the workers and channels do.      *)
THEOREM RefinementTheorem == Spec => ImplementsExecutor
  <1>1. Init => Executor!Init
    <2> SUFFICES ASSUME Init PROVE Executor!Init
      OBVIOUS
    <2>1. status = [c \in Cmds |-> "new"]
      <3>1. \A c \in Cmds : c > scheduled
        BY DEF Init, Cmds
      <3> QED BY <3>1 DEF status
    <2> HIDE DEF status
    <2> QED BY <2>1 DEF Init, Executor!Init
  <1>2. SchedInv /\ [Next]_vars => [Executor!Next]_(Executor!vars)
    BY StepRefines
  <1> QED BY <1>1, <1>2, SchedInvariance, PTL
          DEF Spec, ImplementsExecutor, Executor!Spec
=============================================================================
