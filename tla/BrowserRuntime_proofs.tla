------------------------ MODULE BrowserRuntime_proofs ------------------------
(* The browser half of an effect, proved for every number of tokens, slots,  *)
(* drains, mounts and calls: each running effect has one continuation, the    *)
(* executor's contract is kept and its stack and slots are at rest.           *)
EXTENDS BrowserRuntime, SequenceFacts, FiniteSetTheorems

--------------------------------------------------------------------------------
(* The queue of callbacks and the requests in flight *)

\* Both are in step with the running effects and their slots.
Queued(queue, out, run, slots) ==
    /\ queue \in Seq(Task) /\ out \in Seq(Tokens)
    /\ Continued(queue, out, run) /\ InStep(queue, out, slots)

\* The callbacks are tasks and name their token.
LEMMA TaskTypes ==
    ASSUME NEW t \in Tokens, NEW gen \in 0 .. MaxMounts + 1, NEW ok \in BOOLEAN
    PROVE  /\ Pump(gen) \in Task /\ Pump(gen).token = 0 /\ Pump(gen).kind = "pump"
           /\ Answer(t) \in Task /\ Answer(t).token = t /\ Answer(t).kind = "answer"
           /\ Resume(t, ok) \in Task /\ Resume(t, ok).token = t /\ Resume(t, ok).kind = "resume"
           /\ Settle(t, ok) \in Task /\ Settle(t, ok).token = t /\ Settle(t, ok).kind = "settle"
           /\ Settle(t, ok).ok = ok
           /\ t \in Nat \ {0}
BY BrowserConstants DEF Task, Pump, Answer, Resume, Settle, Tokens

\* Aborting moves every request in flight to the end of the queue.
LEMMA AbortKeepsQueue ==
    ASSUME NEW queue, NEW out, NEW run, NEW slots, Queued(queue, out, run, slots)
    PROVE  Queued(Aborted(queue, out), <<>>, run, slots)
<1> DEFINE tail == [i \in 1 .. Len(out) |-> Answer(out[i])]
           all == Aborted(queue, out)
<1>1. /\ queue \in Seq(Task) /\ out \in Seq(Tokens)
      /\ Continued(queue, out, run) /\ InStep(queue, out, slots)
    BY DEF Queued
<1>2. /\ Len(queue) \in Nat /\ DOMAIN queue = 1 .. Len(queue)
      /\ Len(out) \in Nat /\ DOMAIN out = 1 .. Len(out)
    BY <1>1, LenProperties
<1>3. \A i \in 1 .. Len(out) : out[i] \in Tokens
    BY <1>1, ElementOfSeq
<1>4. \A i \in 1 .. Len(out) : /\ tail[i] \in Task
                               /\ tail[i].token = out[i] /\ tail[i].kind = "answer"
  <2>1. 0 \in 0 .. MaxMounts + 1
      BY BrowserConstants
  <2> QED
      BY <1>3, <2>1, TaskTypes
<1>5. tail \in [1 .. Len(out) -> Task]
    BY <1>4
<1> HIDE DEF tail
<1>6. tail \in Seq(Task) /\ Len(tail) = Len(out)
    BY <1>2, <1>5, FunctionIsSeq
<1>7. /\ all \in Seq(Task)
      /\ Len(all) = Len(queue) + Len(out)
      /\ \A i \in 1 .. Len(queue) + Len(out) :
            all[i] = IF i <= Len(queue) THEN queue[i] ELSE tail[i - Len(queue)]
    BY <1>1, <1>6, ConcatProperties DEF Aborted, tail
<1> HIDE DEF all
<1>8. DOMAIN all = 1 .. Len(queue) + Len(out)
    BY <1>7, LenProperties
<1>9. \A i \in DOMAIN all : \/ i \in DOMAIN queue /\ all[i] = queue[i]
                            \/ /\ i - Len(queue) \in DOMAIN out /\ i \notin DOMAIN queue
                               /\ all[i].token = out[i - Len(queue)] /\ all[i].kind = "answer"
    BY <1>2, <1>4, <1>7, <1>8
<1>10. DOMAIN <<>> = {} /\ <<>> \in Seq(Tokens)
    BY EmptySeq
<1>11. Continued(all, <<>>, run)
  <2>1. ASSUME NEW i \in DOMAIN all, NEW k \in DOMAIN all,
               all[i].token = all[k].token, all[i].token # 0
        PROVE  i = k
    <3>1. i \in Nat /\ k \in Nat
        BY <1>2, <1>8
    <3> QED
        BY <1>1, <1>2, <1>9, <2>1, <3>1 DEF Continued
  <2>2. ASSUME NEW t \in Tokens
        PROVE  t \in run <=> \E i \in DOMAIN all : all[i].token = t
    <3>1. \A i \in DOMAIN queue : i \in DOMAIN all /\ all[i] = queue[i]
        BY <1>2, <1>7, <1>8
    <3>2. \A i \in DOMAIN out : i + Len(queue) \in DOMAIN all /\ all[i + Len(queue)].token = out[i]
        BY <1>2, <1>4, <1>7, <1>8
    <3> QED
        BY <1>1, <1>9, <3>1, <3>2 DEF Continued
  <2> QED
      BY <1>10, <2>1, <2>2 DEF Continued
<1>12. InStep(all, <<>>, slots)
  <2>1. ASSUME NEW i \in DOMAIN all
        PROVE  Expects(all[i], slots)
    <3>1. CASE i \in DOMAIN queue /\ all[i] = queue[i]
        BY <1>1, <3>1 DEF InStep
    <3>2. CASE /\ i - Len(queue) \in DOMAIN out
               /\ all[i].token = out[i - Len(queue)] /\ all[i].kind = "answer"
      <4>1. slots[all[i].token] = "running" /\ all[i].token \in Tokens
          BY <1>1, <1>2, <1>3, <3>2 DEF InStep
      <4>2. all[i].token # 0
          BY <4>1, BrowserConstants DEF Tokens
      <4> QED
          BY <3>2, <4>1, <4>2 DEF Expects
    <3> QED
        BY <1>9, <3>1, <3>2
  <2> QED
      BY <1>10, <2>1 DEF InStep
<1> QED
    BY <1>7, <1>10, <1>11, <1>12 DEF Queued, all

\* Slots of other effects do not matter.
LEMMA QueueSeesItsSlots ==
    ASSUME NEW queue, NEW out, NEW run \in SUBSET Tokens, NEW slots, NEW others,
           Queued(queue, out, run, slots), \A t \in run : others[t] = slots[t]
    PROVE  Queued(queue, out, run, others)
<1>1. /\ queue \in Seq(Task) /\ out \in Seq(Tokens)
      /\ Continued(queue, out, run) /\ InStep(queue, out, slots)
    BY DEF Queued
<1>2. \A i \in DOMAIN queue : queue[i] \in Task /\ queue[i].token \in 0 .. MaxTokens
  <2>1. \A i \in DOMAIN queue : queue[i] \in Task
      BY <1>1, LenProperties, ElementOfSeq
  <2> QED
      BY <2>1 DEF Task
<1>3. \A i \in DOMAIN out : out[i] \in Tokens
    BY <1>1, LenProperties, ElementOfSeq
<1>4. \A i \in DOMAIN queue : queue[i].token # 0 => queue[i].token \in run
    BY <1>1, <1>2 DEF Continued, Tokens
<1>5. \A i \in DOMAIN out : out[i] \in run
    BY <1>1, <1>3 DEF Continued
<1>6. InStep(queue, out, others)
  <2>1. \A i \in DOMAIN queue : Expects(queue[i], others)
    <3> SUFFICES ASSUME NEW i \in DOMAIN queue PROVE Expects(queue[i], others)
        OBVIOUS
    <3>1. Expects(queue[i], slots)
        BY <1>1 DEF InStep
    <3>2. CASE queue[i].kind = "pump"
        BY <3>1, <3>2 DEF Expects
    <3>3. CASE queue[i].kind # "pump"
        BY <3>1, <3>3, <1>4 DEF Expects
    <3> QED
        BY <3>2, <3>3
  <2> QED
      BY <1>1, <1>5, <2>1 DEF InStep
<1> QED
    BY <1>1, <1>6 DEF Queued

\* The event loop takes the oldest callback; its effect has no other one.
LEMMA TakeKeepsQueue ==
    ASSUME NEW queue, NEW out, NEW run \in SUBSET Tokens, NEW slots,
           Queued(queue, out, run, slots), queue # <<>>
    PROVE  /\ Head(queue) \in Task /\ Expects(Head(queue), slots)
           /\ Head(queue).kind # "pump" => Head(queue).token \in run
           /\ Queued(Tail(queue), out, run \ {Head(queue).token}, slots)
<1> DEFINE left == Tail(queue)
           task == queue[1]
<1>1. /\ queue \in Seq(Task) /\ out \in Seq(Tokens)
      /\ Continued(queue, out, run) /\ InStep(queue, out, slots)
    BY DEF Queued
<1>2. /\ Len(queue) \in Nat \ {0} /\ DOMAIN queue = 1 .. Len(queue)
      /\ 1 \in DOMAIN queue
  <2>1. Len(queue) \in Nat \ {0} /\ DOMAIN queue = 1 .. Len(queue)
      BY <1>1, EmptySeq, LenProperties
  <2> QED
      BY <2>1
<1>3. /\ left \in Seq(Task) /\ Len(left) = Len(queue) - 1
      /\ \A i \in 1 .. Len(left) : left[i] = queue[i + 1]
    BY <1>1, HeadTailProperties
<1>4. Head(queue) = task /\ task \in Task
    BY <1>1, <1>2, ElementOfSeq
<1>5. task.token \in 0 .. MaxTokens
    BY <1>4 DEF Task
<1> HIDE DEF left, task
<1>6. DOMAIN left = 1 .. Len(queue) - 1
    BY <1>3, LenProperties
<1>7. /\ \A i \in DOMAIN left : i + 1 \in DOMAIN queue /\ i + 1 # 1 /\ left[i] = queue[i + 1]
      /\ \A k \in DOMAIN queue : k # 1 => k - 1 \in DOMAIN left /\ left[k - 1] = queue[k]
    BY <1>2, <1>3, <1>6
<1>8. Continued(left, out, run \ {task.token})
  <2>1. ASSUME NEW i \in DOMAIN left, NEW k \in DOMAIN left,
               left[i].token = left[k].token, left[i].token # 0
        PROVE  i = k
    <3>1. i + 1 = k + 1
        BY <1>1, <1>7, <2>1 DEF Continued
    <3> QED
        BY <1>6, <3>1
  <2>2. \A i \in DOMAIN left, k \in DOMAIN out : left[i].token # out[k]
      BY <1>1, <1>7 DEF Continued
  <2>3. ASSUME NEW t \in Tokens
        PROVE  t \in run \ {task.token} <=> \/ \E i \in DOMAIN left : left[i].token = t
                                            \/ \E i \in DOMAIN out : out[i] = t
    <3>1. t # 0
        BY BrowserConstants DEF Tokens
    <3>2. CASE t = task.token
        BY <1>1, <1>2, <1>7, <3>1, <3>2 DEF Continued, task
    <3>3. CASE t # task.token
        BY <1>1, <1>2, <1>7, <3>3 DEF Continued, task
    <3> QED
        BY <3>2, <3>3
  <2> QED
      BY <1>1, <2>1, <2>2, <2>3 DEF Continued
<1>9. InStep(left, out, slots)
    BY <1>1, <1>7 DEF InStep
<1>10. Expects(task, slots)
    BY <1>1, <1>2 DEF InStep, task
<1>11. task.kind # "pump" => task.token \in run
  <2>1. task.kind # "pump" => task.token \in Tokens
      BY <1>5, <1>10, BrowserConstants DEF Expects, Tokens
  <2> QED
      BY <1>1, <1>2, <2>1 DEF Continued, task
<1> QED
    BY <1>1, <1>3, <1>4, <1>8, <1>9, <1>10, <1>11 DEF Queued, left

\* A callback is queued, for an effect that has none.
LEMMA AddKeepsQueue ==
    ASSUME NEW queue, NEW out, NEW run \in SUBSET Tokens, NEW slots, NEW task \in Task,
           Queued(queue, out, run, slots), task.token \notin run, Expects(task, slots)
    PROVE  Queued(Append(queue, task), out, run \union ({task.token} \ {0}), slots)
<1> DEFINE all == Append(queue, task)
<1>1. /\ queue \in Seq(Task) /\ out \in Seq(Tokens)
      /\ Continued(queue, out, run) /\ InStep(queue, out, slots)
    BY DEF Queued
<1>2. Len(queue) \in Nat /\ DOMAIN queue = 1 .. Len(queue)
    BY <1>1, LenProperties
<1>3. /\ all \in Seq(Task) /\ Len(all) = Len(queue) + 1
      /\ \A i \in 1 .. Len(queue) : all[i] = queue[i]
      /\ all[Len(queue) + 1] = task
    BY <1>1, AppendProperties
<1> HIDE DEF all
<1>4. DOMAIN all = 1 .. Len(queue) + 1
    BY <1>3, LenProperties
<1>5. /\ \A i \in DOMAIN all : \/ i \in DOMAIN queue /\ all[i] = queue[i]
                               \/ i = Len(queue) + 1 /\ all[i] = task
      /\ \A i \in DOMAIN queue : i \in DOMAIN all /\ all[i] = queue[i]
      /\ Len(queue) + 1 \in DOMAIN all /\ all[Len(queue) + 1] = task
    BY <1>2, <1>3, <1>4
<1>6. /\ task.token \in 0 .. MaxTokens
      /\ \A i \in DOMAIN queue : queue[i].token \in 0 .. MaxTokens
      /\ \A i \in DOMAIN out : out[i] \in Tokens
  <2>1. \A i \in DOMAIN queue : queue[i] \in Task
      BY <1>1, <1>2, ElementOfSeq
  <2>2. \A i \in DOMAIN out : out[i] \in Tokens
      BY <1>1, LenProperties, ElementOfSeq
  <2> QED
      BY <2>1, <2>2 DEF Task
<1>7. /\ \A i \in DOMAIN queue : queue[i].token # 0 => queue[i].token \in run
      /\ \A i \in DOMAIN out : out[i] \in run
      /\ 0 \notin Tokens
    BY <1>1, <1>6, BrowserConstants DEF Continued, Tokens
<1>8. Continued(all, out, run \union ({task.token} \ {0}))
  <2>1. \A i, k \in DOMAIN all : all[i].token = all[k].token /\ all[i].token # 0 => i = k
      BY <1>1, <1>5, <1>7 DEF Continued
  <2>2. \A i \in DOMAIN all, k \in DOMAIN out : all[i].token # out[k]
      BY <1>1, <1>5, <1>7 DEF Continued
  <2>3. ASSUME NEW t \in Tokens
        PROVE  t \in run \union ({task.token} \ {0}) <=> \/ \E i \in DOMAIN all : all[i].token = t
                                                         \/ \E i \in DOMAIN out : out[i] = t
      BY <1>1, <1>5, <1>7 DEF Continued
  <2> QED
      BY <1>1, <2>1, <2>2, <2>3 DEF Continued
<1>9. InStep(all, out, slots)
    BY <1>1, <1>5 DEF InStep
<1> QED
    BY <1>1, <1>3, <1>8, <1>9 DEF Queued, all

\* A request is in flight, of an effect that has no other continuation.
LEMMA RequestKeepsQueue ==
    ASSUME NEW queue, NEW out, NEW run \in SUBSET Tokens, NEW slots, NEW t \in Tokens \ run,
           Queued(queue, out, run, slots), slots[t] = "running"
    PROVE  Queued(queue, Append(out, t), run \union {t}, slots)
<1> DEFINE all == Append(out, t)
<1>1. /\ queue \in Seq(Task) /\ out \in Seq(Tokens)
      /\ Continued(queue, out, run) /\ InStep(queue, out, slots)
    BY DEF Queued
<1>2. Len(out) \in Nat /\ DOMAIN out = 1 .. Len(out)
    BY <1>1, LenProperties
<1>3. /\ all \in Seq(Tokens) /\ Len(all) = Len(out) + 1
      /\ \A i \in 1 .. Len(out) : all[i] = out[i]
      /\ all[Len(out) + 1] = t
    BY <1>1, AppendProperties
<1> HIDE DEF all
<1>4. DOMAIN all = 1 .. Len(out) + 1
    BY <1>3, LenProperties
<1>5. /\ \A i \in DOMAIN all : \/ i \in DOMAIN out /\ all[i] = out[i]
                               \/ i = Len(out) + 1 /\ all[i] = t
      /\ \A i \in DOMAIN out : i \in DOMAIN all /\ all[i] = out[i]
      /\ Len(out) + 1 \in DOMAIN all /\ all[Len(out) + 1] = t
    BY <1>2, <1>3, <1>4
<1>6. \A i \in DOMAIN out : out[i] \in Tokens
    BY <1>1, LenProperties, ElementOfSeq
<1>7. /\ \A i \in DOMAIN queue : queue[i].token # t
      /\ \A i \in DOMAIN out : out[i] # t
    BY <1>1, <1>6 DEF Continued
<1>8. Continued(queue, all, run \union {t})
  <2>1. \A i, k \in DOMAIN all : all[i] = all[k] => i = k
      BY <1>1, <1>5, <1>7 DEF Continued
  <2>2. \A i \in DOMAIN queue, k \in DOMAIN all : queue[i].token # all[k]
      BY <1>1, <1>5, <1>7 DEF Continued
  <2>3. ASSUME NEW u \in Tokens
        PROVE  u \in run \union {t} <=> \/ \E i \in DOMAIN queue : queue[i].token = u
                                        \/ \E i \in DOMAIN all : all[i] = u
      BY <1>1, <1>5, <1>7 DEF Continued
  <2> QED
      BY <1>1, <2>1, <2>2, <2>3 DEF Continued
<1>9. InStep(queue, all, slots)
    BY <1>1, <1>5 DEF InStep
<1> QED
    BY <1>1, <1>3, <1>8, <1>9 DEF Queued, all

\* A request is answered.
LEMMA AnswerKeepsQueue ==
    ASSUME NEW queue, NEW out, NEW run \in SUBSET Tokens, NEW slots, NEW n \in DOMAIN out,
           Queued(queue, out, run, slots)
    PROVE  /\ out[n] \in run /\ slots[out[n]] = "running"
           /\ Queued(queue, RemoveAt(out, n), run \ {out[n]}, slots)
<1> DEFINE left == RemoveAt(out, n)
<1>1. /\ queue \in Seq(Task) /\ out \in Seq(Tokens)
      /\ Continued(queue, out, run) /\ InStep(queue, out, slots)
    BY DEF Queued
<1>2. /\ Len(out) \in Nat /\ DOMAIN out = 1 .. Len(out) /\ n \in 1 .. Len(out)
      /\ \A i \in 1 .. Len(out) : out[i] \in Tokens
    BY <1>1, LenProperties, ElementOfSeq
<1>3. /\ SubSeq(out, 1, n - 1) \in Seq(Tokens) /\ Len(SubSeq(out, 1, n - 1)) = n - 1
      /\ \A i \in 1 .. n - 1 : SubSeq(out, 1, n - 1)[i] = out[i]
  <2>1. \A i \in 1 .. n - 1 : out[i] \in Tokens
      BY <1>2
  <2>2. 1 \in Int /\ n - 1 \in Int
      BY <1>2
  <2>3. /\ SubSeq(out, 1, n - 1) \in Seq(Tokens)
        /\ Len(SubSeq(out, 1, n - 1)) = IF 1 <= n - 1 THEN (n - 1) - 1 + 1 ELSE 0
        /\ \A i \in 1 .. (n - 1) - 1 + 1 : SubSeq(out, 1, n - 1)[i] = out[1 + i - 1]
      BY <2>1, <2>2, SubSeqProperties
  <2> HIDE DEF left
  <2> QED
      BY <1>2, <2>3
<1>4. /\ SubSeq(out, n + 1, Len(out)) \in Seq(Tokens)
      /\ Len(SubSeq(out, n + 1, Len(out))) = Len(out) - n
      /\ \A i \in 1 .. Len(out) - n : SubSeq(out, n + 1, Len(out))[i] = out[n + i]
  <2>1. \A i \in n + 1 .. Len(out) : out[i] \in Tokens
      BY <1>2
  <2>2. n + 1 \in Int /\ Len(out) \in Int
      BY <1>2
  <2>3. /\ SubSeq(out, n + 1, Len(out)) \in Seq(Tokens)
        /\ Len(SubSeq(out, n + 1, Len(out))) = IF n + 1 <= Len(out) THEN Len(out) - (n + 1) + 1 ELSE 0
        /\ \A i \in 1 .. Len(out) - (n + 1) + 1 : SubSeq(out, n + 1, Len(out))[i] = out[n + 1 + i - 1]
      BY <2>1, <2>2, SubSeqProperties
  <2> HIDE DEF left
  <2> QED
      BY <1>2, <2>3
<1>5. /\ left \in Seq(Tokens) /\ Len(left) = Len(out) - 1
      /\ \A i \in 1 .. Len(out) - 1 : left[i] = out[IF i < n THEN i ELSE i + 1]
  <2> DEFINE first == SubSeq(out, 1, n - 1)
             last == SubSeq(out, n + 1, Len(out))
  <2>1. left = first \o last
      BY DEF RemoveAt
  <2>2. /\ first \in Seq(Tokens) /\ Len(first) = n - 1
        /\ \A i \in 1 .. n - 1 : first[i] = out[i]
      BY <1>3
  <2>3. /\ last \in Seq(Tokens) /\ Len(last) = Len(out) - n
        /\ \A i \in 1 .. Len(out) - n : last[i] = out[n + i]
      BY <1>4
  <2> HIDE DEF left, first, last
  <2>4. /\ left \in Seq(Tokens) /\ Len(left) = Len(first) + Len(last)
        /\ \A i \in 1 .. Len(first) + Len(last) :
              left[i] = IF i <= Len(first) THEN first[i] ELSE last[i - Len(first)]
      BY <2>1, <2>2, <2>3, ConcatProperties
  <2>5. Len(left) = Len(out) - 1
      BY <1>2, <2>2, <2>3, <2>4
  <2>6. ASSUME NEW i \in 1 .. Len(out) - 1
        PROVE  left[i] = out[IF i < n THEN i ELSE i + 1]
    <3>1. i \in 1 .. Len(first) + Len(last)
        BY <1>2, <2>2, <2>3
    <3>2. CASE i < n
        BY <1>2, <2>2, <2>4, <3>1, <3>2
    <3>3. CASE ~(i < n)
      <4>1. ~(i <= Len(first)) /\ i - Len(first) \in 1 .. Len(out) - n /\ n + (i - Len(first)) = i + 1
          BY <1>2, <2>2, <3>3
      <4> QED
          BY <2>3, <2>4, <3>1, <3>3, <4>1
    <3> QED
        BY <3>2, <3>3
  <2> QED
      BY <2>4, <2>5, <2>6
<1> HIDE DEF left
<1>6. DOMAIN left = 1 .. Len(out) - 1
    BY <1>5, LenProperties
<1>7. /\ \A i \in DOMAIN left : \E k \in DOMAIN out : k # n /\ left[i] = out[k]
      /\ \A k \in DOMAIN out : k # n => \E i \in DOMAIN left : left[i] = out[k]
  <2>1. \A i \in DOMAIN left : /\ (IF i < n THEN i ELSE i + 1) \in DOMAIN out \ {n}
                               /\ left[i] = out[IF i < n THEN i ELSE i + 1]
      BY <1>2, <1>5, <1>6
  <2>2. \A k \in DOMAIN out : k # n => /\ (IF k < n THEN k ELSE k - 1) \in DOMAIN left
                                       /\ left[IF k < n THEN k ELSE k - 1] = out[k]
    <3> SUFFICES ASSUME NEW k \in DOMAIN out, k # n
                 PROVE  /\ (IF k < n THEN k ELSE k - 1) \in DOMAIN left
                        /\ left[IF k < n THEN k ELSE k - 1] = out[k]
        OBVIOUS
    <3>1. CASE k < n
        BY <1>2, <1>5, <1>6, <3>1
    <3>2. CASE k > n
      <4>1. k - 1 \in 1 .. Len(out) - 1 /\ ~(k - 1 < n) /\ (k - 1) + 1 = k /\ ~(k < n)
          BY <1>2, <3>2
      <4>2. left[k - 1] = out[k]
          BY <1>5, <4>1
      <4> QED
          BY <1>6, <4>1, <4>2
    <3> QED
        BY <1>2, <3>1, <3>2
  <2> QED
      BY <2>1, <2>2
<1>8. \A i, k \in DOMAIN left : left[i] = left[k] => i = k
  <2> SUFFICES ASSUME NEW i \in DOMAIN left, NEW k \in DOMAIN left, left[i] = left[k]
               PROVE  i = k
      OBVIOUS
  <2>1. (IF i < n THEN i ELSE i + 1) = (IF k < n THEN k ELSE k + 1)
    <3>1. \A j \in DOMAIN left : (IF j < n THEN j ELSE j + 1) \in DOMAIN out
        BY <1>2, <1>6
    <3> QED
        BY <1>1, <1>5, <1>6, <3>1 DEF Continued
  <2> QED
      BY <1>2, <1>6, <2>1
<1>9. Continued(queue, left, run \ {out[n]})
  <2>1. \A i \in DOMAIN queue, k \in DOMAIN left : queue[i].token # left[k]
      BY <1>1, <1>7 DEF Continued
  <2>2. ASSUME NEW t \in Tokens
        PROVE  t \in run \ {out[n]} <=> \/ \E i \in DOMAIN queue : queue[i].token = t
                                        \/ \E i \in DOMAIN left : left[i] = t
    <3>1. CASE t = out[n]
      <4>1. \A i \in DOMAIN queue : queue[i].token # t
          BY <1>1, <3>1 DEF Continued
      <4>2. \A i \in DOMAIN left : left[i] # t
          BY <1>1, <1>7, <3>1 DEF Continued
      <4> QED
          BY <3>1, <4>1, <4>2
    <3>2. CASE t # out[n]
      <4>1. (\E i \in DOMAIN left : left[i] = t) <=> (\E k \in DOMAIN out : out[k] = t)
          BY <1>7, <3>2
      <4> QED
          BY <1>1, <3>2, <4>1 DEF Continued
    <3> QED
        BY <3>1, <3>2
  <2> QED
      BY <1>1, <1>8, <2>1, <2>2 DEF Continued
<1>10. InStep(queue, left, slots)
    BY <1>1, <1>7 DEF InStep
<1>11. out[n] \in run /\ slots[out[n]] = "running"
    BY <1>1, <1>2 DEF Continued, InStep
<1> QED
    BY <1>1, <1>5, <1>9, <1>10, <1>11 DEF Queued, left

--------------------------------------------------------------------------------
(* Host calls *)

\* The invariant of any such state, but for what has been released.
Fits(j, run, queue, drains, w, slots, calls, out) ==
    /\ j \in Page /\ run \in SUBSET Tokens
    /\ drains \in Seq(Drains) /\ Len(drains) <= MaxFrames
    /\ w \in Instance /\ w.trap # "contract"
    /\ slots \in [Tokens -> {"none", "running", "finished"}] /\ calls \in Launches
    /\ Queued(queue, out, run, slots)
    /\ OnMainStack(w, run, calls)
    /\ InOrder(j, run, drains, w, calls)

LEMMA InductiveFits ==
    Inductive <=> /\ Fits(js, running, micro, frames, wasm, jobs, launch, waiting)
                  /\ Released(js, running, jobs)
BY DEF Inductive, Fits, TypeOK, NoContractFailure, Queued

LEMMA InductiveFitsAfter ==
    Inductive' <=> /\ Fits(js', running', micro', frames', wasm', jobs', launch', waiting')
                   /\ Released(js', running', jobs')
BY DEF Inductive, Fits, TypeOK, NoContractFailure, Queued

LEMMA PageFields ==
    ASSUME NEW j \in Page
    PROVE  /\ {j.mounted, j.failed, j.asked, j.finished, j.pump, j.threw} \subseteq BOOLEAN
           /\ j.gen \in 0 .. MaxMounts + 1
BY DEF Page

LEMMA InstanceFields ==
    ASSUME NEW w \in Instance
    PROVE  /\ {w.sp, w.limits, w.main, w.active} \subseteq 0 .. MaxTokens
           /\ w.poisoned \in BOOLEAN /\ w.pending \in 0 .. MaxPending
           /\ w.next \in 1 .. MaxTokens + 1
BY DEF Instance, Stacks

\* Containment keeps every effect its continuation and ends the mount.
LEMMA PoisonKeeps ==
    ASSUME NEW j, NEW run, NEW queue, NEW drains, NEW w, NEW slots, NEW calls, NEW out,
           Fits(j, run, queue, drains, w, slots, calls, out), Poison(j, queue, out)
    PROVE  /\ Fits(js', run, micro', drains, w, slots, calls, waiting')
           /\ Released(js', run, slots) /\ js'.failed
<1>1. j \in Page /\ Queued(queue, out, run, slots) /\ InOrder(j, run, drains, w, calls)
    BY DEF Fits
<1>2. CASE j.failed
    BY <1>2 DEF Poison, Released
<1>3. CASE ~j.failed
  <2> DEFINE k == [j EXCEPT !.failed = TRUE, !.mounted = FALSE, !.gen = @ + 1]
  <2>1. js' = k /\ micro' = Aborted(queue, out) /\ waiting' = <<>>
      BY <1>3 DEF Poison
  <2>2. j.gen <= MaxMounts /\ j.gen \in Nat
      BY <1>1, <1>3, PageFields, BrowserConstants DEF InOrder
  <2>3. /\ k \in Page /\ k.failed = TRUE /\ k.mounted = FALSE
        /\ k.asked = j.asked /\ k.finished = j.finished
    <3>1. j.gen + 1 \in 0 .. MaxMounts + 1
        BY <2>2, BrowserConstants
    <3> QED
        BY <1>1, <3>1 DEF Page
  <2> HIDE DEF k
  <2>4. Queued(Aborted(queue, out), <<>>, run, slots)
      BY <1>1, AbortKeepsQueue
  <2>5. InOrder(k, run, drains, w, calls)
      BY <1>1, <2>3 DEF InOrder
  <2> QED
      BY <2>1, <2>3, <2>4, <2>5 DEF Fits, Released
<1> QED
    BY <1>2, <1>3

\* A trap that is none of the executor's contract.
LEMMA TrapKeeps ==
    ASSUME NEW j, NEW run, NEW queue, NEW drains, NEW w, NEW slots, NEW calls, NEW out,
           NEW kind \in {"crash", "capacity"}, NEW poisoned \in BOOLEAN,
           Fits(j, run, queue, drains, w, slots, calls, out)
    PROVE  /\ Fits(j, run, queue, drains, Trapped(w, kind, poisoned), slots, calls, out)
           /\ Trapped(w, kind, poisoned).trap # "none"
<1> DEFINE v == Trapped(w, kind, poisoned)
<1>1. w \in Instance /\ w.trap # "contract" /\ InOrder(j, run, drains, w, calls)
    BY DEF Fits
<1>2. /\ v \in Instance /\ v.next = w.next
      /\ v.trap \in {"crash", "capacity"}
  <2>1. w.trap \in {"none", "crash", "capacity", "contract"}
      BY <1>1 DEF Instance
  <2> QED
      BY <1>1, <2>1 DEF Instance, Trapped
<1> HIDE DEF v
<1>3. InOrder(j, run, drains, v, calls)
    BY <1>1, <1>2 DEF InOrder
<1>4. OnMainStack(v, run, calls)
    BY <1>2 DEF OnMainStack
<1>5. Fits(j, run, queue, drains, v, slots, calls, out)
    BY <1>2, <1>3, <1>4 DEF Fits
<1> QED
    BY <1>2, <1>5 DEF v

\* The engine has more effects queued, or none.
LEMMA PendingKeeps ==
    ASSUME NEW j, NEW run, NEW queue, NEW drains, NEW w, NEW slots, NEW calls, NEW out,
           NEW n \in 0 .. MaxPending,
           Fits(j, run, queue, drains, w, slots, calls, out)
    PROVE  Fits(j, run, queue, drains, [w EXCEPT !.pending = n], slots, calls, out)
<1> DEFINE v == [w EXCEPT !.pending = n]
<1>1. /\ w \in Instance /\ w.trap # "contract" /\ InOrder(j, run, drains, w, calls)
      /\ OnMainStack(w, run, calls)
    BY DEF Fits
<1>2. /\ v \in Instance /\ v.next = w.next /\ v.trap = w.trap /\ v.sp = w.sp
      /\ v.limits = w.limits /\ v.main = w.main /\ v.active = w.active
    BY <1>1 DEF Instance
<1> HIDE DEF v
<1>3. InOrder(j, run, drains, v, calls) /\ OnMainStack(v, run, calls)
    BY <1>1, <1>2 DEF InOrder, OnMainStack
<1>4. Fits(j, run, queue, drains, v, slots, calls, out)
    BY <1>1, <1>2, <1>3 DEF Fits
<1> QED
    BY <1>4 DEF v

\* A drain begins, or one that is not a mount's is replaced.
LEMMA DrainKeeps ==
    ASSUME NEW j, NEW run, NEW queue, NEW drains, NEW w, NEW slots, NEW calls, NEW out,
           NEW drain \in Drains, Len(drains) < MaxFrames, drain.phase = "mount" => ~j.asked,
           Fits(j, run, queue, drains, w, slots, calls, out)
    PROVE  Fits(j, run, queue, Append(drains, drain), w, slots, calls, out)
<1> DEFINE all == Append(drains, drain)
<1>1. drains \in Seq(Drains) /\ InOrder(j, run, drains, w, calls)
    BY DEF Fits
<1>2. Len(drains) \in Nat /\ DOMAIN drains = 1 .. Len(drains)
    BY <1>1, LenProperties
<1>3. /\ all \in Seq(Drains) /\ Len(all) = Len(drains) + 1
      /\ \A i \in 1 .. Len(drains) : all[i] = drains[i]
      /\ all[Len(drains) + 1] = drain
    BY <1>1, AppendProperties
<1> HIDE DEF all
<1>4. DOMAIN all = 1 .. Len(drains) + 1
    BY <1>3, LenProperties
<1>5. \A i \in DOMAIN all : (i \in DOMAIN drains /\ all[i] = drains[i]) \/ all[i] = drain
    BY <1>2, <1>3, <1>4
<1>6. InOrder(j, run, all, w, calls)
    BY <1>1, <1>5 DEF InOrder
<1>7. Len(all) <= MaxFrames
    BY <1>2, <1>3, BrowserConstants
<1>8. Fits(j, run, queue, all, w, slots, calls, out)
    BY <1>3, <1>6, <1>7 DEF Fits
<1> QED
    BY <1>8 DEF all

Phases == {"event", "source", "effect", "mount", "unmount", "late unmount"}

\* A host call returns and its drain begins, or it traps and is contained.
LEMMA HostCallKeeps ==
    ASSUME NEW phase \in Phases, NEW below, NEW w, NEW j, NEW run, NEW queue, NEW slots,
           NEW calls, NEW out,
           Fits(j, run, queue, below, w, slots, calls, out), Released(j, run, slots),
           Len(below) < MaxFrames, phase = "mount" => ~j.asked,
           HostCall(phase, below, w, j, queue, out)
    PROVE  /\ Fits(js', run, micro', frames', wasm', slots, calls, waiting')
           /\ Released(js', run, slots)
<1>1. w \in Instance
    BY DEF Fits
<1>2. CASE /\ \E more \in 0 .. (IF j.asked THEN 0 ELSE MaxPending - w.pending), left \in 0 .. MaxCommands :
                /\ wasm' = [w EXCEPT !.pending = @ + more]
                /\ frames' = Append(below, [phase |-> phase, left |-> left])
           /\ js' = j
           /\ micro' = queue
           /\ waiting' = out
  <2>1. PICK more \in 0 .. (IF j.asked THEN 0 ELSE MaxPending - w.pending), left \in 0 .. MaxCommands :
            /\ wasm' = [w EXCEPT !.pending = @ + more]
            /\ frames' = Append(below, [phase |-> phase, left |-> left])
      BY <1>2
  <2>2. w.pending + more \in 0 .. MaxPending
    <3>1. w.pending \in 0 .. MaxPending
        BY <1>1, InstanceFields
    <3>2. MaxPending \in Nat
        BY BrowserConstants
    <3>3. more \in Nat /\ (more = 0 \/ more <= MaxPending - w.pending)
        BY <2>1, <3>1, <3>2
    <3> QED
        BY <3>1, <3>2, <3>3
  <2>3. Fits(j, run, queue, below, wasm', slots, calls, out)
    <3>1. wasm' = [w EXCEPT !.pending = w.pending + more]
        BY <2>1
    <3> QED
        BY <2>2, <3>1, PendingKeeps
  <2>4. [phase |-> phase, left |-> left] \in Drains
      BY DEF Drains, Phases
  <2>5. Fits(j, run, queue, frames', wasm', slots, calls, out)
      BY <2>1, <2>3, <2>4, DrainKeeps
  <2> QED
      BY <1>2, <2>5
<1>3. CASE /\ \E poisoned \in {w.poisoned, TRUE} : wasm' = Trapped(w, "crash", poisoned)
           /\ frames' = below
           /\ Poison(j, queue, out)
  <2>1. PICK poisoned \in {w.poisoned, TRUE} : wasm' = Trapped(w, "crash", poisoned)
      BY <1>3
  <2>2. poisoned \in BOOLEAN
      BY <1>1, InstanceFields
  <2>3. Fits(j, run, queue, below, wasm', slots, calls, out)
      BY <2>1, <2>2, TrapKeeps
  <2> QED
      BY <1>3, <2>3, PoisonKeeps
<1> QED
    BY <1>2, <1>3 DEF HostCall

--------------------------------------------------------------------------------
(* Running effects *)

\* The pump's next turn may be queued behind.
LEMMA PumpKeepsQueue ==
    ASSUME NEW queue, NEW out, NEW run \in SUBSET Tokens, NEW slots, NEW gen \in 0 .. MaxMounts + 1,
           NEW after \in {<<>>, <<Pump(gen)>>}, Queued(queue, out, run, slots)
    PROVE  Queued(queue \o after, out, run, slots)
<1>1. queue \in Seq(Task)
    BY DEF Queued
<1>2. Pump(gen) \in Task /\ Pump(gen).token = 0 /\ Pump(gen).kind = "pump"
    BY BrowserConstants DEF Pump, Task
<1>3. CASE after = <<>>
    BY <1>1, <1>3, ConcatEmptySeq
<1>4. CASE after = <<Pump(gen)>>
  <2>1. queue \o after = Append(queue, Pump(gen))
      BY <1>1, <1>2, <1>4, AppendIsConcat
  <2>2. Pump(gen).token \notin run /\ Expects(Pump(gen), slots)
      BY <1>2, BrowserConstants DEF Expects, Tokens
  <2>3. run \union ({Pump(gen).token} \ {0}) = run
      BY <1>2
  <2>4. Queued(Append(queue, Pump(gen)), out, run \union ({Pump(gen).token} \ {0}), slots)
      BY <1>2, <2>2, AddKeepsQueue
  <2> QED
      BY <2>1, <2>3, <2>4
<1> QED
    BY <1>3, <1>4

\* An effect queues its one callback, with its slot as that expects it.
LEMMA ContinueKeepsQueue ==
    ASSUME NEW queue, NEW out, NEW run \in SUBSET Tokens, NEW slots, NEW t \in Tokens \ run,
           NEW task \in Task, task.token = t, task.kind # "pump",
           slots \in [Tokens -> {"none", "running", "finished"}],
           Queued(queue, out, run, slots),
           NEW state \in {"running", "finished"},
           state = IF task.kind = "settle" /\ task.ok THEN "finished" ELSE "running"
    PROVE  Queued(Append(queue, task), out, run \union {t}, [slots EXCEPT ![t] = state])
<1> DEFINE others == [slots EXCEPT ![t] = state]
<1>1. others[t] = state /\ \A u \in run : others[u] = slots[u]
    OBVIOUS
<1> HIDE DEF others
<1>2. Queued(queue, out, run, others)
    BY <1>1, QueueSeesItsSlots
<1>3. t # 0
    BY BrowserConstants DEF Tokens
<1>4. Expects(task, others)
    BY <1>1, <1>3 DEF Expects
<1>5. Queued(Append(queue, task), out, run \union ({task.token} \ {0}), others)
    BY <1>2, <1>4, AddKeepsQueue
<1>6. run \union ({task.token} \ {0}) = run \union {t} /\ run \union {t} \in SUBSET Tokens
    BY <1>3
<1>7. Queued(Append(queue, task), out, run \union {t}, others)
    BY <1>5, <1>6
<1> QED
    BY <1>7 DEF others

\* One run of an effect on its stack: it finishes, traps or suspends on a
\* request, and leaves the instance on the stack it was called from.
LEMMA RunKeeps ==
    ASSUME NEW t \in Tokens, NEW run \in SUBSET Tokens, t \notin run, NEW w \in Instance, NEW calls \in Launches,
           NEW before, NEW after \in {<<>>, <<Pump(js.gen)>>},
           js \in Page, frames \in Seq(Drains), Len(frames) <= MaxFrames,
           jobs \in [Tokens -> {"none", "running", "finished"}],
           w.trap # "contract", w.active = t,
           w.trap = "none" => w.main = Main /\ \A u \in run \union {t} : calls[u].saved = Main,
           Queued(before, waiting, run, jobs),
           InOrder(js, run \union {t}, frames, w, calls),
           Released(js, run \union {t}, jobs),
           RunOnStack(t, w, js, calls, before, after)
    PROVE  /\ Fits(js', run \union {t}, micro', frames, wasm', jobs', launch', waiting')
           /\ Released(js', run \union {t}, jobs')
<1> DEFINE all == run \union {t}
<1>1. /\ js' = js /\ js.gen \in 0 .. MaxMounts + 1 /\ t # 0 /\ 0 \in 0 .. MaxMounts + 1
      /\ w.active # 0
    BY PageFields, BrowserConstants DEF RunOnStack, Tokens
<1>2. ASSUME NEW state \in {"running", "finished"}
      PROVE  /\ [jobs EXCEPT ![t] = state] \in [Tokens -> {"none", "running", "finished"}]
             /\ [jobs EXCEPT ![t] = state][t] = state
             /\ \A u \in run : [jobs EXCEPT ![t] = state][u] = jobs[u]
             /\ Released(js, all, [jobs EXCEPT ![t] = state])
    BY DEF Released
<1>3. all \in SUBSET Tokens
    OBVIOUS
<1>4. ASSUME NEW task \in Task, task.token = t, task.kind # "pump",
             NEW state \in {"running", "finished"},
             state = (IF task.kind = "settle" /\ task.ok THEN "finished" ELSE "running")
      PROVE  Queued(Append(before, task) \o after, waiting, all, [jobs EXCEPT ![t] = state])
  <2>1. t \in Tokens \ run
      OBVIOUS
  <2>2. state = IF task.kind = "settle" /\ task.ok THEN "finished" ELSE "running"
      BY <1>4
  <2> HIDE DEF all
  <2>3. Queued(Append(before, task), waiting, all, [jobs EXCEPT ![t] = state])
      BY <1>4, <2>1, <2>2, ContinueKeepsQueue DEF all
  <2> QED
      BY <1>1, <1>3, <2>3, PumpKeepsQueue
<1>5. CASE /\ wasm' = [w EXCEPT !.active = 0, !.limits = calls[t].saved, !.sp = calls[t].saved]
           /\ jobs' = [jobs EXCEPT ![t] = "finished"]
           /\ micro' = Append(before, Settle(t, TRUE)) \o after
           /\ launch' = calls
           /\ UNCHANGED waiting
  <2>1. Queued(micro', waiting', all, jobs')
      BY <1>1, <1>4, <1>5, TaskTypes
  <2>2. calls[t].saved \in Stacks
      BY DEF Launches
  <2>3. /\ wasm' \in Instance /\ wasm'.trap = w.trap /\ wasm'.next = w.next
        /\ wasm'.active = 0 /\ wasm'.main = w.main
        /\ wasm'.sp = calls[t].saved /\ wasm'.limits = calls[t].saved
    <3>1. 0 \in Stacks
        BY BrowserConstants DEF Stacks
    <3> QED
        BY <1>5, <2>2, <3>1 DEF Instance
  <2>4. OnMainStack(wasm', all, launch')
      BY <1>5, <2>3 DEF OnMainStack
  <2>5. InOrder(js', all, frames, wasm', launch')
      BY <1>1, <1>5, <2>3 DEF InOrder
  <2> QED
      BY <1>1, <1>2, <1>3, <1>5, <2>1, <2>3, <2>4, <2>5 DEF Fits
<1>6. CASE /\ \E poisoned \in BOOLEAN : wasm' = Trapped(w, "crash", poisoned)
           /\ jobs' = [jobs EXCEPT ![t] = "running"]
           /\ micro' = Append(before, Settle(t, FALSE)) \o after
           /\ launch' = calls
           /\ UNCHANGED waiting
  <2>1. Queued(micro', waiting', all, jobs')
      BY <1>1, <1>4, <1>6, TaskTypes
  <2>2. PICK poisoned \in BOOLEAN : wasm' = Trapped(w, "crash", poisoned)
      BY <1>6
  <2>3. /\ wasm' \in Instance /\ wasm'.next = w.next
        /\ wasm'.trap # "none" /\ wasm'.trap # "contract"
    <3>1. w.trap \in {"none", "crash", "capacity", "contract"}
        BY DEF Instance
    <3> QED
        BY <2>2, <3>1 DEF Instance, Trapped
  <2>4. OnMainStack(wasm', all, launch')
      BY <2>3 DEF OnMainStack
  <2>5. InOrder(js', all, frames, wasm', launch')
      BY <1>1, <1>6, <2>3 DEF InOrder
  <2> QED
      BY <1>1, <1>2, <1>3, <1>6, <2>1, <2>3, <2>4, <2>5 DEF Fits
<1>7. CASE /\ calls[t].calls < MaxCalls
           /\ w.active # 0
           /\ wasm' = OnMain(w)
           /\ jobs' = [jobs EXCEPT ![t] = "running"]
           /\ launch' = [calls EXCEPT ![t].calls = @ + 1]
           /\ \/ micro' = Append(before, Resume(t, TRUE)) \o after /\ UNCHANGED waiting
              \/ (js.asked \/ js.failed) /\ micro' = Append(before, Answer(t)) \o after /\ UNCHANGED waiting
              \/ ~js.asked /\ ~js.failed /\ micro' = before \o after /\ waiting' = Append(waiting, t)
  <2>1. Queued(micro', waiting', all, jobs')
    <3>1. CASE micro' = Append(before, Resume(t, TRUE)) \o after /\ UNCHANGED waiting
        BY <1>1, <1>4, <1>7, <3>1, TaskTypes
    <3>2. CASE micro' = Append(before, Answer(t)) \o after /\ UNCHANGED waiting
        BY <1>1, <1>4, <1>7, <3>2, TaskTypes
    <3>3. CASE micro' = before \o after /\ waiting' = Append(waiting, t)
      <4>1. jobs'[t] = "running" /\ \A u \in run : jobs'[u] = jobs[u]
          BY <1>2, <1>7
      <4>2. Queued(before, waiting, run, jobs')
          BY <4>1, QueueSeesItsSlots
      <4>3. Queued(before, Append(waiting, t), all, jobs')
          BY <4>1, <4>2, RequestKeepsQueue
      <4> QED
          BY <1>1, <1>3, <3>3, <4>3, PumpKeepsQueue
    <3> QED
        BY <1>7, <3>1, <3>2, <3>3
  <2>2. /\ launch' \in Launches
        /\ \A u \in Tokens : launch'[u].saved = calls[u].saved /\ launch'[u].gen = calls[u].gen
    <3>1. calls[t].calls \in 0 .. MaxCalls
        BY DEF Launches
    <3>2. calls[t].calls + 1 \in 0 .. MaxCalls
        BY <1>7, <3>1, BrowserConstants
    <3>3. launch' = [calls EXCEPT ![t] = [calls[t] EXCEPT !.calls = calls[t].calls + 1]]
        BY <1>7
    <3> QED
        BY <3>2, <3>3 DEF Launches
  <2>3. /\ wasm' \in Instance /\ wasm'.trap = w.trap /\ wasm'.next = w.next
        /\ wasm'.active = 0 /\ wasm'.main = w.main /\ wasm'.sp = w.main /\ wasm'.limits = w.main
    <3>1. 0 \in Stacks /\ w.main \in Stacks
        BY BrowserConstants DEF Stacks, Instance
    <3> QED
        BY <1>7, <3>1 DEF Instance, OnMain
  <2>4. OnMainStack(wasm', all, launch')
      BY <1>3, <2>2, <2>3 DEF OnMainStack
  <2>5. InOrder(js', all, frames, wasm', launch')
      BY <1>1, <1>3, <2>2, <2>3 DEF InOrder
  <2> QED
      BY <1>1, <1>2, <1>3, <1>7, <2>1, <2>2, <2>3, <2>4, <2>5 DEF Fits
<1>8. ~(w.active = 0)
    BY <1>1
<1> QED
    BY <1>5, <1>6, <1>7, <1>8 DEF RunOnStack

--------------------------------------------------------------------------------
(* Teardown *)

LEMMA NothingPending == 0 \in 0 .. MaxPending /\ Len(<<>>) < MaxFrames
BY EmptySeq, BrowserConstants

\* With no effect running the slots can be emptied.
LEMMA EmptySlotsKeepQueue ==
    ASSUME NEW queue, NEW out, NEW slots, Queued(queue, out, {}, slots)
    PROVE  Queued(queue, out, {}, NoJobs)
BY QueueSeesItsSlots

LEMMA ClearKeeps ==
    ASSUME NEW phase \in {"mount", "unmount", "late unmount"}, NEW j, NEW queue, NEW out,
           frames = <<>>, Fits(j, {}, queue, <<>>, wasm, NoJobs, launch, out),
           \A t \in Tokens : jobs[t] # "running", phase = "mount" => ~j.asked,
           ClearRuntime(phase, j, queue, out)
    PROVE  /\ Fits(js', {}, micro', frames', wasm', jobs', launch, waiting')
           /\ Released(js', {}, jobs')
<1>1. /\ jobs' = NoJobs
      /\ HostCall(phase, <<>>, [wasm EXCEPT !.pending = 0], j, queue, out)
    BY DEF ClearRuntime
<1>2. Fits(j, {}, queue, <<>>, [wasm EXCEPT !.pending = 0], NoJobs, launch, out)
    BY NothingPending, PendingKeeps
<1>3. Released(j, {}, NoJobs)
    BY DEF Released, NoJobs
<1>4. Len(<<>>) < MaxFrames /\ phase \in Phases
    BY NothingPending DEF Phases
<1>5. /\ Fits(js', {}, micro', frames', wasm', NoJobs, launch, waiting')
      /\ Released(js', {}, NoJobs)
    BY <1>1, <1>2, <1>3, <1>4, HostCallKeeps
<1> QED
    BY <1>1, <1>5

\* The engine is torn down when the last effect has returned, or later.
LEMMA FinishKeeps ==
    ASSUME NEW phase \in {"unmount", "late unmount"}, NEW j, NEW left, NEW queue, NEW out,
           frames = <<>>, Fits(j, left, queue, <<>>, wasm, jobs, launch, out),
           Released(j, left, jobs), FinishUnmount(phase, j, left, queue, out)
    PROVE  /\ Fits(js', left, micro', frames', wasm', jobs', launch, waiting')
           /\ Released(js', left, jobs')
<1>1. CASE j.asked /\ ~j.finished /\ left = {} /\ ~j.failed
  <2> DEFINE k == [j EXCEPT !.finished = TRUE]
  <2>1. ClearRuntime(phase, k, queue, out)
      BY <1>1 DEF FinishUnmount
  <2>2. /\ j \in Page /\ InOrder(j, {}, <<>>, wasm, launch)
        /\ Queued(queue, out, {}, jobs)
      BY <1>1 DEF Fits
  <2>3. /\ k \in Page /\ k.finished = TRUE /\ k.asked = j.asked /\ k.mounted = j.mounted
        /\ k.failed = j.failed /\ k.gen = j.gen
      BY <2>2 DEF Page
  <2> HIDE DEF k
  <2>4. InOrder(k, {}, <<>>, wasm, launch)
      BY <1>1, <2>2, <2>3 DEF InOrder
  <2>5. NoJobs \in [Tokens -> {"none", "running", "finished"}]
      BY DEF NoJobs
  <2>6. Queued(queue, out, {}, NoJobs)
      BY <2>2, EmptySlotsKeepQueue
  <2>7. Fits(k, {}, queue, <<>>, wasm, NoJobs, launch, out)
      BY <1>1, <2>3, <2>4, <2>5, <2>6 DEF Fits
  <2>8. \A t \in Tokens : jobs[t] # "running"
      BY <1>1 DEF Released
  <2>9. phase \in {"mount", "unmount", "late unmount"} /\ phase # "mount"
      OBVIOUS
  <2> QED
      BY <1>1, <2>1, <2>7, <2>8, <2>9, ClearKeeps
<1>2. CASE ~(j.asked /\ ~j.finished /\ left = {} /\ ~j.failed)
  <2>1. js' = j /\ micro' = queue /\ waiting' = out /\ UNCHANGED <<frames, wasm, jobs>>
      BY <1>2 DEF FinishUnmount
  <2> QED
      BY <2>1
<1> QED
    BY <1>1, <1>2

--------------------------------------------------------------------------------
(* Drains *)

\* Flags that no effect depends on.
LEMMA PageKeeps ==
    ASSUME NEW j, NEW run, NEW queue, NEW drains, NEW w, NEW slots, NEW calls, NEW out, NEW k \in Page,
           Fits(j, run, queue, drains, w, slots, calls, out), Released(j, run, slots),
           k.failed = j.failed, k.asked = j.asked, k.finished = j.finished, k.gen = j.gen,
           j.mounted => k.mounted, k.mounted => ~k.asked
    PROVE  Fits(k, run, queue, drains, w, slots, calls, out) /\ Released(k, run, slots)
BY DEF Fits, InOrder, Released

\* The innermost drain ends.
LEMMA BelowKeeps ==
    ASSUME NEW j, NEW run, NEW queue, NEW w, NEW slots, NEW calls, NEW out,
           Fits(j, run, queue, frames, w, slots, calls, out), frames # <<>>
    PROVE  /\ Fits(j, run, queue, Below, w, slots, calls, out)
           /\ Top \in Drains /\ (Top.phase = "mount" => ~j.asked)
           /\ Len(Below) < MaxFrames /\ Len(Below) = Len(frames) - 1
           /\ Len(frames) \in Nat
<1>1. frames \in Seq(Drains) /\ Len(frames) <= MaxFrames /\ InOrder(j, run, frames, w, calls)
    BY DEF Fits
<1>2. /\ Len(frames) \in Nat \ {0} /\ DOMAIN frames = 1 .. Len(frames)
      /\ Top \in Drains
      /\ Below \in Seq(Drains) /\ Len(Below) = Len(frames) - 1
      /\ \A i \in 1 .. Len(frames) - 1 : Below[i] = frames[i]
    BY <1>1, FrontOfSeq, LenProperties DEF Below, Front, Top
<1>3. DOMAIN Below = 1 .. Len(frames) - 1
    BY <1>2, LenProperties
<1>4. \A i \in DOMAIN Below : i \in DOMAIN frames /\ Below[i] = frames[i]
    BY <1>2, <1>3
<1>5. InOrder(j, run, Below, w, calls)
    BY <1>1, <1>4 DEF InOrder
<1>6. Len(Below) < MaxFrames
    BY <1>1, <1>2, BrowserConstants
<1>7. Fits(j, run, queue, Below, w, slots, calls, out)
    BY <1>2, <1>5, <1>6, BrowserConstants DEF Fits
<1>8. Top.phase = "mount" => ~j.asked
    BY <1>1, <1>2 DEF InOrder, Top
<1> QED
    BY <1>2, <1>6, <1>7, <1>8

\* One command of the innermost batch is gone.
LEMMA LeftKeeps ==
    ASSUME NEW j, NEW run, NEW queue, NEW w, NEW slots, NEW calls, NEW out,
           Fits(j, run, queue, frames, w, slots, calls, out), frames # <<>>, Top.left > 0
    PROVE  /\ Fits(j, run, queue, Append(Below, [Top EXCEPT !.left = @ - 1]), w, slots, calls, out)
           /\ Len(Append(Below, [Top EXCEPT !.left = @ - 1])) = Len(frames)
<1> DEFINE drain == [Top EXCEPT !.left = @ - 1]
<1>1. /\ Fits(j, run, queue, Below, w, slots, calls, out)
      /\ Top \in Drains /\ (Top.phase = "mount" => ~j.asked)
      /\ Len(Below) < MaxFrames /\ Len(Below) = Len(frames) - 1
      /\ Len(frames) \in Nat
    BY BelowKeeps
<1>2. drain \in Drains /\ drain.phase = Top.phase
  <2>1. Top.left \in 0 .. MaxCommands
      BY <1>1 DEF Drains
  <2>2. Top.left - 1 \in 0 .. MaxCommands
      BY <2>1, BrowserConstants
  <2>3. drain = [Top EXCEPT !.left = Top.left - 1]
      OBVIOUS
  <2> QED
      BY <1>1, <2>2, <2>3 DEF Drains
<1> HIDE DEF drain
<1>3. Fits(j, run, queue, Append(Below, drain), w, slots, calls, out)
    BY <1>1, <1>2, DrainKeeps
<1>4. Len(Append(Below, drain)) = Len(frames)
  <2>1. Below \in Seq(Drains)
      BY <1>1 DEF Fits
  <2>2. Len(Append(Below, drain)) = Len(Below) + 1
      BY <1>2, <2>1, AppendProperties
  <2> QED
      BY <1>1, <2>2
<1> QED
    BY <1>3, <1>4 DEF drain

\* An event reaches its listener.
LEMMA DispatchKeeps ==
    ASSUME Inductive, NEW below, Dispatch(below), Len(below) < MaxFrames,
           Fits(js, running, micro, below, wasm, jobs, launch, waiting)
    PROVE  Inductive'
<1>1. /\ HostCall("event", below, wasm, js, micro, waiting)
      /\ UNCHANGED <<running, jobs, launch>>
    BY DEF Dispatch
<1>2. Released(js, running, jobs) /\ "event" \in Phases /\ "event" # "mount"
    BY InductiveFits DEF Phases
<1>3. /\ Fits(js', running, micro', frames', wasm', jobs, launch, waiting')
      /\ Released(js', running, jobs)
    BY <1>1, <1>2, HostCallKeeps
<1> QED
    BY <1>1, <1>3, InductiveFitsAfter

LEMMA EventOrSourceKeeps ==
    ASSUME Inductive, DispatchEvent \/ NotifySource
    PROVE  Inductive'
<1>1. /\ Fits(js, running, micro, frames, wasm, jobs, launch, waiting)
      /\ Released(js, running, jobs)
    BY InductiveFits
<1>2. frames = <<>> /\ Len(<<>>) < MaxFrames
    BY NothingPending DEF DispatchEvent, NotifySource
<1>3. CASE DispatchEvent
    BY <1>1, <1>2, <1>3, DispatchKeeps DEF DispatchEvent
<1>4. CASE NotifySource
  <2>1. /\ HostCall("source", <<>>, wasm, js, micro, waiting)
        /\ UNCHANGED <<running, jobs, launch>>
        /\ "source" \in Phases /\ "source" # "mount"
      BY <1>4 DEF NotifySource, Phases
  <2>2. /\ Fits(js', running, micro', frames', wasm', jobs, launch, waiting')
        /\ Released(js', running, jobs)
      BY <1>1, <1>2, <2>1, HostCallKeeps
  <2> QED
      BY <2>1, <2>2, InductiveFitsAfter
<1> QED
    BY <1>3, <1>4

LEMMA DrainingKeeps ==
    ASSUME Inductive, Drain
    PROVE  Inductive'
<1>1. /\ Fits(js, running, micro, frames, wasm, jobs, launch, waiting)
      /\ Released(js, running, jobs) /\ js \in Page
      /\ InOrder(js, running, frames, wasm, launch)
    BY InductiveFits DEF Fits
<1>2. frames # <<>>
    BY DEF Drain, ApplyCommand, ApplyReentrant, ApplyThrows, EndApply
<1>3. /\ Fits(js, running, micro, Below, wasm, jobs, launch, waiting)
      /\ Top \in Drains /\ (Top.phase = "mount" => ~js.asked)
    BY <1>1, <1>2, BelowKeeps
<1>4. CASE ApplyCommand
  <2>1. Fits(js, running, micro, frames', wasm, jobs, launch, waiting)
      BY <1>1, <1>2, <1>4, LeftKeeps DEF ApplyCommand
  <2> QED
      BY <1>1, <1>4, <2>1, InductiveFitsAfter DEF ApplyCommand
<1>5. CASE ApplyReentrant
  <2> DEFINE below == Append(Below, [Top EXCEPT !.left = @ - 1])
  <2>1. Top.left > 0 /\ Len(frames) < MaxFrames /\ Dispatch(below)
      BY <1>5 DEF ApplyReentrant
  <2>2. Fits(js, running, micro, below, wasm, jobs, launch, waiting) /\ Len(below) = Len(frames)
      BY <1>1, <1>2, <2>1, LeftKeeps
  <2> HIDE DEF below
  <2> QED
      BY <2>1, <2>2, DispatchKeeps
<1>6. CASE ApplyThrows
  <2>1. frames' = Below /\ UNCHANGED <<running, wasm, jobs, launch>>
      BY <1>6 DEF ApplyThrows
  <2>2. CASE Poison(js, micro, waiting)
    <3>1. /\ Fits(js', running, micro', Below, wasm, jobs, launch, waiting')
          /\ Released(js', running, jobs)
        BY <1>3, <2>2, PoisonKeeps
    <3> QED
        BY <2>1, <3>1, InductiveFitsAfter
  <2>3. CASE js' = [js EXCEPT !.threw = TRUE] /\ UNCHANGED <<micro, waiting>>
    <3>1. /\ js' \in Page /\ js'.failed = js.failed /\ js'.asked = js.asked
          /\ js'.finished = js.finished /\ js'.gen = js.gen /\ js'.mounted = js.mounted
        BY <1>1, <2>3 DEF Page
    <3>2. js'.mounted => ~js'.asked
        BY <1>1, <3>1 DEF InOrder
    <3>3. /\ Fits(js', running, micro, Below, wasm, jobs, launch, waiting)
          /\ Released(js', running, jobs)
        BY <1>1, <1>3, <3>1, <3>2, PageKeeps
    <3> QED
        BY <2>1, <2>3, <3>3, InductiveFitsAfter
  <2> QED
      BY <1>6, <2>2, <2>3 DEF ApplyThrows
<1>7. CASE EndApply
  <2>1. /\ frames' = Below
        /\ js' = [js EXCEPT !.pump = TRUE, !.threw = FALSE, !.mounted = @ \/ Top.phase = "mount"]
        /\ micro' = IF js.pump THEN micro ELSE Append(micro, Pump(js.gen))
        /\ UNCHANGED <<running, wasm, jobs, launch, waiting>>
      BY <1>7 DEF EndApply
  <2>2. /\ js' \in Page /\ js'.failed = js.failed /\ js'.asked = js.asked
        /\ js'.finished = js.finished /\ js'.gen = js.gen
        /\ js'.mounted = (js.mounted \/ Top.phase = "mount")
      BY <1>1, <2>1 DEF Page
  <2>3. js.mounted => js'.mounted
      BY <2>2
  <2>4. js'.mounted => ~js'.asked
      BY <1>1, <1>3, <2>2 DEF InOrder
  <2>5. /\ Fits(js', running, micro, Below, wasm, jobs, launch, waiting)
        /\ Released(js', running, jobs)
      BY <1>1, <1>3, <2>2, <2>3, <2>4, PageKeeps
  <2>6. Queued(micro', waiting, running, jobs)
    <3>1. Queued(micro, waiting, running, jobs) /\ running \in SUBSET Tokens
          /\ js.gen \in 0 .. MaxMounts + 1 /\ micro \in Seq(Task)
        BY <1>1, PageFields DEF Fits, Queued
    <3>2. Pump(js.gen) \in Task
        BY <3>1, BrowserConstants DEF Pump, Task
    <3>3. micro \o <<Pump(js.gen)>> = Append(micro, Pump(js.gen))
        BY <3>1, <3>2, AppendIsConcat
    <3>4. Queued(micro \o <<Pump(js.gen)>>, waiting, running, jobs)
        BY <3>1, PumpKeepsQueue
    <3> QED
        BY <2>1, <3>1, <3>3, <3>4
  <2>7. Fits(js', running, micro', Below, wasm, jobs, launch, waiting)
      BY <2>5, <2>6 DEF Fits
  <2> QED
      BY <2>1, <2>5, <2>7, InductiveFitsAfter
<1> QED
    BY <1>4, <1>5, <1>6, <1>7 DEF Drain

--------------------------------------------------------------------------------
(* Microtasks *)

\* An effect's next callback follows the one that was taken.
LEMMA NextKeepsQueue ==
    ASSUME NEW t \in Tokens, NEW queue, NEW out, NEW run \in SUBSET Tokens, t \in run,
           NEW slots, NEW task \in Task, task.token = t, Expects(task, slots),
           Queued(queue, out, run \ {t}, slots)
    PROVE  Queued(Append(queue, task), out, run, slots)
<1>1. t # 0
    BY BrowserConstants DEF Tokens
<1>2. run \ {t} \in SUBSET Tokens /\ task.token \notin run \ {t}
    OBVIOUS
<1>3. Queued(Append(queue, task), out, (run \ {t}) \union ({task.token} \ {0}), slots)
    BY <1>2, AddKeepsQueue
<1>4. (run \ {t}) \union ({task.token} \ {0}) = run
    BY <1>1
<1> QED
    BY <1>3, <1>4

\* The pump starts the oldest queued effect on a stack of its own.
LEMMA StartKeeps ==
    ASSUME Inductive, NEW queue, Queued(queue, waiting, running, jobs), Usable, frames' = frames,
           StartEffect(js, queue, <<Pump(js.gen)>>)
    PROVE  Inductive'
<1> DEFINE t == wasm.next
           w == [wasm EXCEPT !.pending = @ - 1, !.next = @ + 1, !.main = wasm.sp,
                             !.limits = t, !.sp = t, !.active = t]
           calls == [launch EXCEPT ![t] = [gen |-> js.gen, saved |-> wasm.sp, calls |-> 0]]
<1>1. /\ Fits(js, running, micro, frames, wasm, jobs, launch, waiting)
      /\ Released(js, running, jobs)
    BY InductiveFits
<1>2. /\ js \in Page /\ running \in SUBSET Tokens /\ wasm \in Instance /\ wasm.trap # "contract"
      /\ frames \in Seq(Drains) /\ Len(frames) <= MaxFrames
      /\ jobs \in [Tokens -> {"none", "running", "finished"}] /\ launch \in Launches
      /\ OnMainStack(wasm, running, launch) /\ InOrder(js, running, frames, wasm, launch)
    BY <1>1 DEF Fits
<1>3. /\ wasm.pending > 0 /\ t <= MaxTokens /\ running' = running \union {t}
      /\ RunOnStack(t, w, js, calls, queue, <<Pump(js.gen)>>)
    BY DEF StartEffect
<1>4. /\ wasm.sp \in 0 .. MaxTokens /\ wasm.pending \in 0 .. MaxPending /\ t \in 1 .. MaxTokens + 1
      /\ js.gen \in 0 .. MaxMounts + 1
    BY <1>2, InstanceFields, PageFields
<1>5. t \in Tokens /\ t \notin running
  <2>1. t \in 1 .. MaxTokens
      BY <1>3, <1>4, BrowserConstants
  <2>2. running \subseteq 1 .. t - 1
      BY <1>2 DEF InOrder
  <2> QED
      BY <1>4, <2>1, <2>2 DEF Tokens
<1>6. /\ w \in Instance /\ w.trap = wasm.trap /\ w.next = t + 1 /\ w.active = t /\ w.main = wasm.sp
  <2>1. wasm.pending - 1 \in 0 .. MaxPending /\ t + 1 \in 1 .. MaxTokens + 1 /\ t \in Stacks
      BY <1>3, <1>4, BrowserConstants DEF Stacks
  <2>2. wasm.sp \in Stacks
      BY <1>4 DEF Stacks
  <2> QED
      BY <1>2, <2>1, <2>2 DEF Instance
<1>7. /\ calls \in Launches
      /\ \A u \in running : calls[u].saved = launch[u].saved /\ calls[u].gen = launch[u].gen
      /\ calls[t].saved = wasm.sp /\ calls[t].gen = js.gen
  <2>1. [gen |-> js.gen, saved |-> wasm.sp, calls |-> 0] \in
            [gen : 0 .. MaxMounts + 1, saved : Stacks, calls : 0 .. MaxCalls]
      BY <1>4, BrowserConstants DEF Stacks
  <2> QED
      BY <1>2, <1>5, <2>1 DEF Launches
<1> HIDE DEF w, calls
<1>8. w.trap = "none" => w.main = Main /\ \A u \in running \union {t} : calls[u].saved = Main
    BY <1>2, <1>6, <1>7 DEF OnMainStack
<1>9. InOrder(js, running \union {t}, frames, w, calls)
  <2>1. running \union {t} \subseteq 1 .. w.next - 1
    <3>1. running \subseteq 1 .. t - 1
        BY <1>2 DEF InOrder
    <3>2. w.next - 1 = t /\ t \in Nat \ {0}
        BY <1>4, <1>6, BrowserConstants
    <3> HIDE DEF t
    <3>3. 1 .. t - 1 \subseteq 1 .. t /\ t \in 1 .. t
        BY <3>2
    <3> QED
        BY <3>1, <3>2, <3>3
  <2>2. js.mounted /\ \A u \in running \union {t} : calls[u].gen = js.gen
      BY <1>2, <1>7 DEF InOrder, Usable
  <2> QED
      BY <1>2, <2>1, <2>2 DEF InOrder
<1>10. Released(js, running \union {t}, jobs)
    BY <1>1 DEF Released
<1>11. <<Pump(js.gen)>> \in {<<>>, <<Pump(js.gen)>>}
    OBVIOUS
<1>12. w.trap # "contract"
    BY <1>2, <1>6
<1>13. /\ Fits(js', running \union {t}, micro', frames, wasm', jobs', launch', waiting')
       /\ Released(js', running \union {t}, jobs')
    BY <1>2, <1>3, <1>5, <1>6, <1>7, <1>8, <1>9, <1>10, <1>11, <1>12, RunKeeps
<1> QED
    BY <1>3, <1>13, InductiveFitsAfter

LEMMA PumpTurnKeeps ==
    ASSUME Inductive, NEW task, NEW queue, Queued(queue, waiting, running, jobs), PumpTurn(task, queue)
    PROVE  Inductive'
<1> DEFINE j == [js EXCEPT !.pump = FALSE]
           again == <<Pump(js.gen)>>
<1>1. /\ Fits(js, running, micro, frames, wasm, jobs, launch, waiting)
      /\ Released(js, running, jobs) /\ js \in Page /\ running \in SUBSET Tokens
      /\ InOrder(js, running, frames, wasm, launch)
    BY InductiveFits DEF Fits
<1>2. Fits(js, running, queue, frames, wasm, jobs, launch, waiting)
    BY <1>1 DEF Fits
<1>3. /\ j \in Page /\ j.failed = js.failed /\ j.asked = js.asked /\ j.finished = js.finished
      /\ j.gen = js.gen /\ j.mounted = js.mounted
    BY <1>1 DEF Page
<1>4. UNCHANGED frames
    BY DEF PumpTurn
<1>5. /\ Fits(j, running, queue, frames, wasm, jobs, launch, waiting)
      /\ Released(j, running, jobs)
  <2> HIDE DEF j
  <2>1. j.mounted => ~j.asked
      BY <1>1, <1>3 DEF InOrder
  <2> QED
      BY <1>1, <1>2, <1>3, <2>1, PageKeeps
<1>6. ASSUME js' = j, micro' = queue, UNCHANGED <<running, wasm, jobs, launch, waiting>>
      PROVE  Inductive'
    BY <1>4, <1>5, <1>6, InductiveFitsAfter
<1>7. CASE js' = js /\ micro' = queue \o again /\ UNCHANGED <<running, wasm, jobs, launch, waiting>>
  <2>1. Queued(queue \o again, waiting, running, jobs)
      BY <1>1, PageFields, PumpKeepsQueue
  <2>2. Fits(js, running, queue \o again, frames, wasm, jobs, launch, waiting)
      BY <1>1, <2>1 DEF Fits
  <2> QED
      BY <1>1, <1>4, <1>7, <2>2, InductiveFitsAfter
<1>8. CASE CannotStart(j, queue) /\ UNCHANGED <<running, jobs, launch>>
  <2>1. wasm' = Trapped(wasm, "capacity", TRUE) /\ Poison(j, queue, waiting)
      BY <1>8 DEF CannotStart
  <2> HIDE DEF j
  <2>2. Fits(j, running, queue, frames, wasm', jobs, launch, waiting)
      BY <1>5, <2>1, TrapKeeps
  <2>3. /\ Fits(js', running, micro', frames, wasm', jobs, launch, waiting')
        /\ Released(js', running, jobs)
      BY <2>1, <2>2, PoisonKeeps
  <2> QED
      BY <1>4, <1>8, <2>3, InductiveFitsAfter
<1>9. CASE Usable /\ StartEffect(js, queue, again)
    BY <1>4, <1>9, StartKeeps
<1>10. CASE NothingToStart(j, queue) /\ UNCHANGED <<running, jobs, launch>>
    BY <1>6, <1>10 DEF NothingToStart
<1> QED
    BY <1>6, <1>7, <1>8, <1>9, <1>10 DEF PumpTurn

LEMMA AnswerTurnKeeps ==
    ASSUME Inductive, NEW t \in running, NEW queue, Queued(queue, waiting, running \ {t}, jobs),
           jobs[t] = "running", AnswerTurn(t, queue)
    PROVE  Inductive'
<1>1. /\ Fits(js, running, micro, frames, wasm, jobs, launch, waiting)
      /\ Released(js, running, jobs) /\ running \in SUBSET Tokens
    BY InductiveFits DEF Fits
<1>2. ASSUME NEW ok \in BOOLEAN
      PROVE  Fits(js, running, Append(queue, Resume(t, ok)), frames, wasm, jobs, launch, waiting)
  <2>1. Resume(t, ok) \in Task /\ Resume(t, ok).token = t /\ Resume(t, ok).kind = "resume" /\ t # 0
    <3>1. t \in Tokens /\ 0 \in 0 .. MaxMounts + 1
        BY <1>1, BrowserConstants
    <3> QED
        BY <3>1, TaskTypes
  <2>2. Expects(Resume(t, ok), jobs)
      BY <2>1 DEF Expects
  <2>3. Queued(Append(queue, Resume(t, ok)), waiting, running, jobs)
      BY <1>1, <2>1, <2>2, NextKeepsQueue
  <2> QED
      BY <1>1, <2>3 DEF Fits
<1>3. PICK ok \in BOOLEAN : micro' = Append(queue, Resume(t, ok))
    BY DEF AnswerTurn
<1>4. wasm' = wasm \/ wasm' = Trapped(wasm, "crash", TRUE)
    BY DEF AnswerTurn
<1>5. UNCHANGED <<js, running, frames, jobs, launch, waiting>>
    BY DEF AnswerTurn
<1>6. Fits(js, running, micro', frames, wasm', jobs, launch, waiting)
    BY <1>2, <1>3, <1>4, TrapKeeps
<1> QED
    BY <1>1, <1>5, <1>6, InductiveFitsAfter

LEMMA ResumeTurnKeeps ==
    ASSUME Inductive, NEW t \in running, NEW ok \in BOOLEAN, NEW queue,
           Queued(queue, waiting, running \ {t}, jobs), jobs[t] = "running", ResumeTurn(t, ok, queue)
    PROVE  Inductive'
<1>1. /\ Fits(js, running, micro, frames, wasm, jobs, launch, waiting)
      /\ Released(js, running, jobs)
    BY InductiveFits
<1>2. /\ js \in Page /\ running \in SUBSET Tokens /\ wasm \in Instance /\ wasm.trap # "contract"
      /\ frames \in Seq(Drains) /\ Len(frames) <= MaxFrames
      /\ jobs \in [Tokens -> {"none", "running", "finished"}] /\ launch \in Launches
      /\ OnMainStack(wasm, running, launch) /\ InOrder(js, running, frames, wasm, launch)
    BY <1>1 DEF Fits
<1>3. UNCHANGED <<running, frames>>
    BY DEF ResumeTurn
<1>4. t \in Tokens /\ t \in Stacks /\ t \notin running \ {t} /\ (running \ {t}) \union {t} = running
      /\ running \ {t} \in SUBSET Tokens
    BY <1>2, BrowserConstants DEF Tokens, Stacks
<1>5. CASE RunOnStack(t, [wasm EXCEPT !.limits = t, !.sp = t, !.active = t], js, launch, queue, <<>>)
  <2> DEFINE w == [wasm EXCEPT !.limits = t, !.sp = t, !.active = t]
             others == running \ {t}
  <2>1. /\ w \in Instance /\ w.trap = wasm.trap /\ w.next = wasm.next /\ w.active = t
        /\ w.main = wasm.main
      BY <1>2, <1>4 DEF Instance
  <2>2. RunOnStack(t, w, js, launch, queue, <<>>)
      BY <1>5
  <2>3. /\ others \in SUBSET Tokens /\ t \notin others /\ others \union {t} = running
        /\ Queued(queue, waiting, others, jobs)
      BY <1>4
  <2> HIDE DEF w, others
  <2>4. w.trap = "none" => w.main = Main /\ \A u \in others \union {t} : launch[u].saved = Main
      BY <1>2, <2>1, <2>3 DEF OnMainStack
  <2>5. InOrder(js, others \union {t}, frames, w, launch)
      BY <1>2, <2>1, <2>3 DEF InOrder
  <2>6. Released(js, others \union {t}, jobs) /\ w.trap # "contract"
      BY <1>1, <1>2, <2>1, <2>3
  <2>7. <<>> \in {<<>>, <<Pump(js.gen)>>}
      OBVIOUS
  <2>8. /\ Fits(js', others \union {t}, micro', frames, wasm', jobs', launch', waiting')
        /\ Released(js', others \union {t}, jobs')
      BY <1>2, <1>4, <2>1, <2>2, <2>3, <2>4, <2>5, <2>6, <2>7, RunKeeps
  <2> QED
      BY <1>3, <2>3, <2>8, InductiveFitsAfter
<1>6. CASE micro' = Append(queue, Settle(t, FALSE)) /\ UNCHANGED <<js, wasm, jobs, launch, waiting>>
  <2>1. /\ Settle(t, FALSE) \in Task /\ Settle(t, FALSE).token = t
        /\ Settle(t, FALSE).kind = "settle" /\ Settle(t, FALSE).ok = FALSE /\ t # 0
    <3>1. 0 \in 0 .. MaxMounts + 1
        BY BrowserConstants
    <3> QED
        BY <1>4, <3>1, TaskTypes
  <2>2. Expects(Settle(t, FALSE), jobs)
      BY <2>1 DEF Expects
  <2>3. Queued(Append(queue, Settle(t, FALSE)), waiting, running, jobs)
      BY <1>2, <1>4, <2>1, <2>2, NextKeepsQueue
  <2>4. Fits(js, running, Append(queue, Settle(t, FALSE)), frames, wasm, jobs, launch, waiting)
      BY <1>1, <2>3 DEF Fits
  <2> QED
      BY <1>1, <1>3, <1>6, <2>4, InductiveFitsAfter
<1> QED
    BY <1>5, <1>6 DEF ResumeTurn

LEMMA SettleTurnKeeps ==
    ASSUME Inductive, NEW t \in running, NEW ok \in BOOLEAN, NEW queue, frames = <<>>,
           Queued(queue, waiting, running \ {t}, jobs),
           jobs[t] = IF ok THEN "finished" ELSE "running", SettleTurn(t, ok, queue)
    PROVE  Inductive'
<1> DEFINE left == running \ {t}
<1>1. /\ Fits(js, running, micro, frames, wasm, jobs, launch, waiting)
      /\ Released(js, running, jobs)
    BY InductiveFits
<1>2. /\ js \in Page /\ running \in SUBSET Tokens /\ t \in Tokens
      /\ jobs \in [Tokens -> {"none", "running", "finished"}]
      /\ OnMainStack(wasm, running, launch) /\ InOrder(js, running, frames, wasm, launch)
    BY <1>1 DEF Fits
<1>3. Fits(js, left, queue, frames, wasm, jobs, launch, waiting)
  <2>1. OnMainStack(wasm, left, launch) /\ InOrder(js, left, frames, wasm, launch)
      BY <1>2 DEF OnMainStack, InOrder
  <2> QED
      BY <1>1, <2>1 DEF Fits
<1>4. running' = left /\ UNCHANGED launch
    BY DEF SettleTurn
<1>5. left \in SUBSET Tokens
    BY <1>2
<1>6. CASE ~ok /\ Poison(js, queue, waiting) /\ UNCHANGED <<frames, wasm, jobs>>
  <2>1. /\ Fits(js', left, micro', frames, wasm, jobs, launch, waiting')
        /\ Released(js', left, jobs)
      BY <1>3, <1>6, PoisonKeeps
  <2> QED
      BY <1>4, <1>6, <2>1, InductiveFitsAfter
<1>7. CASE ok /\ ~(Usable /\ launch[t].gen = js.gen) /\ FinishUnmount("late unmount", js, left, queue, waiting)
  <2>1. js.failed \/ (js.asked /\ ~js.finished)
      BY <1>2, <1>7 DEF InOrder, Usable
  <2>2. Released(js, left, jobs)
      BY <1>1, <1>7, <2>1 DEF Released
  <2>3. "late unmount" \in {"unmount", "late unmount"}
      OBVIOUS
  <2>4. /\ Fits(js', left, micro', frames', wasm', jobs', launch, waiting')
        /\ Released(js', left, jobs')
      BY <1>3, <1>7, <2>2, <2>3, FinishKeeps
  <2> QED
      BY <1>4, <2>4, InductiveFitsAfter
<1>8. CASE ok /\ Complete(t, queue)
  <2>1. /\ jobs' = [jobs EXCEPT ![t] = "none"]
        /\ HostCall("effect", <<>>, wasm, js, queue, waiting)
      BY <1>8 DEF Complete
  <2>2. /\ jobs' \in [Tokens -> {"none", "running", "finished"}]
        /\ \A u \in left : jobs'[u] = jobs[u]
      BY <1>2, <2>1
  <2>3. Queued(queue, waiting, left, jobs')
      BY <1>5, <2>2, QueueSeesItsSlots
  <2>4. Fits(js, left, queue, <<>>, wasm, jobs', launch, waiting)
      BY <1>3, <2>2, <2>3 DEF Fits
  <2>5. Released(js, left, jobs')
      BY <1>1, <1>2, <2>1 DEF Released
  <2>6. "effect" \in Phases /\ "effect" # "mount"
      BY DEF Phases
  <2>7. /\ Fits(js', left, micro', frames', wasm', jobs', launch, waiting')
        /\ Released(js', left, jobs')
      BY <2>1, <2>4, <2>5, <2>6, NothingPending, HostCallKeeps
  <2> QED
      BY <1>4, <2>7, InductiveFitsAfter
<1> QED
  <2>1. \/ ~ok /\ Poison(js, queue, waiting) /\ UNCHANGED <<frames, wasm, jobs>>
        \/ ok /\ ~(Usable /\ launch[t].gen = js.gen) /\ FinishUnmount("late unmount", js, running', queue, waiting)
        \/ ok /\ Complete(t, queue)
      BY DEF SettleTurn
  <2> HIDE DEF left
  <2>2. \/ ~ok /\ Poison(js, queue, waiting) /\ UNCHANGED <<frames, wasm, jobs>>
        \/ ok /\ ~(Usable /\ launch[t].gen = js.gen) /\ FinishUnmount("late unmount", js, left, queue, waiting)
        \/ ok /\ Complete(t, queue)
      BY <1>4, <2>1, Zenon
  <2> QED
      BY <1>6, <1>7, <1>8, <2>2

LEMMA MicrotaskKeeps ==
    ASSUME Inductive, RunMicrotask
    PROVE  Inductive'
<1> DEFINE task == Head(micro)
           queue == Tail(micro)
           t == task.token
<1>1. /\ Queued(micro, waiting, running, jobs) /\ running \in SUBSET Tokens
      /\ frames = <<>> /\ micro # <<>>
    BY InductiveFits DEF Fits, RunMicrotask
<1>2. /\ task \in Task /\ Expects(task, jobs)
      /\ task.kind # "pump" => t \in running
      /\ Queued(queue, waiting, running \ {t}, jobs)
    BY <1>1, TakeKeepsQueue
<1>3. task.kind \in {"pump", "answer", "resume", "settle"} /\ task.ok \in BOOLEAN
    BY <1>2 DEF Task
<1>4. /\ task.kind = "pump" => PumpTurn(task, queue)
      /\ task.kind = "answer" => AnswerTurn(t, queue)
      /\ task.kind = "resume" => ResumeTurn(t, task.ok, queue)
      /\ task.kind = "settle" => SettleTurn(t, task.ok, queue)
    BY DEF RunMicrotask
<1> HIDE DEF task, queue
<1>5. CASE task.kind = "pump"
  <2>1. t = 0 /\ 0 \notin running
      BY <1>1, <1>2, <1>5, BrowserConstants DEF Expects, Tokens
  <2>2. running \ {t} = running
      BY <2>1
  <2> QED
      BY <1>2, <1>4, <1>5, <2>2, PumpTurnKeeps
<1>6. CASE task.kind = "answer"
  <2>1. jobs[t] = "running" /\ t \in running
      BY <1>2, <1>6 DEF Expects
  <2> QED
      BY <1>2, <1>4, <1>6, <2>1, AnswerTurnKeeps
<1>7. CASE task.kind = "resume"
  <2>1. jobs[t] = "running" /\ t \in running
      BY <1>2, <1>7 DEF Expects
  <2> QED
      BY <1>2, <1>3, <1>4, <1>7, <2>1, ResumeTurnKeeps
<1>8. CASE task.kind = "settle"
  <2>1. jobs[t] = (IF task.ok THEN "finished" ELSE "running") /\ t \in running
      BY <1>2, <1>8 DEF Expects
  <2> QED
      BY <1>1, <1>2, <1>3, <1>4, <1>8, <2>1, SettleTurnKeeps
<1> QED
    BY <1>3, <1>5, <1>6, <1>7, <1>8

--------------------------------------------------------------------------------
(* Tasks *)

LEMMA FetchKeeps ==
    ASSUME Inductive, NEW i \in DOMAIN waiting, FetchSettles(i)
    PROVE  Inductive'
<1> DEFINE t == waiting[i]
<1>1. /\ Fits(js, running, micro, frames, wasm, jobs, launch, waiting)
      /\ Released(js, running, jobs) /\ running \in SUBSET Tokens
      /\ Queued(micro, waiting, running, jobs)
    BY InductiveFits DEF Fits
<1>2. /\ t \in running /\ jobs[t] = "running"
      /\ Queued(micro, RemoveAt(waiting, i), running \ {t}, jobs)
    BY <1>1, AnswerKeepsQueue
<1>3. /\ waiting' = RemoveAt(waiting, i) /\ micro' = Append(micro, Answer(t))
      /\ UNCHANGED <<js, running, frames, wasm, jobs, launch>>
    BY DEF FetchSettles
<1>4. t \in Tokens /\ 0 \in 0 .. MaxMounts + 1
    BY <1>1, <1>2, BrowserConstants
<1> HIDE DEF t
<1>5. Answer(t) \in Task /\ Answer(t).token = t /\ Answer(t).kind = "answer" /\ t # 0
    BY <1>4, TaskTypes
<1>6. Expects(Answer(t), jobs)
    BY <1>2, <1>5 DEF Expects
<1>7. Queued(micro', waiting', running, jobs)
    BY <1>1, <1>2, <1>3, <1>4, <1>5, <1>6, NextKeepsQueue
<1>8. Fits(js, running, micro', frames, wasm, jobs, launch, waiting')
    BY <1>1, <1>7 DEF Fits
<1> QED
    BY <1>1, <1>3, <1>8, InductiveFitsAfter

LEMMA MountKeeps ==
    ASSUME Inductive, Mount
    PROVE  Inductive'
<1> DEFINE j == [js EXCEPT !.asked = FALSE, !.finished = FALSE, !.gen = @ + 1, !.threw = FALSE]
<1>1. /\ Fits(js, {}, micro, <<>>, wasm, jobs, launch, waiting)
      /\ Released(js, {}, jobs) /\ js \in Page
      /\ InOrder(js, {}, <<>>, wasm, launch)
      /\ Queued(micro, waiting, {}, jobs)
    BY InductiveFits DEF Fits, Mount
<1>2. /\ ~js.failed /\ ~js.mounted /\ js.gen < MaxMounts /\ frames = <<>> /\ running = {}
      /\ ClearRuntime("mount", j, micro, waiting)
      /\ UNCHANGED <<running, launch>>
    BY DEF Mount
<1>3. /\ j \in Page /\ j.failed = js.failed /\ j.mounted = js.mounted
      /\ j.asked = FALSE /\ j.finished = FALSE /\ j.gen = js.gen + 1
      /\ js.gen + 1 <= MaxMounts
  <2>1. js.gen \in 0 .. MaxMounts + 1
      BY <1>1, PageFields
  <2>2. js.gen + 1 \in 0 .. MaxMounts + 1 /\ js.gen + 1 <= MaxMounts
      BY <1>2, <2>1, BrowserConstants
  <2> QED
      BY <1>1, <2>2 DEF Page
<1> HIDE DEF j
<1>4. InOrder(j, {}, <<>>, wasm, launch)
    BY <1>1, <1>3 DEF InOrder
<1>5. NoJobs \in [Tokens -> {"none", "running", "finished"}]
    BY DEF NoJobs
<1>6. Queued(micro, waiting, {}, NoJobs)
    BY <1>1, EmptySlotsKeepQueue
<1>7. Fits(j, {}, micro, <<>>, wasm, NoJobs, launch, waiting)
    BY <1>1, <1>3, <1>4, <1>5, <1>6 DEF Fits
<1>8. \A t \in Tokens : jobs[t] # "running"
    BY <1>1, <1>2 DEF Released
<1>9. "mount" \in {"mount", "unmount", "late unmount"} /\ ~j.asked
    BY <1>3
<1>10. /\ Fits(js', {}, micro', frames', wasm', jobs', launch, waiting')
       /\ Released(js', {}, jobs')
    BY <1>2, <1>7, <1>8, <1>9, ClearKeeps
<1> QED
    BY <1>2, <1>10, InductiveFitsAfter

LEMMA UnmountKeeps ==
    ASSUME Inductive, Unmount
    PROVE  Inductive'
<1> DEFINE j == [js EXCEPT !.asked = TRUE, !.mounted = FALSE]
           queue == Aborted(micro, waiting)
<1>1. /\ Fits(js, running, micro, frames, wasm, jobs, launch, waiting)
      /\ Released(js, running, jobs) /\ js \in Page
      /\ InOrder(js, running, frames, wasm, launch)
      /\ Queued(micro, waiting, running, jobs)
    BY InductiveFits DEF Fits
<1>2. /\ ~js.failed /\ ~js.asked /\ frames = <<>>
      /\ FinishUnmount("unmount", j, running, queue, <<>>)
      /\ UNCHANGED <<running, launch>>
    BY DEF Unmount
<1>3. /\ j \in Page /\ j.failed = js.failed /\ j.mounted = FALSE /\ j.asked = TRUE
      /\ j.finished = js.finished /\ j.gen = js.gen
    BY <1>1 DEF Page
<1>4. ~j.finished
    BY <1>1, <1>2, <1>3 DEF InOrder
<1>5. Queued(queue, <<>>, running, jobs)
    BY <1>1, AbortKeepsQueue
<1> HIDE DEF j, queue
<1>6. InOrder(j, running, <<>>, wasm, launch)
  <2>1. \A i \in DOMAIN <<>> : FALSE
      BY EmptySeq
  <2> QED
      BY <1>1, <1>3, <1>4, <2>1 DEF InOrder
<1>7. Fits(j, running, queue, <<>>, wasm, jobs, launch, <<>>)
    BY <1>1, <1>2, <1>3, <1>5, <1>6 DEF Fits
<1>8. Released(j, running, jobs)
    BY <1>1, <1>2 DEF Released
<1>9. "unmount" \in {"unmount", "late unmount"}
    OBVIOUS
<1>10. /\ Fits(js', running, micro', frames', wasm', jobs', launch, waiting')
       /\ Released(js', running, jobs')
    BY <1>2, <1>7, <1>8, <1>9, FinishKeeps
<1> QED
    BY <1>2, <1>10, InductiveFitsAfter

LEMMA InitInductive == Init => Inductive
<1> SUFFICES ASSUME Init PROVE Inductive
    OBVIOUS
<1>1. <<>> \in Seq(Task) /\ <<>> \in Seq(Tokens) /\ <<>> \in Seq(Drains) /\ Len(<<>>) = 0 /\ DOMAIN <<>> = {}
    BY EmptySeq
<1>2. js \in Page
    BY BrowserConstants DEF Init, Page
<1>3. wasm \in Instance /\ wasm.next = 1
    BY BrowserConstants DEF Init, Instance, Stacks, Main
<1>4. launch \in Launches
    BY BrowserConstants DEF Init, Launches, Stacks, Main
<1>5. jobs = NoJobs /\ jobs \in [Tokens -> {"none", "running", "finished"}]
    BY DEF Init, NoJobs
<1>6. TypeOK
    BY <1>1, <1>2, <1>3, <1>4, <1>5, BrowserConstants DEF Init, TypeOK
<1>7. Continued(micro, waiting, running) /\ InStep(micro, waiting, jobs)
    BY <1>1 DEF Init, Continued, InStep
<1>8. Released(js, running, jobs)
    BY <1>5 DEF Released, NoJobs
<1>9. OnMainStack(wasm, running, launch) /\ NoContractFailure
    BY DEF Init, OnMainStack, NoContractFailure
<1>10. InOrder(js, running, frames, wasm, launch)
    BY <1>1, BrowserConstants DEF Init, InOrder
<1> QED
    BY <1>6, <1>7, <1>8, <1>9, <1>10 DEF Inductive

LEMMA NextInductive == Inductive /\ [Next]_vars => Inductive'
<1> SUFFICES ASSUME Inductive, [Next]_vars PROVE Inductive'
    OBVIOUS
<1>1. CASE DispatchEvent \/ NotifySource
    BY <1>1, EventOrSourceKeeps
<1>2. CASE Drain
    BY <1>2, DrainingKeeps
<1>3. CASE RunMicrotask
    BY <1>3, MicrotaskKeeps
<1>4. CASE \E i \in DOMAIN waiting : FetchSettles(i)
    BY <1>4, FetchKeeps
<1>5. CASE Mount
    BY <1>5, MountKeeps
<1>6. CASE Unmount
    BY <1>6, UnmountKeeps
<1>7. CASE UNCHANGED vars
  <2>1. /\ js' = js /\ running' = running /\ micro' = micro /\ frames' = frames
        /\ wasm' = wasm /\ jobs' = jobs /\ launch' = launch /\ waiting' = waiting
      BY <1>7 DEF vars
  <2> QED
      BY <2>1, InductiveFits, InductiveFitsAfter
<1> QED
    BY <1>1, <1>2, <1>3, <1>4, <1>5, <1>6, <1>7 DEF Next

--------------------------------------------------------------------------------
(* Theorems *)

\* Effects, their slots, their stacks and the mounts stay in step, whatever
\* effects suspend, drains throw, pages unmount and remount and calls trap
\* (signals.mjs, scheduleEffects; wasm_host.zig, roc_ui_effect_next and on).
THEOREM EffectsStayInStep == Spec => []Inductive
<1> QED
    BY InitInductive, NextInductive, PTL DEF Spec

\* Every variable keeps its type, and the stack of drains its bound.
THEOREM TypeCorrect == Spec => []TypeOK
<1>1. Inductive => TypeOK
    BY DEF Inductive
<1> QED
    BY <1>1, EffectsStayInStep, PTL

\* No assertion on the executor's protocol fires (wasm_host.zig, roc_http_send,
\* roc_ui_effect_complete, clearActiveRuntime).
THEOREM ContractIsKept == Spec => []NoContractFailure
<1>1. Inductive => NoContractFailure
    BY DEF Inductive
<1> QED
    BY <1>1, EffectsStayInStep, PTL

\* The instance is on its main stack between runs, and no slot leaks.
THEOREM ExecutorRests == Spec => []ExecutorAtRest
<1>1. Inductive => ExecutorAtRest
  <2> SUFFICES ASSUME Inductive PROVE ExecutorAtRest
      OBVIOUS
  <2>1. wasm.trap = "none" => wasm.sp = Main /\ wasm.limits = Main /\ wasm.main = Main /\ wasm.active = 0
      BY DEF Inductive, OnMainStack
  <2>2. \A t \in Tokens : jobs[t] # "none" /\ t \notin running => js.failed \/ (js.asked /\ ~js.finished)
      BY DEF Inductive, Released
  <2> QED
      BY <2>1, <2>2 DEF ExecutorAtRest
<1> QED
    BY <1>1, EffectsStayInStep, PTL

\* At most one index of a sequence has a key: those that have it are none or one.
LEMMA OneOrNone ==
    ASSUME NEW n \in Nat, NEW P \in SUBSET (1 .. n), \A i, k \in P : i = k
    PROVE  /\ P = {} => Cardinality(P) = 0
           /\ P # {} => Cardinality(P) = 1
<1>1. P = {} => Cardinality(P) = 0
    BY FS_EmptySet
<1>2. ASSUME P # {} PROVE Cardinality(P) = 1
  <2>1. PICK i \in P : TRUE
      BY <1>2
  <2>2. P = {i}
      BY <2>1
  <2> QED
      BY <2>2, FS_Singleton
<1> QED
    BY <1>1, <1>2

\* Every running effect has one continuation, so none is lost, resumed twice or
\* settled after its mount is gone (signals.mjs, scheduleEffects; effect_http.mjs).
THEOREM EffectsContinueOnce == Spec => []OneContinuation
<1>1. Inductive => OneContinuation
  <2> SUFFICES ASSUME Inductive, NEW t \in Tokens
               PROVE  Continuations(t) = IF t \in running THEN 1 ELSE 0
      BY DEF OneContinuation
  <2> DEFINE queued == {i \in DOMAIN micro : micro[i].token = t}
             asked == {i \in DOMAIN waiting : waiting[i] = t}
  <2>1. Continued(micro, waiting, running) /\ micro \in Seq(Task) /\ waiting \in Seq(Tokens)
      BY DEF Inductive, TypeOK
  <2>2. /\ Len(micro) \in Nat /\ DOMAIN micro = 1 .. Len(micro)
        /\ Len(waiting) \in Nat /\ DOMAIN waiting = 1 .. Len(waiting)
      BY <2>1, LenProperties
  <2>3. t # 0
      BY BrowserConstants DEF Tokens
  <2>4. /\ queued \in SUBSET (1 .. Len(micro)) /\ \A i, k \in queued : i = k
        /\ asked \in SUBSET (1 .. Len(waiting)) /\ \A i, k \in asked : i = k
        /\ queued = {} \/ asked = {}
        /\ t \in running <=> queued # {} \/ asked # {}
    <3>1. /\ queued \in SUBSET (1 .. Len(micro)) /\ \A i, k \in queued : i = k
          /\ asked \in SUBSET (1 .. Len(waiting)) /\ \A i, k \in asked : i = k
        BY <2>1, <2>2, <2>3 DEF Continued
    <3>2. queued = {} \/ asked = {}
        BY <2>1 DEF Continued
    <3>3. t \in running <=> queued # {} \/ asked # {}
      <4>1. (\E i \in DOMAIN micro : micro[i].token = t) <=> queued # {}
          OBVIOUS
      <4>2. (\E i \in DOMAIN waiting : waiting[i] = t) <=> asked # {}
          OBVIOUS
      <4>3. t \in running <=> \/ \E i \in DOMAIN micro : micro[i].token = t
                              \/ \E i \in DOMAIN waiting : waiting[i] = t
          BY <2>1 DEF Continued
      <4> HIDE DEF queued, asked
      <4> QED
          BY <4>1, <4>2, <4>3
    <3> HIDE DEF queued, asked
    <3> QED
        BY <3>1, <3>2, <3>3
  <2> HIDE DEF queued, asked
  <2>5. /\ Cardinality(queued) = IF queued = {} THEN 0 ELSE 1
        /\ Cardinality(asked) = IF asked = {} THEN 0 ELSE 1
    <3>1. /\ queued = {} => Cardinality(queued) = 0
          /\ queued # {} => Cardinality(queued) = 1
        BY <2>2, <2>4, OneOrNone
    <3>2. /\ asked = {} => Cardinality(asked) = 0
          /\ asked # {} => Cardinality(asked) = 1
        BY <2>2, <2>4, OneOrNone
    <3> QED
        BY <3>1, <3>2
  <2>6. Cardinality(queued) + Cardinality(asked) = IF t \in running THEN 1 ELSE 0
    <3>1. CASE queued = {} /\ asked = {}
      <4>1. Cardinality(queued) = 0 /\ Cardinality(asked) = 0
          BY <2>5, <3>1
      <4>2. t \notin running
          BY <2>4, <3>1
      <4> QED
          BY <4>1, <4>2
    <3>2. CASE queued # {} /\ asked = {}
      <4>1. Cardinality(queued) = 1 /\ Cardinality(asked) = 0
          BY <2>5, <3>2
      <4>2. t \in running
          BY <2>4, <3>2
      <4> QED
          BY <4>1, <4>2
    <3>3. CASE queued = {} /\ asked # {}
      <4>1. Cardinality(queued) = 0 /\ Cardinality(asked) = 1
          BY <2>5, <3>3
      <4>2. t \in running
          BY <2>4, <3>3
      <4> QED
          BY <4>1, <4>2
    <3> QED
        BY <2>4, <3>1, <3>2, <3>3
  <2> QED
      BY <2>6 DEF Continuations, queued, asked
<1> QED
    BY <1>1, EffectsStayInStep, PTL

================================================================================
