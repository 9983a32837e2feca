----------------------- MODULE TelegramPolling_proofs -----------------------
(***************************************************************************)
(* What TLAPS proves of TelegramPolling, for any number of replicas,       *)
(* updates and mishaps and for any back-off: its types, that no update     *)
(* becomes two tasks, that a mishap loses at most one update, and, when a  *)
(* poll is shorter than the lock, that whoever polls holds the lock.       *)
(***************************************************************************)
EXTENDS TelegramPolling, FiniteSetTheorems, TLAPS

Labels == Waits \union {"ended", "renew", "expire", "mark", "enqueue", "release", "unlock"}

\* The updates in a batch, and who is between the mark and the enqueue of one.
Contents(s) == {s[n] : n \in 1 .. Len(s)}
Handing(i, u) == pc[i] = "enqueue" /\ Head(batch[i]) = u

\* The state is made of total functions.
Functional ==
  /\ webhook \in BOOLEAN /\ unlocked \in BOOLEAN /\ mishaps \in Nat
  /\ main \in [Replicas -> {"down", "up", "stopping", "leaving"}]
  /\ pc \in [Replicas -> Labels]
  /\ timer \in [Replicas -> Nat] /\ join \in [Replicas -> Nat]
  /\ backoff \in [Replicas -> Nat]

\* Offsets stay next to what has arrived, and a batch holds consecutive updates.
Batches ==
  /\ offset \in [Replicas -> Nat] /\ \A i \in Replicas : offset[i] <= arrived + 1
  /\ batch \in [Replicas -> Seq(Updates)]
  /\ \A i \in Replicas : \A n \in 1 .. Len(batch[i]) :
       batch[i][n] <= arrived /\ batch[i][n] = Head(batch[i]) + n - 1

\* A process that is down has no poller.
Processes == \A i \in Replicas : main[i] = "down" => pc[i] = "ended"

Shapes == Functional /\ Batches /\ Processes

\* Nobody polls before the webhook is cleared: no mark and no batch until then.
PushedOnly == webhook => seen = {} /\ \A i \in Replicas : batch[i] = <<>>

\* An update no replica has marked gives no task as long as a replica may still receive
\* it or has it in its batch.
UnmarkedIsNew ==
  \A u \in Updates \ (unguarded \union seen) :
    u >= kept \/ (\E i \in Replicas : u \in Contents(batch[i])) => queued[u] = 0

\* The mark of an update admits one replica, which has not enqueued it yet.
OneHands ==
  \A i \in Replicas, u \in Updates \ unguarded :
    Handing(i, u) =>
      /\ u \in seen /\ queued[u] = 0
      /\ \A j \in Replicas : Handing(j, u) => j = i

Once == PushedOnly /\ UnmarkedIsNew /\ OneHands /\ EnqueuedOnce

\* The updates that had their turn: marked, let through unmarked, or forgotten by Telegram.
Passed == seen \union unguarded \union 1 .. kept - 1

\* No offset and no batch gets ahead of what had its turn.
InTurn ==
  \A i \in Replicas :
    /\ \A u \in Updates : u < offset[i] => u \in Passed
    /\ batch[i] # <<>> => \A u \in Updates : u < Head(batch[i]) => u \in Passed

\* The updates that had their turn in vain.
Wasted == {u \in Updates : u \in Passed /\ queued[u] = 0 /\ ~InHands(u)}
WasteIsPaid == Cardinality(Wasted) <= mishaps

PollInv == TypeOK /\ Shapes /\ Once /\ InTurn /\ WasteIsPaid

\* Whoever polls holds the lock for longer than the poll may still last.
LockOutlastsPoll ==
  \A i \in Replicas : pc[i] = "poll" /\ ~unlocked => Holds(i) /\ timer[i] < lock.ttl

-----------------------------------------------------------------------------
\* Numbers, and sequences as the batches use them.

\* What the assumption says of each constant.
LEMMA Numbers ==
  /\ MaxUpdates \in Nat /\ MaxMishaps \in Nat
  /\ Ttl \in Nat \ {0} /\ PollTime \in Nat \ {0} /\ HookTime \in Nat \ {0}
  /\ JoinTime \in Nat \ {0} /\ ErrorSleep \in Nat \ {0}
  /\ FirstBackoff \in Nat \ {0} /\ LastBackoff \in Nat \ {0}
  /\ FirstBackoff <= LastBackoff
  BY TelegramPollingAssumption

\* The head and the tail of a batch that is not empty.
LEMMA HeadAndTail ==
  ASSUME NEW S, NEW s \in Seq(S), s # <<>>
  PROVE  /\ Len(s) \in Nat \ {0} /\ Head(s) = s[1] /\ Head(s) \in S
         /\ Tail(s) \in Seq(S) /\ Len(Tail(s)) = Len(s) - 1
         /\ \A n \in 1 .. Len(s) - 1 : Tail(s)[n] = s[n + 1]
         /\ Contents(Tail(s)) \subseteq Contents(s) /\ Head(s) \in Contents(s)
  <1>1. Len(s) \in Nat \ {0} /\ Head(s) = s[1] /\ Head(s) \in S
    OBVIOUS
  <1>2. /\ Tail(s) \in Seq(S) /\ Len(Tail(s)) = Len(s) - 1
        /\ \A n \in 1 .. Len(s) - 1 : Tail(s)[n] = s[n + 1]
    OBVIOUS
  <1>3. Contents(Tail(s)) \subseteq Contents(s) /\ Head(s) \in Contents(s)
    BY <1>1, <1>2 DEF Contents
  <1>. QED BY <1>1, <1>2, <1>3

\* An empty batch holds no update.
LEMMA EmptyContents == Contents(<<>>) = {}
  BY DEF Contents

\* The answer to a poll is a run of the updates Telegram keeps, from the offset on.
LEMMA PendingUpdates ==
  ASSUME NEW i \in Replicas, TypeOK, Shapes
  PROVE  /\ Pending(i) \in Seq(Updates)
         /\ \A u \in Contents(Pending(i)) : u >= kept
         /\ \A n \in 1 .. Len(Pending(i)) :
              Pending(i)[n] <= arrived /\ Pending(i)[n] = Head(Pending(i)) + n - 1
         /\ Pending(i) # <<>> => Head(Pending(i)) \in {offset[i], kept}
  <1> DEFINE first == IF offset[i] > kept THEN offset[i] ELSE kept
             k == arrived - first + 1
  <1>1. /\ first \in Nat \ {0} /\ first <= arrived + 1 /\ kept \in Nat /\ first >= kept
        /\ arrived \in Nat /\ arrived <= MaxUpdates /\ k \in Nat /\ MaxUpdates \in Nat
        /\ first \in {offset[i], kept}
    <2>1. offset[i] \in Nat /\ offset[i] <= arrived + 1
      BY DEF Shapes, Functional, Batches, Processes
    <2>2. arrived \in 0 .. MaxUpdates /\ kept \in 1 .. arrived + 1
      BY DEF TypeOK
    <2>. QED BY <2>1, <2>2, Numbers
  <1>2. Pending(i) = [n \in 1 .. k |-> first + n - 1]
    BY DEF Pending
  <1> HIDE DEF first, k
  <1>3. \A n \in 1 .. k : first + n - 1 \in Nat \ {0} /\ first + n - 1 <= arrived
    BY <1>1 DEF k
  <1>4. Pending(i) \in Seq(Updates)
    BY <1>1, <1>2, <1>3 DEF Updates
  <1>5. Len(Pending(i)) = k
    BY <1>1, <1>2
  <1>6. ASSUME k > 0 PROVE Head(Pending(i)) = first
    BY <1>1, <1>2, <1>4, <1>5, <1>6
  <1>7. Pending(i) # <<>> => k > 0
    BY <1>1, <1>4, <1>5
  <1>8. \A n \in 1 .. k : Pending(i)[n] = first + n - 1 /\ k > 0
    BY <1>1, <1>2
  <1>9. \A u \in Contents(Pending(i)) : u >= kept
    <2>1. \A n \in 1 .. k : Pending(i)[n] >= kept
      BY <1>1, <1>8
    <2>. QED BY <1>5, <2>1 DEF Contents
  <1>10. \A n \in 1 .. Len(Pending(i)) :
           Pending(i)[n] <= arrived /\ Pending(i)[n] = Head(Pending(i)) + n - 1
    BY <1>3, <1>5, <1>6, <1>8
  <1>. QED
    BY <1>1, <1>4, <1>6, <1>7, <1>9, <1>10

-----------------------------------------------------------------------------
\* What the steps have in common.

\* The labels with no update in hand.
Idle == Waits \union {"ended", "renew", "expire", "release", "unlock"}

\* A step that leaves every update where it is: the replica's poller moves on among the
\* labels with no update in hand, and Telegram may forget what is below an offset.
Still ==
  /\ UNCHANGED <<seen, queued, unguarded, offset, batch>>
  /\ \A i \in Replicas : pc'[i] = pc[i] \/ (pc[i] \in Idle /\ pc'[i] \in Idle)
  /\ webhook' => webhook
  /\ kept' = kept \/ \E i \in Replicas : offset[i] > kept /\ kept' = offset[i]
  /\ mishaps' \in Nat /\ mishaps' >= mishaps

Quiet == Still /\ UNCHANGED arrived

\* A step that ends the poller of replica i, with the updates in its hands.
Drops(i) ==
  /\ UNCHANGED <<seen, queued, unguarded, arrived, kept, webhook>>
  /\ pc' = [pc EXCEPT ![i] = pc'[i]] /\ pc'[i] \in Idle
  /\ offset' = [offset EXCEPT ![i] = 0] /\ batch' = [batch EXCEPT ![i] = <<>>]
  /\ mishaps' \in Nat /\ mishaps' >= mishaps
  /\ batch[i] # <<>> => mishaps' = mishaps + 1

QuietStep(i) ==
  \/ Start(i) \/ StartWithoutRedis(i) \/ Stop(i) \/ StartThread(i) \/ CheckLock(i)
  \/ RenewFails(i) \/ RenewAndPoll(i) \/ PollConflicts(i) \/ BackOff(i) \/ PollFails(i)
  \/ WakeUp(i) \/ Release(i)

DropStep(i) ==
  Joined(i) \/ Crash(i) \/ ReleaseNothing(i) \/ Unlock(i) \/ ReleaseFails(i)

\* The steps that hand updates on.
HandStep(i) == PollAnswers(i) \/ MarkSeen(i) \/ MarkFails(i) \/ Enqueue(i)

\* Every step is of one of these kinds, or of users, Telegram and time.
SortOfStep ==
  \/ \E i \in Replicas : QuietStep(i) \/ DropStep(i) \/ HandStep(i)
  \/ Arrive \/ WebhookDelivers \/ WebhookDeliversLate \/ Tick

LEMMA SortsOfSteps == [Next]_vars => SortOfStep \/ UNCHANGED vars
  BY DEF Next, PollerStep, QuietStep, DropStep, HandStep, SortOfStep

\* Starting, stopping, renewing, polling without an answer and sleeping leave every update
\* where it is (telegram_polling.py:39-71, 111-128, 136-142).
LEMMA QuietStepsAreQuiet ==
  ASSUME TypeOK, Shapes, NEW i \in Replicas, QuietStep(i)
  PROVE  Quiet
  <1>. USE DEF QuietStep, Start, StartWithoutRedis, Stop, StartThread, CheckLock, RenewFails,
               RenewAndPoll, PollConflicts, BackOff, PollFails, WakeUp, Release,
               RequestPoll, ClearWebhook, RedisFails, CallFails, Mishap, GoTo,
               service, history, process, thread
  <1>1. /\ mishaps \in Nat /\ kept \in Nat
        /\ pc \in [Replicas -> Labels] /\ (main[i] = "down" => pc[i] = "ended")
        /\ offset \in [Replicas -> Nat]
    BY DEF TypeOK, Shapes, Functional, Batches, Processes
  <1>2. UNCHANGED <<seen, queued, unguarded, arrived, offset, batch>>
    OBVIOUS
  <1>3. UNCHANGED pc \/ (pc[i] \in Idle /\ pc'[i] \in Idle)
    <2>1. UNCHANGED pc \/ pc[i] \in {"ended", "hook", "renew", "expire", "poll", "clear", "sleep", "release"}
      BY <1>1
    <2>2. UNCHANGED pc \/ pc'[i] \in {"hook", "renew", "release", "poll", "clear", "sleep", "unlock", "expire"}
      BY <1>1 DEF RenewLabel
    <2>. QED BY <2>1, <2>2 DEF Idle, Waits
  <1>4. \A j \in Replicas : j # i => pc'[j] = pc[j]
    BY <1>1
  <1>5. \A j \in Replicas : pc'[j] = pc[j] \/ (pc[j] \in Idle /\ pc'[j] \in Idle)
    BY <1>3, <1>4
  <1>6. webhook' => webhook
    OBVIOUS
  <1>7. kept' = kept \/ (offset[i] > kept /\ kept' = offset[i])
    OBVIOUS
  <1>8. mishaps' \in Nat /\ mishaps' >= mishaps
    BY <1>1
  <1>. QED
    BY <1>2, <1>5, <1>6, <1>7, <1>8 DEF Quiet, Still

\* The same steps keep the functions total and the batches in order.
LEMMA QuietStepsKeepShapes ==
  ASSUME TypeOK, Shapes, NEW i \in Replicas, QuietStep(i)
  PROVE  Shapes'
  <1>. USE DEF QuietStep, Start, StartWithoutRedis, Stop, StartThread, CheckLock, RenewFails,
               RenewAndPoll, PollConflicts, BackOff, PollFails, WakeUp, Release,
               RequestPoll, ClearWebhook, RedisFails, CallFails, Mishap, GoTo,
               service, history, process, thread
  <1>0. Functional /\ Batches /\ Processes
    BY DEF Shapes
  <1>1. webhook' \in BOOLEAN /\ unlocked' \in BOOLEAN /\ mishaps' \in Nat
    <2>1. webhook' = webhook \/ webhook' = FALSE
      OBVIOUS
    <2>2. \/ unlocked' = unlocked \/ unlocked' = TRUE
          \/ unlocked' = (unlocked \/ ~Holds(i))
      OBVIOUS
    <2>3. mishaps' \in Nat
      BY <1>0 DEF Functional
    <2>4. webhook \in BOOLEAN /\ unlocked \in BOOLEAN
      BY <1>0 DEF Functional
    <2>5. unlocked' \in BOOLEAN
      BY <2>2, <2>4
    <2>. QED BY <2>1, <2>3, <2>4, <2>5
  <1>2. main' \in [Replicas -> {"down", "up", "stopping", "leaving"}]
    <2>1. main' \in {main, [main EXCEPT ![i] = "up"], [main EXCEPT ![i] = "stopping"]}
      OBVIOUS
    <2>. QED BY <1>0, <2>1 DEF Functional
  <1>3. pc' \in [Replicas -> Labels]
    BY <1>0 DEF Functional, Labels, Waits, RenewLabel
  <1>4. timer' \in [Replicas -> Nat] /\ join' \in [Replicas -> Nat]
    <2>1. backoff \in [Replicas -> Nat] /\ timer \in [Replicas -> Nat] /\ join \in [Replicas -> Nat]
      BY <1>0 DEF Functional
    <2>. QED BY <2>1, Numbers
  <1>5. backoff' \in [Replicas -> Nat]
    BY <1>0, Numbers DEF Functional, NextBackoff
  <1>6. Functional'
    BY <1>1, <1>2, <1>3, <1>4, <1>5 DEF Functional
  <1>7. Batches'
    BY <1>0, QuietStepsAreQuiet DEF Batches, Quiet, Still
  <1>8. Processes'
    BY <1>0 DEF Processes, Functional
  <1>. QED BY <1>6, <1>7, <1>8 DEF Shapes

\* The end of a thread or of a process drops its locals, and costs a mishap if there was
\* an update among them (telegram_polling.py:96-108, 145-177).
LEMMA DropStepsDrop ==
  ASSUME TypeOK, Shapes, NEW i \in Replicas, DropStep(i)
  PROVE  Drops(i) /\ Shapes'
  <1>. USE DEF DropStep, Joined, Crash, ReleaseNothing, Unlock, ReleaseFails, Ended,
               ResetLocals, RedisFails, CallFails, Mishap, GoTo,
               service, history, process, thread
  <1>0. Functional /\ Batches /\ Processes
    BY DEF Shapes
  <1>1. mishaps \in Nat /\ pc \in [Replicas -> Labels]
    BY <1>0 DEF Functional
  <1>2. UNCHANGED <<seen, queued, unguarded, arrived, kept, webhook>>
    OBVIOUS
  <1>3. /\ offset' = [offset EXCEPT ![i] = 0] /\ batch' = [batch EXCEPT ![i] = <<>>]
        /\ backoff' = [backoff EXCEPT ![i] = FirstBackoff]
        /\ \/ pc' = [pc EXCEPT ![i] = "ended"]
           \/ pc' = [pc EXCEPT ![i] = "release"] /\ main' = [main EXCEPT ![i] = "leaving"]
    OBVIOUS
  <1>4. mishaps' \in Nat /\ mishaps' >= mishaps
    BY <1>1
  <1>5. batch[i] # <<>> => mishaps' = mishaps + 1
    <2>1. pc[i] \in {"release", "unlock"} => batch[i] = <<>>
      BY DEF TypeOK
    <2>. QED BY <2>1
  <1>6. pc' = [pc EXCEPT ![i] = pc'[i]] /\ pc'[i] \in Idle
    BY <1>1, <1>3 DEF Idle, Waits
  <1>7. webhook' \in BOOLEAN /\ unlocked' \in BOOLEAN
    <2>1. webhook \in BOOLEAN /\ unlocked \in BOOLEAN
      BY <1>0 DEF Functional
    <2>2. \/ unlocked' = unlocked \/ unlocked' = TRUE
          \/ unlocked' = (unlocked \/ lock.holder \notin {i, NoReplica})
      OBVIOUS
    <2>3. unlocked' \in BOOLEAN
      BY <2>1, <2>2
    <2>4. webhook' \in BOOLEAN
      BY <1>2, <2>1
    <2>. QED BY <2>3, <2>4
  <1>8. main' \in [Replicas -> {"down", "up", "stopping", "leaving"}]
    <2>1. \/ main' \in {[main EXCEPT ![i] = "leaving"], [main EXCEPT ![i] = "down"]}
          \/ main' = [main EXCEPT ![i] = IF @ = "leaving" THEN "down" ELSE @]
      OBVIOUS
    <2>. QED BY <1>0, <2>1 DEF Functional
  <1>9. /\ pc' \in [Replicas -> Labels] /\ timer' \in [Replicas -> Nat]
        /\ join' \in [Replicas -> Nat] /\ backoff' \in [Replicas -> Nat]
    <2>1. timer' = [timer EXCEPT ![i] = 0]
      OBVIOUS
    <2>2. join' = join \/ join' = [join EXCEPT ![i] = 0]
      OBVIOUS
    <2>3. pc' \in [Replicas -> Labels]
      BY <1>1, <1>3 DEF Labels, Waits
    <2>4. timer' \in [Replicas -> Nat] /\ join' \in [Replicas -> Nat]
      <3>1. timer \in [Replicas -> Nat] /\ join \in [Replicas -> Nat]
        BY <1>0 DEF Functional
      <3>. HIDE DEF DropStep
      <3>. QED BY <2>1, <2>2, <3>1
    <2>5. backoff' \in [Replicas -> Nat]
      BY <1>0, <1>3, Numbers DEF Functional
    <2>. QED BY <2>3, <2>4, <2>5
  <1>10. Functional'
    BY <1>4, <1>7, <1>8, <1>9 DEF Functional
  <1>11. Batches'
    <2>1. offset' \in [Replicas -> Nat] /\ batch' \in [Replicas -> Seq(Updates)]
      BY <1>0, <1>3 DEF Batches
    <2>2. ASSUME NEW j \in Replicas
          PROVE  /\ offset'[j] <= arrived + 1
                 /\ \A n \in 1 .. Len(batch'[j]) :
                      batch'[j][n] <= arrived /\ batch'[j][n] = Head(batch'[j]) + n - 1
      <3>1. CASE j # i
        BY <1>0, <1>3, <3>1 DEF Batches
      <3>2. CASE j = i
        <4>1. offset'[j] = 0 /\ batch'[j] = <<>>
          BY <1>0, <1>3, <3>2 DEF Batches
        <4>. QED BY <4>1 DEF TypeOK
      <3>. QED BY <3>1, <3>2
    <2>. QED BY <1>2, <2>1, <2>2 DEF Batches
  <1>12. Processes'
    <2>1. main' = main \/ main' = [main EXCEPT ![i] = main'[i]]
      BY <1>0 DEF Functional
    <2>. QED BY <1>0, <1>3, <2>1 DEF Processes, Functional
  <1>. QED
    BY <1>2, <1>3, <1>4, <1>5, <1>6, <1>10, <1>11, <1>12 DEF Drops, Shapes

\* What a batch at hand looks like.
LEMMA AtHand ==
  ASSUME TypeOK, Shapes, NEW i \in Replicas, pc[i] \in {"mark", "enqueue"}
  PROVE  /\ batch[i] # <<>> /\ batch[i] \in Seq(Updates)
         /\ Head(batch[i]) \in Updates /\ Head(batch[i]) <= arrived
         /\ Tail(batch[i]) \in Seq(Updates)
         /\ \A n \in 1 .. Len(Tail(batch[i])) :
              Tail(batch[i])[n] <= arrived /\ Tail(batch[i])[n] = Head(batch[i]) + n
         /\ Tail(batch[i]) # <<>> => Head(Tail(batch[i])) = Head(batch[i]) + 1
         /\ Contents(Tail(batch[i])) \subseteq Contents(batch[i])
         /\ Head(batch[i]) \in Contents(batch[i])
  <1> DEFINE b == batch[i]
  <1>1. b # <<>> /\ b \in Seq(Updates)
    BY DEF TypeOK, Shapes, Batches
  <1>2. \A n \in 1 .. Len(b) : b[n] <= arrived /\ b[n] = Head(b) + n - 1
    BY DEF Shapes, Batches
  <1> HIDE DEF b
  <1>3. /\ Len(b) \in Nat \ {0} /\ Head(b) = b[1] /\ Head(b) \in Updates
        /\ Tail(b) \in Seq(Updates) /\ Len(Tail(b)) = Len(b) - 1
        /\ \A n \in 1 .. Len(b) - 1 : Tail(b)[n] = b[n + 1]
        /\ Contents(Tail(b)) \subseteq Contents(b) /\ Head(b) \in Contents(b)
    BY <1>1, HeadAndTail
  <1>4. Head(b) <= arrived /\ Head(b) \in Nat
    BY <1>2, <1>3 DEF Updates
  <1>5. \A n \in 1 .. Len(Tail(b)) : Tail(b)[n] <= arrived /\ Tail(b)[n] = Head(b) + n
    BY <1>2, <1>3, <1>4
  <1>6. Tail(b) # <<>> => Head(Tail(b)) = Head(b) + 1
    <2>. SUFFICES ASSUME Tail(b) # <<>> PROVE Head(Tail(b)) = Head(b) + 1
      OBVIOUS
    <2>1. Len(Tail(b)) \in Nat \ {0} /\ Head(Tail(b)) = Tail(b)[1]
      BY <1>3, HeadAndTail
    <2>. QED BY <1>5, <2>1
  <1>. QED
    BY <1>1, <1>3, <1>4, <1>5, <1>6 DEF b

\* An answer, a mark and an enqueue keep the functions total and the batches in order.
LEMMA HandStepsKeepShapes ==
  ASSUME TypeOK, Shapes, NEW i \in Replicas, HandStep(i)
  PROVE  Shapes'
  <1>. USE DEF HandStep, PollAnswers, MarkSeen, MarkFails, Enqueue, NextUpdate, Advanced,
               CallFails, Mishap, GoTo, service, history, process, thread
  <1>0. Functional /\ Batches /\ Processes
    BY DEF Shapes
  <1>1. /\ UNCHANGED <<arrived, webhook, main, join>>
        /\ timer' = [timer EXCEPT ![i] = 0]
    OBVIOUS
  <1>2. /\ backoff' = backoff \/ backoff' = [backoff EXCEPT ![i] = FirstBackoff]
        /\ \/ pc' = [pc EXCEPT ![i] = "renew"] \/ pc' = [pc EXCEPT ![i] = "mark"]
           \/ pc' = [pc EXCEPT ![i] = "enqueue"]
    BY DEF AfterUpdate
  <1>3. mishaps' \in Nat /\ (unlocked' = unlocked \/ unlocked' = TRUE)
    BY <1>0 DEF Functional
  <1>4. Functional'
    <2>1. webhook' \in BOOLEAN
      BY <1>0, <1>1 DEF Functional
    <2>2. unlocked' \in BOOLEAN
      BY <1>0, <1>3 DEF Functional
    <2>3. pc' \in [Replicas -> Labels]
      BY <1>0, <1>2 DEF Functional, Labels, Waits
    <2>4. backoff' \in [Replicas -> Nat]
      BY <1>0, <1>2, Numbers DEF Functional
    <2>5. /\ main' \in [Replicas -> {"down", "up", "stopping", "leaving"}]
          /\ timer' \in [Replicas -> Nat] /\ join' \in [Replicas -> Nat]
      BY <1>0, <1>1 DEF Functional
    <2>. QED BY <1>3, <2>1, <2>2, <2>3, <2>4, <2>5 DEF Functional
  <1>5. Batches'
    <2>1. offset \in [Replicas -> Nat] /\ batch \in [Replicas -> Seq(Updates)]
      BY <1>0 DEF Batches
    <2>2. CASE PollAnswers(i)
      <3>1. offset' = offset /\ batch' = [batch EXCEPT ![i] = Pending(i)]
        BY <2>2
      <3>. QED BY <1>0, <1>1, <2>1, <3>1, PendingUpdates DEF Batches
    <2>3. CASE pc[i] \in {"mark", "enqueue"}
      <3>1. \/ offset' = offset
            \/ offset' = [offset EXCEPT ![i] = Head(batch[i]) + 1]
        BY <2>3
      <3>2. batch' = batch \/ batch' = [batch EXCEPT ![i] = Tail(batch[i])]
        BY <2>3
      <3>3. offset' \in [Replicas -> Nat] /\ \A j \in Replicas : offset'[j] <= arrived + 1
        <4>1. /\ Head(batch[i]) + 1 \in Nat /\ Head(batch[i]) + 1 <= arrived + 1
          BY <2>3, AtHand DEF Updates, TypeOK
        <4>2. \A j \in Replicas : offset[j] <= arrived + 1
          BY <1>0 DEF Batches
        <4>. HIDE DEF HandStep
        <4>. QED BY <2>1, <3>1, <4>1, <4>2
      <3>4. batch' \in [Replicas -> Seq(Updates)]
        BY <2>1, <2>3, <3>2, AtHand
      <3>5. ASSUME NEW j \in Replicas, NEW n \in 1 .. Len(batch'[j])
            PROVE  batch'[j][n] <= arrived /\ batch'[j][n] = Head(batch'[j]) + n - 1
        <4>1. CASE batch'[j] = batch[j]
          BY <1>0, <4>1 DEF Batches
        <4>2. CASE j = i /\ batch'[j] = Tail(batch[i])
          <5> DEFINE t == Tail(batch[i])
          <5>1. /\ t \in Seq(Updates) /\ Head(batch[i]) \in Updates
                /\ \A m \in 1 .. Len(t) : t[m] <= arrived /\ t[m] = Head(batch[i]) + m
                /\ t # <<>> => Head(t) = Head(batch[i]) + 1
            BY <2>3, AtHand
          <5>2. n \in 1 .. Len(t) /\ batch'[j] = t
            BY <4>2
          <5> HIDE DEF t
          <5>3. t # <<>> /\ Head(batch[i]) \in Nat /\ n \in Nat
            BY <5>1, <5>2 DEF Updates
          <5>. QED BY <5>1, <5>2, <5>3
        <4>. QED BY <2>1, <3>2, <4>1, <4>2
      <3>. QED BY <1>1, <3>3, <3>4, <3>5 DEF Batches
    <2>. QED BY <2>2, <2>3
  <1>6. Processes'
    <2>1. pc[i] # "ended"
      OBVIOUS
    <2>. QED BY <1>0, <1>1, <1>2, <2>1 DEF Processes, Functional
  <1>. QED BY <1>4, <1>5, <1>6 DEF Shapes

\* Users, Telegram's webhook calls and time.
LEMMA ServiceKeepsShapes ==
  ASSUME TypeOK, Shapes, Arrive \/ WebhookDelivers \/ WebhookDeliversLate \/ Tick
  PROVE  Shapes'
  <1>. USE DEF Arrive, WebhookDelivers, WebhookDeliversLate, Tick, Mishap,
               service, history, process, thread
  <1>0. Functional /\ Batches /\ Processes
    BY DEF Shapes
  <1>1. /\ UNCHANGED <<webhook, unlocked, main, pc, offset, batch, backoff>>
        /\ arrived' = arrived \/ arrived' = arrived + 1
    OBVIOUS
  <1>2. mishaps' \in Nat
    BY <1>0 DEF Functional
  <1>3. timer' \in [Replicas -> Nat] /\ join' \in [Replicas -> Nat]
    BY <1>0 DEF Functional, Less
  <1>4. Functional'
    BY <1>0, <1>1, <1>2, <1>3 DEF Functional
  <1>5. Batches'
    <2>1. arrived \in Nat
      BY DEF TypeOK
    <2>2. \A j \in Replicas : offset[j] \in Nat /\ \A n \in 1 .. Len(batch[j]) : batch[j][n] \in Nat
      <3>1. ASSUME NEW j \in Replicas
            PROVE  offset[j] \in Nat /\ batch[j] \in Seq(Updates)
        BY <1>0 DEF Batches
      <3>2. \A s \in Seq(Updates) : \A n \in 1 .. Len(s) : s[n] \in Updates
        OBVIOUS
      <3>3. Updates \subseteq Nat
        BY DEF Updates
      <3>. QED BY <3>1, <3>2, <3>3
    <2>. QED BY <1>0, <1>1, <2>1, <2>2 DEF Batches
  <1>6. Processes'
    BY <1>0, <1>1 DEF Processes
  <1>. QED BY <1>4, <1>5, <1>6 DEF Shapes

\* Every step does.
LEMMA StepKeepsShapes == TypeOK /\ Shapes /\ [Next]_vars => Shapes'
  <1> SUFFICES ASSUME TypeOK, Shapes, [Next]_vars PROVE Shapes'
    OBVIOUS
  <1>1. CASE UNCHANGED vars
    BY <1>1 DEF vars, process, thread, service, history, Shapes, Functional, Batches, Processes
  <1>2. ASSUME NEW i \in Replicas, QuietStep(i) \/ DropStep(i) \/ HandStep(i) PROVE Shapes'
    BY <1>2, QuietStepsKeepShapes, DropStepsDrop, HandStepsKeepShapes
  <1>3. CASE Arrive \/ WebhookDelivers \/ WebhookDeliversLate \/ Tick
    BY <1>3, ServiceKeepsShapes
  <1>4. SortOfStep \/ UNCHANGED vars
    BY SortsOfSteps
  <1>. QED BY <1>1, <1>2, <1>3, <1>4 DEF SortOfStep

-----------------------------------------------------------------------------
\* Types.

LockTyped ==
  /\ lock \in [holder : Replicas \union {NoReplica}, ttl : 0 .. Ttl]
  /\ lock.holder = NoReplica <=> lock.ttl = 0

\* The only ways a step changes the lock.
LEMMA LockMoves ==
  ASSUME TypeOK, [Next]_vars
  PROVE  \/ lock' = lock
         \/ lock = FreeLock /\ \E i \in Replicas : lock' = LockOf(i) /\ Start(i)
         \/ \E i \in Replicas : lock' = Extended /\ RenewAndPoll(i)
         \/ \E i \in Replicas : lock' = FreeLock /\ Unlock(i)
         \/ Tick /\ lock' = IF lock.ttl > 1 THEN [lock EXCEPT !.ttl = @ - 1] ELSE FreeLock
  BY DEF Next, PollerStep, Start, StartWithoutRedis, Stop, StartThread, CheckLock, RenewFails,
         RenewAndPoll, PollConflicts, BackOff, PollFails, WakeUp, Release, Joined, Crash,
         ReleaseNothing, Unlock, ReleaseFails, PollAnswers, MarkSeen, MarkFails, Enqueue,
         Arrive, WebhookDelivers, WebhookDeliversLate, Tick, vars

\* The lock has a holder exactly as long as it has time left.
LEMMA StepKeepsLockTyped ==
  ASSUME TypeOK, [Next]_vars
  PROVE  LockTyped'
  <1>1. LockTyped /\ NoReplica \notin Replicas
    BY TelegramPollingAssumption DEF TypeOK, LockTyped
  <1>2. CASE lock' = lock
    BY <1>1, <1>2 DEF LockTyped
  <1>3. CASE lock' = FreeLock
    BY <1>1, <1>3, Numbers DEF LockTyped, FreeLock
  <1>4. ASSUME NEW i \in Replicas, lock' = LockOf(i) PROVE LockTyped'
    BY <1>1, <1>4, Numbers DEF LockTyped, LockOf
  <1>5. CASE lock' = Extended
    <2>1. CASE lock = FreeLock
      BY <1>2, <1>5, <2>1 DEF Extended
    <2>2. CASE lock # FreeLock
      <3>1. PICK h \in Replicas \union {NoReplica}, t \in 0 .. Ttl : lock = [holder |-> h, ttl |-> t]
        BY <1>1 DEF LockTyped
      <3>2. lock' = [holder |-> h, ttl |-> Ttl] /\ h # NoReplica
        BY <1>1, <1>5, <2>2, <3>1 DEF Extended, FreeLock, LockTyped
      <3>. QED BY <3>2, Numbers DEF LockTyped
    <2>. QED BY <2>1, <2>2
  <1>6. CASE lock.ttl > 1 /\ lock' = [lock EXCEPT !.ttl = @ - 1]
    <2>1. PICK h \in Replicas \union {NoReplica}, t \in 0 .. Ttl : lock = [holder |-> h, ttl |-> t]
      BY <1>1 DEF LockTyped
    <2>2. lock' = [holder |-> h, ttl |-> t - 1] /\ t > 1 /\ h # NoReplica
      BY <1>1, <1>6, <2>1, Numbers DEF LockTyped
    <2>. QED BY <2>2, Numbers DEF LockTyped
  <1>. QED
    BY <1>2, <1>3, <1>4, <1>5, <1>6, LockMoves

\* The four ways a step raises a counter of tasks or of updates.
LEMMA CountersTyped ==
  ASSUME TypeOK, Shapes, [Next]_vars
  PROVE  /\ queued' \in [Updates -> Nat]
         /\ arrived' \in 0 .. MaxUpdates /\ kept' \in 1 .. arrived' + 1
  <1>1. /\ queued \in [Updates -> Nat] /\ arrived \in 0 .. MaxUpdates /\ kept \in 1 .. arrived + 1
        /\ offset \in [Replicas -> Nat] /\ \A i \in Replicas : offset[i] <= arrived + 1
    BY DEF TypeOK, Shapes, Batches
  <1>2. ASSUME NEW i \in Replicas, QuietStep(i)
        PROVE  /\ queued' = queued /\ arrived' = arrived
               /\ kept' = kept \/ \E j \in Replicas : offset[j] > kept /\ kept' = offset[j]
    BY <1>2, QuietStepsAreQuiet DEF Quiet, Still
  <1>3. ASSUME NEW i \in Replicas, DropStep(i)
        PROVE  UNCHANGED <<queued, arrived, kept>>
    BY <1>3, DropStepsDrop DEF Drops
  <1>4. ASSUME NEW i \in Replicas, HandStep(i)
        PROVE  queued' \in [Updates -> Nat] /\ UNCHANGED <<arrived, kept>>
    <2>1. UNCHANGED <<arrived, kept>>
      BY <1>4 DEF HandStep, PollAnswers, MarkSeen, MarkFails, Enqueue, service
    <2>2. \/ queued' = queued
          \/ pc[i] = "enqueue" /\ queued' = [queued EXCEPT ![Head(batch[i])] = @ + 1]
      BY <1>4 DEF HandStep, PollAnswers, MarkSeen, MarkFails, Enqueue
    <2>. QED BY <1>1, <2>1, <2>2
  <1>5. CASE Arrive \/ WebhookDelivers \/ WebhookDeliversLate \/ Tick
    <2>1. CASE Tick
      BY <1>1, <2>1 DEF Tick, service
    <2>2. CASE Arrive
      BY <1>1, <2>2, Numbers DEF Arrive
    <2>3. CASE WebhookDelivers \/ WebhookDeliversLate
      <3>1. /\ queued' = [queued EXCEPT ![kept] = @ + 1] /\ arrived' = arrived
            /\ kept <= arrived /\ (kept' = kept \/ kept' = kept + 1)
        BY <2>3 DEF WebhookDelivers, WebhookDeliversLate, service
      <3>2. kept \in Updates
        BY <1>1, <3>1, Numbers DEF Updates
      <3>3. queued' \in [Updates -> Nat]
        BY <1>1, <3>1, <3>2
      <3>. QED BY <1>1, <3>1, <3>3, Numbers
    <2>. QED BY <1>5, <2>1, <2>2, <2>3
  <1>6. SortOfStep \/ UNCHANGED vars
    BY SortsOfSteps
  <1>7. CASE UNCHANGED vars
    BY <1>1, <1>7 DEF vars, service
  <1>. QED
    BY <1>1, <1>2, <1>3, <1>4, <1>5, <1>6, <1>7, Numbers DEF SortOfStep

\* Per replica: who handles an update has one, and the back-off stays in its range.
LEMMA PollersTyped ==
  ASSUME TypeOK, Shapes, [Next]_vars, NEW j \in Replicas
  PROVE  /\ batch'[j] # <<>> <=> pc'[j] \in {"mark", "enqueue"}
         /\ backoff'[j] \in FirstBackoff .. LastBackoff
  <1>1. /\ batch[j] # <<>> <=> pc[j] \in {"mark", "enqueue"}
        /\ backoff[j] \in FirstBackoff .. LastBackoff
    BY DEF TypeOK
  <1>2. /\ pc \in [Replicas -> Labels] /\ batch \in [Replicas -> Seq(Updates)]
        /\ backoff \in [Replicas -> Nat]
    BY DEF Shapes, Functional, Batches
  <1>3. FirstBackoff \in FirstBackoff .. LastBackoff
    BY Numbers
  <1>4. ASSUME NEW i \in Replicas, QuietStep(i)
        PROVE  /\ batch'[j] # <<>> <=> pc'[j] \in {"mark", "enqueue"}
               /\ backoff'[j] \in FirstBackoff .. LastBackoff
    <2>1. batch' = batch /\ (pc'[j] = pc[j] \/ (pc[j] \in Idle /\ pc'[j] \in Idle))
      BY <1>4, QuietStepsAreQuiet DEF Quiet, Still
    <2>2. backoff' = backoff \/ backoff' = [backoff EXCEPT ![i] = NextBackoff(@)]
      BY <1>4 DEF QuietStep, Start, StartWithoutRedis, Stop, StartThread, CheckLock, RenewFails,
               RenewAndPoll, PollConflicts, BackOff, PollFails, WakeUp, Release, thread
    <2>3. \A b \in FirstBackoff .. LastBackoff : NextBackoff(b) \in FirstBackoff .. LastBackoff
      BY Numbers DEF NextBackoff
    <2>4. backoff'[j] \in FirstBackoff .. LastBackoff
      BY <1>1, <1>2, <2>2, <2>3
    <2>. QED BY <1>1, <2>1, <2>4 DEF Idle, Waits
  <1>5. ASSUME NEW i \in Replicas, DropStep(i)
        PROVE  /\ batch'[j] # <<>> <=> pc'[j] \in {"mark", "enqueue"}
               /\ backoff'[j] \in FirstBackoff .. LastBackoff
    <2>1. /\ pc' = [pc EXCEPT ![i] = pc'[i]] /\ pc'[i] \in Idle
          /\ batch' = [batch EXCEPT ![i] = <<>>]
      BY <1>5, DropStepsDrop DEF Drops
    <2>2. backoff' = [backoff EXCEPT ![i] = FirstBackoff]
      BY <1>5 DEF DropStep, Joined, Crash, ReleaseNothing, Unlock, ReleaseFails, Ended, ResetLocals
    <2>3. batch'[j] # <<>> <=> pc'[j] \in {"mark", "enqueue"}
      BY <1>1, <1>2, <2>1 DEF Idle, Waits
    <2>. QED BY <1>1, <1>2, <1>3, <2>2, <2>3
  <1>6. ASSUME NEW i \in Replicas, HandStep(i)
        PROVE  /\ batch'[j] # <<>> <=> pc'[j] \in {"mark", "enqueue"}
               /\ backoff'[j] \in FirstBackoff .. LastBackoff
    <2>1. backoff' = backoff \/ backoff' = [backoff EXCEPT ![i] = FirstBackoff]
      BY <1>6 DEF HandStep, PollAnswers, MarkSeen, MarkFails, Enqueue
    <2>2. \/ \E rest : batch' = [batch EXCEPT ![i] = rest] /\ pc' = [pc EXCEPT ![i] = AfterUpdate(rest)]
          \/ batch' = batch /\ pc[i] = "mark" /\ pc' = [pc EXCEPT ![i] = "enqueue"]
      BY <1>6 DEF HandStep, PollAnswers, MarkSeen, MarkFails, Enqueue, NextUpdate, GoTo
    <2>3. batch'[j] # <<>> <=> pc'[j] \in {"mark", "enqueue"}
      BY <1>1, <1>2, <2>2 DEF AfterUpdate
    <2>. QED BY <1>1, <1>2, <1>3, <2>1, <2>3
  <1>7. CASE \/ Arrive \/ WebhookDelivers \/ WebhookDeliversLate \/ Tick \/ UNCHANGED vars
    BY <1>1, <1>7 DEF Arrive, WebhookDelivers, WebhookDeliversLate, Tick, thread, vars
  <1>8. SortOfStep \/ UNCHANGED vars
    BY SortsOfSteps
  <1>. QED BY <1>4, <1>5, <1>6, <1>7, <1>8 DEF SortOfStep

\* Every step keeps the types.
LEMMA StepKeepsTypes == TypeOK /\ Shapes /\ [Next]_vars => TypeOK'
  <1> SUFFICES ASSUME TypeOK, Shapes, [Next]_vars PROVE TypeOK'
    OBVIOUS
  <1>1. LockTyped'
    BY StepKeepsLockTyped
  <1>2. seen' \subseteq Updates /\ unguarded' \subseteq Updates
    <2>1. seen \subseteq Updates /\ unguarded \subseteq Updates /\ kept \in 1 .. arrived + 1
          /\ arrived \in 0 .. MaxUpdates
      BY DEF TypeOK
    <2>2. ASSUME NEW i \in Replicas, QuietStep(i) PROVE UNCHANGED <<seen, unguarded>>
      BY <2>2, QuietStepsAreQuiet DEF Quiet, Still
    <2>3. ASSUME NEW i \in Replicas, DropStep(i) PROVE UNCHANGED <<seen, unguarded>>
      BY <2>3, DropStepsDrop DEF Drops
    <2>4. ASSUME NEW i \in Replicas, HandStep(i)
          PROVE  /\ seen' \subseteq seen \union Updates
                 /\ unguarded' \subseteq unguarded \union Updates
      <3>1. pc[i] = "mark" => Head(batch[i]) \in Updates
        BY AtHand
      <3>. QED BY <2>4, <3>1 DEF HandStep, PollAnswers, MarkSeen, MarkFails, Enqueue, CallFails, history
    <2>5. ASSUME Arrive \/ WebhookDelivers \/ WebhookDeliversLate \/ Tick
          PROVE  /\ seen' = seen /\ unguarded' \subseteq unguarded \union Updates
      <3>1. kept <= arrived => kept \in Updates
        BY <2>1, Numbers DEF Updates
      <3>. QED BY <2>5, <3>1 DEF Arrive, WebhookDelivers, WebhookDeliversLate, Tick, history
    <2>6. CASE UNCHANGED vars
      BY <2>1, <2>6 DEF vars, history
    <2>7. SortOfStep \/ UNCHANGED vars
      BY SortsOfSteps
    <2>. QED BY <2>1, <2>2, <2>3, <2>4, <2>5, <2>6, <2>7 DEF SortOfStep
  <1>3. connected' \subseteq Replicas
    <2>1. connected' = connected \/ \E i \in Replicas : connected' \in {connected \union {i}, connected \ {i}}
      BY DEF Next, PollerStep, Start, StartWithoutRedis, Stop, StartThread, CheckLock, RenewFails,
         RenewAndPoll, PollConflicts, BackOff, PollFails, WakeUp, Release, Joined, Crash, Connect, Ended,
         ReleaseNothing, Unlock, ReleaseFails, PollAnswers, MarkSeen, MarkFails, Enqueue,
         Arrive, WebhookDelivers, WebhookDeliversLate, Tick, vars, thread
    <2>. QED BY <2>1 DEF TypeOK
  <1>4. \A j \in Replicas : main'[j] \in {"down", "up", "stopping", "leaving"} /\ pc'[j] \in Labels
    BY StepKeepsShapes DEF Shapes, Functional
  <1>. QED
    BY <1>1, <1>2, <1>3, <1>4, CountersTyped, PollersTyped DEF TypeOK, LockTyped, Labels

\* A message from a user, the clock and a stutter leave every update where it is.
LEMMA StillSteps ==
  ASSUME TypeOK, Shapes, Arrive \/ Tick \/ UNCHANGED vars
  PROVE  Still
  <1>1. mishaps \in Nat
    BY DEF Shapes, Functional
  <1>2. UNCHANGED <<seen, queued, unguarded, offset, batch, pc, webhook, kept, mishaps>>
    BY DEF Arrive, Tick, vars, process, thread, service, history
  <1>. QED BY <1>1, <1>2 DEF Still

\* Every step, by what it does to the updates.
LEMMA KindsOfSteps ==
  ASSUME TypeOK, Shapes, [Next]_vars
  PROVE  \/ Still
         \/ \E i \in Replicas : Drops(i) \/ HandStep(i)
         \/ WebhookDelivers \/ WebhookDeliversLate
  <1>1. SortOfStep \/ UNCHANGED vars
    BY SortsOfSteps
  <1>2. \A i \in Replicas : QuietStep(i) => Still
    BY QuietStepsAreQuiet DEF Quiet
  <1>3. \A i \in Replicas : DropStep(i) => Drops(i)
    BY DropStepsDrop
  <1>. QED BY <1>1, <1>2, <1>3, StillSteps DEF SortOfStep

-----------------------------------------------------------------------------
\* One task for one update.

\* Where nothing moves nothing is enqueued twice.
LEMMA StillKeepsOnce ==
  ASSUME TypeOK, Shapes, Once, Still
  PROVE  Once'
  <1>1. UNCHANGED <<seen, queued, unguarded, batch>> /\ (webhook' => webhook) /\ kept' >= kept
    <2>1. kept \in Nat
      BY DEF TypeOK
    <2>. QED BY <2>1 DEF Still, Shapes, Batches
  <1>2. \A j \in Replicas : \A u : Handing(j, u)' <=> Handing(j, u)
    BY DEF Still, Handing, Idle, Waits
  <1>3. PushedOnly' /\ EnqueuedOnce'
    BY <1>1 DEF Once, PushedOnly, EnqueuedOnce
  <1>4. UnmarkedIsNew'
    <2>1. ASSUME NEW u \in Updates, u >= kept' PROVE u >= kept
      <3>1. u \in Nat /\ kept \in Nat /\ kept' \in Nat
        BY DEF TypeOK, Updates, Still, Shapes, Batches
      <3>. QED BY <1>1, <2>1, <3>1
    <2>. QED BY <1>1, <2>1 DEF Once, UnmarkedIsNew
  <1>5. OneHands'
    BY <1>1, <1>2 DEF Once, OneHands
  <1>. QED BY <1>3, <1>4, <1>5 DEF Once

\* Nor where a poller drops what it holds.
LEMMA DropKeepsOnce ==
  ASSUME TypeOK, Shapes, Once, NEW i \in Replicas, Drops(i)
  PROVE  Once'
  <1>1. UNCHANGED <<seen, queued, unguarded, kept, webhook>>
    BY DEF Drops
  <1>2. \A j \in Replicas : batch'[j] = batch[j] \/ batch'[j] = <<>>
    BY DEF Drops, Shapes, Batches
  <1>3. \A j \in Replicas : \A u : Handing(j, u)' => Handing(j, u)
    <2>1. \A j \in Replicas : pc'[j] = "enqueue" => j # i /\ pc[j] = "enqueue" /\ batch'[j] = batch[j]
      BY DEF Drops, Shapes, Functional, Batches, Idle, Waits
    <2>. QED BY <2>1 DEF Handing
  <1>4. \A j \in Replicas : Contents(batch'[j]) \subseteq Contents(batch[j])
    BY <1>2, EmptyContents
  <1>5. PushedOnly' /\ EnqueuedOnce'
    BY <1>1, <1>2 DEF Once, PushedOnly, EnqueuedOnce
  <1>6. UnmarkedIsNew'
    BY <1>1, <1>4 DEF Once, UnmarkedIsNew
  <1>7. OneHands'
    BY <1>1, <1>3 DEF Once, OneHands
  <1>. QED BY <1>5, <1>6, <1>7 DEF Once

\* A webhook call enqueues the first update Telegram keeps, which no poller can have.
LEMMA WebhookKeepsOnce ==
  ASSUME TypeOK, Shapes, Once, WebhookDelivers \/ WebhookDeliversLate
  PROVE  Once'
  <1>1. /\ webhook /\ UNCHANGED <<seen, pc, batch, webhook>> /\ kept <= arrived
        /\ queued' = [queued EXCEPT ![kept] = @ + 1]
        /\ \/ kept' = kept + 1 /\ unguarded' = unguarded
           \/ kept' = kept /\ unguarded' = unguarded \union {kept}
    BY DEF WebhookDelivers, WebhookDeliversLate, thread, service, history
  <1>2. seen = {} /\ \A j \in Replicas : batch[j] = <<>> /\ Contents(batch[j]) = {}
    BY <1>1, EmptyContents DEF Once, PushedOnly
  <1>3. \A j \in Replicas : \A u : ~Handing(j, u) /\ ~Handing(j, u)'
    BY <1>1, <1>2 DEF Handing, TypeOK
  <1>4. kept \in Updates /\ kept \in Nat /\ queued \in [Updates -> Nat]
    <2>1. kept \in 1 .. arrived + 1 /\ arrived \in 0 .. MaxUpdates /\ queued \in [Updates -> Nat]
      BY DEF TypeOK
    <2>. QED BY <1>1, <2>1, Numbers DEF Updates
  <1>5. kept \notin unguarded => queued[kept] = 0
    BY <1>2, <1>4 DEF Once, UnmarkedIsNew
  <1>6. \A u \in Updates : u # kept => queued'[u] = queued[u]
    BY <1>1, <1>4
  <1>7. kept \notin unguarded' => queued'[kept] = 1 /\ kept' = kept + 1
    BY <1>1, <1>4, <1>5
  <1>8. PushedOnly' /\ OneHands'
    BY <1>1, <1>2, <1>3 DEF PushedOnly, OneHands
  <1>9. EnqueuedOnce'
    BY <1>1, <1>6, <1>7 DEF Once, EnqueuedOnce
  <1>10. UnmarkedIsNew'
    <2>1. SUFFICES ASSUME NEW u \in Updates \ (unguarded' \union seen'), u >= kept'
                   PROVE  queued'[u] = 0
      BY <1>1, <1>2 DEF UnmarkedIsNew
    <2>2. u >= kept /\ u # kept
      BY <1>1, <1>4, <1>7, <2>1 DEF Updates
    <2>. QED BY <1>1, <1>6, <2>1, <2>2 DEF Once, UnmarkedIsNew
  <1>. QED BY <1>8, <1>9, <1>10 DEF Once

\* What a poll receives and nobody has marked gave no task before.
LEMMA PollAnswersKeepsOnce ==
  ASSUME TypeOK, Shapes, Once, NEW i \in Replicas, PollAnswers(i)
  PROVE  Once'
  <1>1. /\ ~webhook /\ UNCHANGED <<seen, queued, unguarded, kept, webhook>>
        /\ pc' = [pc EXCEPT ![i] = AfterUpdate(Pending(i))]
        /\ batch' = [batch EXCEPT ![i] = Pending(i)]
    BY DEF PollAnswers, GoTo, service, history
  <1>2. pc \in [Replicas -> Labels] /\ batch \in [Replicas -> Seq(Updates)]
    BY DEF Shapes, Functional, Batches
  <1>3. \A j \in Replicas : \A u : Handing(j, u)' => Handing(j, u)
    <2>1. \A j \in Replicas : pc'[j] = "enqueue" => j # i /\ pc[j] = "enqueue" /\ batch'[j] = batch[j]
      BY <1>1, <1>2 DEF AfterUpdate
    <2>. QED BY <2>1 DEF Handing
  <1>4. \A j \in Replicas : \A u \in Contents(batch'[j]) : u \in Contents(batch[j]) \/ u >= kept
    BY <1>1, <1>2, PendingUpdates
  <1>5. PushedOnly' /\ EnqueuedOnce'
    BY <1>1 DEF Once, PushedOnly, EnqueuedOnce
  <1>6. UnmarkedIsNew'
    BY <1>1, <1>4 DEF Once, UnmarkedIsNew
  <1>7. OneHands'
    BY <1>1, <1>3 DEF Once, OneHands
  <1>. QED BY <1>5, <1>6, <1>7 DEF Once

\* A poller that goes on to the rest of its batch.
LEMMA NextUpdateMoves ==
  ASSUME TypeOK, Shapes, NEW i \in Replicas, pc[i] \in {"mark", "enqueue"}, NextUpdate(i)
  PROVE  /\ \A j \in Replicas : Contents(batch'[j]) \subseteq Contents(batch[j])
         /\ \A j \in Replicas : \A u : Handing(j, u)' <=> j # i /\ Handing(j, u)
  <1>1. /\ batch' = [batch EXCEPT ![i] = Tail(batch[i])]
        /\ pc' = [pc EXCEPT ![i] = AfterUpdate(Tail(batch[i]))]
    BY DEF NextUpdate, GoTo
  <1>2. pc \in [Replicas -> Labels] /\ batch \in [Replicas -> Seq(Updates)]
    BY DEF Shapes, Functional, Batches
  <1>3. Contents(Tail(batch[i])) \subseteq Contents(batch[i])
    BY AtHand
  <1>4. \A j \in Replicas : Contents(batch'[j]) \subseteq Contents(batch[j])
    BY <1>1, <1>2, <1>3
  <1>5. pc'[i] # "enqueue" /\ \A j \in Replicas : j # i => pc'[j] = pc[j] /\ batch'[j] = batch[j]
    BY <1>1, <1>2 DEF AfterUpdate
  <1>. QED BY <1>4, <1>5 DEF Handing

\* The mark admits the first replica that sets it and nobody after it.
LEMMA MarkSeenKeepsOnce ==
  ASSUME TypeOK, Shapes, Once, NEW i \in Replicas, MarkSeen(i)
  PROVE  Once'
  <1> DEFINE h == Head(batch[i])
  <1>1. /\ pc[i] = "mark" /\ UNCHANGED <<queued, unguarded, kept, webhook>>
        /\ seen' = seen \union {h}
        /\ \/ h \notin seen /\ pc' = [pc EXCEPT ![i] = "enqueue"] /\ batch' = batch
           \/ h \in seen /\ NextUpdate(i)
    BY DEF MarkSeen, MayEnqueue, GoTo, service, history
  <1>2. h \in Updates /\ h \in Contents(batch[i]) /\ batch[i] # <<>>
    BY <1>1, AtHand
  <1>3. ~webhook
    BY <1>2 DEF Once, PushedOnly
  <1>4. PushedOnly' /\ EnqueuedOnce'
    BY <1>1, <1>3 DEF Once, PushedOnly, EnqueuedOnce
  <1>5. CASE h \in seen /\ NextUpdate(i)
    <2>1. /\ \A j \in Replicas : Contents(batch'[j]) \subseteq Contents(batch[j])
          /\ \A j \in Replicas : \A u : Handing(j, u)' => Handing(j, u)
      BY <1>1, <1>5, NextUpdateMoves
    <2>2. seen' = seen
      BY <1>1, <1>5
    <2>3. UnmarkedIsNew'
      BY <1>1, <2>1, <2>2 DEF Once, UnmarkedIsNew
    <2>4. OneHands'
      BY <1>1, <2>1, <2>2 DEF Once, OneHands
    <2>. QED BY <1>4, <2>3, <2>4 DEF Once
  <1>6. CASE h \notin seen /\ pc' = [pc EXCEPT ![i] = "enqueue"] /\ batch' = batch
    <2>1. h \notin unguarded => queued[h] = 0
      BY <1>2, <1>6 DEF Once, UnmarkedIsNew
    <2>2. \A j \in Replicas : \A u : Handing(j, u)' <=> Handing(j, u) \/ (j = i /\ u = h)
      <3>1. pc \in [Replicas -> Labels]
        BY DEF Shapes, Functional
      <3>. QED BY <1>1, <1>6, <3>1 DEF Handing
    <2>3. \A j \in Replicas : h \notin unguarded => ~Handing(j, h)
      BY <1>2, <1>6 DEF Once, OneHands
    <2>4. UnmarkedIsNew'
      BY <1>1, <1>6 DEF Once, UnmarkedIsNew
    <2>5. OneHands'
      BY <1>1, <2>1, <2>2, <2>3 DEF Once, OneHands
    <2>. QED BY <1>4, <2>4, <2>5 DEF Once
  <1>. QED BY <1>1, <1>5, <1>6

\* An update let through without a mark no longer counts as guarded.
LEMMA MarkFailsKeepsOnce ==
  ASSUME TypeOK, Shapes, Once, NEW i \in Replicas, MarkFails(i)
  PROVE  Once'
  <1> DEFINE h == Head(batch[i])
  <1>1. /\ pc[i] = "mark" /\ UNCHANGED <<seen, queued, kept, webhook, batch>>
        /\ unguarded' = unguarded \union {h}
        /\ pc' = [pc EXCEPT ![i] = "enqueue"]
    BY DEF MarkFails, GoTo, service
  <1>2. \A j \in Replicas : \A u : Handing(j, u)' => Handing(j, u) \/ u = h
    <2>1. pc \in [Replicas -> Labels]
      BY DEF Shapes, Functional
    <2>. QED BY <1>1, <2>1 DEF Handing
  <1>3. PushedOnly' /\ EnqueuedOnce'
    BY <1>1 DEF Once, PushedOnly, EnqueuedOnce
  <1>4. UnmarkedIsNew'
    BY <1>1 DEF Once, UnmarkedIsNew
  <1>5. OneHands'
    BY <1>1, <1>2 DEF Once, OneHands
  <1>. QED BY <1>3, <1>4, <1>5 DEF Once

\* The one replica the mark admitted enqueues the update and lets go of it.
LEMMA EnqueueKeepsOnce ==
  ASSUME TypeOK, Shapes, Once, NEW i \in Replicas, Enqueue(i)
  PROVE  Once'
  <1> DEFINE h == Head(batch[i])
  <1>1. /\ pc[i] = "enqueue" /\ UNCHANGED <<seen, unguarded, kept, webhook>>
        /\ queued' = queued \/ queued' = [queued EXCEPT ![h] = @ + 1]
        /\ NextUpdate(i)
    BY DEF Enqueue, CallFails, service, history
  <1>2. h \in Updates /\ batch[i] # <<>> /\ queued \in [Updates -> Nat]
    BY <1>1, AtHand DEF TypeOK
  <1>3. /\ \A j \in Replicas : Contents(batch'[j]) \subseteq Contents(batch[j])
        /\ \A j \in Replicas : \A u : Handing(j, u)' <=> j # i /\ Handing(j, u)
    BY <1>1, NextUpdateMoves
  <1>4. Handing(i, h)
    BY <1>1 DEF Handing
  <1>5. h \notin unguarded => h \in seen /\ queued[h] = 0 /\ \A j \in Replicas : \A u : Handing(j, u)' => u # h
    <2>1. h \notin unguarded => h \in seen /\ queued[h] = 0 /\ \A j \in Replicas : Handing(j, h) => j = i
      BY <1>2, <1>4 DEF Once, OneHands
    <2>. QED BY <1>3, <2>1
  <1>6. /\ \A u \in Updates : u # h => queued'[u] = queued[u]
        /\ queued'[h] \in {queued[h], queued[h] + 1}
    BY <1>1, <1>2
  <1>7. PushedOnly'
    BY <1>1, <1>2 DEF Once, PushedOnly
  <1>8. EnqueuedOnce'
    BY <1>1, <1>5, <1>6 DEF Once, EnqueuedOnce
  <1>9. UnmarkedIsNew'
    BY <1>1, <1>3, <1>5, <1>6 DEF Once, UnmarkedIsNew
  <1>10. OneHands'
    <2>1. SUFFICES ASSUME NEW j \in Replicas, NEW u \in Updates \ unguarded, Handing(j, u)'
                   PROVE  /\ u \in seen /\ queued'[u] = 0
                          /\ \A k \in Replicas : Handing(k, u)' => k = j
      BY <1>1 DEF OneHands
    <2>2. u # h
      BY <1>5, <2>1
    <2>3. Handing(j, u) /\ \A k \in Replicas : Handing(k, u)' => Handing(k, u)
      BY <1>3, <2>1
    <2>. QED BY <1>6, <2>2, <2>3 DEF Once, OneHands
  <1>. QED BY <1>7, <1>8, <1>9, <1>10 DEF Once

\* Every step keeps an update from becoming two tasks.
LEMMA StepKeepsOnce == TypeOK /\ Shapes /\ Once /\ [Next]_vars => Once'
  BY KindsOfSteps, StillKeepsOnce, DropKeepsOnce, WebhookKeepsOnce, PollAnswersKeepsOnce,
     MarkSeenKeepsOnce, MarkFailsKeepsOnce, EnqueueKeepsOnce DEF HandStep

-----------------------------------------------------------------------------
\* Nothing gets ahead of what had its turn.

\* What had its turn keeps having had it.
LEMMA PassedGrows ==
  ASSUME TypeOK, Shapes, [Next]_vars
  PROVE  Passed \subseteq Passed'
  <1>1. kept \in Nat /\ kept' \in Nat
    BY StepKeepsTypes DEF TypeOK
  <1>2. /\ seen \subseteq seen' /\ unguarded \subseteq unguarded'
        /\ kept' >= kept
    <2>1. CASE Still
      BY <1>1, <2>1 DEF Still, Shapes, Batches
    <2>2. ASSUME NEW i \in Replicas, Drops(i) \/ HandStep(i)
          PROVE  /\ seen \subseteq seen' /\ unguarded \subseteq unguarded' /\ kept' = kept
      BY <2>2 DEF Drops, HandStep, PollAnswers, MarkSeen, MarkFails, Enqueue, CallFails, service, history
    <2>3. CASE WebhookDelivers \/ WebhookDeliversLate
      BY <1>1, <2>3 DEF WebhookDelivers, WebhookDeliversLate, service, history
    <2>. QED BY <1>1, <2>1, <2>2, <2>3, KindsOfSteps
  <1>3. \A a, b \in Nat : a <= b => 1 .. a - 1 \subseteq 1 .. b - 1
    OBVIOUS
  <1>. QED BY <1>1, <1>2, <1>3 DEF Passed

\* No step gets an offset or a batch ahead of what had its turn.
LEMMA StepKeepsTurns == TypeOK /\ Shapes /\ Once /\ InTurn /\ [Next]_vars => InTurn'
  <1> SUFFICES ASSUME TypeOK, Shapes, Once, InTurn, [Next]_vars PROVE InTurn'
    OBVIOUS
  <1> DEFINE Behind(n) == \A u \in Updates : u < n => u \in Passed
             BehindNow(n) == \A u \in Updates : u < n => u \in Passed'
  <1>1. \A n : Behind(n) => BehindNow(n)
    BY PassedGrows
  <1>2. \A j \in Replicas : Behind(offset[j]) /\ (batch[j] # <<>> => Behind(Head(batch[j])))
    BY DEF InTurn
  <1>3. /\ offset \in [Replicas -> Nat] /\ batch \in [Replicas -> Seq(Updates)]
    BY DEF Shapes, Batches
  <1> SUFFICES \A j \in Replicas : /\ BehindNow(offset'[j])
                                   /\ batch'[j] # <<>> => BehindNow(Head(batch'[j]))
    BY DEF InTurn
  <1> HIDE DEF Behind, BehindNow
  <1>4. CASE UNCHANGED <<offset, batch>>
    BY <1>1, <1>2, <1>4
  <1>5. ASSUME NEW i \in Replicas, Drops(i)
        PROVE  \A j \in Replicas : /\ BehindNow(offset'[j])
                                   /\ batch'[j] # <<>> => BehindNow(Head(batch'[j]))
    <2>1. offset' = [offset EXCEPT ![i] = 0] /\ batch' = [batch EXCEPT ![i] = <<>>]
      BY <1>5 DEF Drops
    <2>2. BehindNow(0)
      BY DEF BehindNow, Updates
    <2>. QED BY <1>1, <1>2, <1>3, <2>1, <2>2
  <1>6. ASSUME NEW i \in Replicas, PollAnswers(i)
        PROVE  \A j \in Replicas : /\ BehindNow(offset'[j])
                                   /\ batch'[j] # <<>> => BehindNow(Head(batch'[j]))
    <2>1. offset' = offset /\ batch' = [batch EXCEPT ![i] = Pending(i)]
      BY <1>6 DEF PollAnswers
    <2>2. Behind(kept)
      BY DEF Behind, Passed, Updates, TypeOK
    <2>3. Pending(i) # <<>> => BehindNow(Head(Pending(i)))
      BY <1>1, <1>2, <2>2, PendingUpdates
    <2>. QED BY <1>1, <1>2, <1>3, <2>1, <2>3
  <1>7. ASSUME NEW i \in Replicas, MarkSeen(i) \/ MarkFails(i) \/ Enqueue(i)
        PROVE  \A j \in Replicas : /\ BehindNow(offset'[j])
                                   /\ batch'[j] # <<>> => BehindNow(Head(batch'[j]))
    <2> DEFINE h == Head(batch[i])
    <2>1. /\ pc[i] \in {"mark", "enqueue"}
          /\ \/ pc[i] = "enqueue" /\ offset' = offset
             \/ pc[i] = "mark" /\ offset' = [offset EXCEPT ![i] = h + 1]
          /\ batch' = batch \/ batch' = [batch EXCEPT ![i] = Tail(batch[i])]
      BY <1>7 DEF MarkSeen, MarkFails, Enqueue, Advanced, NextUpdate
    <2>2. /\ batch[i] # <<>> /\ h \in Updates
          /\ Tail(batch[i]) # <<>> => Head(Tail(batch[i])) = h + 1
      BY <2>1, AtHand
    <2>3. h \in Passed'
      <3>1. CASE MarkSeen(i) \/ MarkFails(i)
        BY <3>1 DEF MarkSeen, MarkFails, Passed
      <3>2. CASE Enqueue(i)
        <4>1. Handing(i, h) /\ UNCHANGED <<seen, unguarded>>
          BY <3>2 DEF Enqueue, Handing, CallFails, history
        <4>. QED BY <2>2, <4>1 DEF Once, OneHands, Passed
      <3>. QED BY <1>7, <3>1, <3>2
    <2>4. BehindNow(h + 1)
      <3>1. BehindNow(h)
        BY <1>1, <1>2, <2>2
      <3>2. \A u \in Updates : u < h + 1 => u < h \/ u = h
        BY <2>2 DEF Updates
      <3>. QED BY <2>3, <3>1, <3>2 DEF BehindNow
    <2>. HIDE DEF h
    <2>. QED BY <1>1, <1>2, <1>3, <2>1, <2>2, <2>4
  <1>8. CASE WebhookDelivers \/ WebhookDeliversLate
    BY <1>4, <1>8 DEF WebhookDelivers, WebhookDeliversLate, thread
  <1>. QED
    BY <1>4, <1>5, <1>6, <1>7, <1>8, KindsOfSteps DEF Still, HandStep

-----------------------------------------------------------------------------
\* A mishap loses at most one update.

\* Sets of updates can be counted.
LEMMA UpdatesAreFinite ==
  ASSUME NEW S \in SUBSET Updates
  PROVE  IsFiniteSet(S) /\ Cardinality(S) \in Nat
  <1>1. IsFiniteSet(Updates)
    BY FS_Interval, Numbers DEF Updates
  <1>2. IsFiniteSet(S)
    BY <1>1, FS_Subset
  <1>. QED BY <1>2, FS_CardinalityType

\* One update more is at most one more to count.
LEMMA OneMore ==
  ASSUME NEW S \in SUBSET Updates, NEW R \in SUBSET Updates, NEW x, R \subseteq S \union {x}
  PROVE  Cardinality(R) <= Cardinality(S) + 1
  <1>1. IsFiniteSet(S) /\ Cardinality(S) \in Nat
    BY UpdatesAreFinite
  <1>2. /\ IsFiniteSet(S \union {x})
        /\ Cardinality(S \union {x}) \in {Cardinality(S), Cardinality(S) + 1}
    BY <1>1, FS_AddElement
  <1>3. Cardinality(R) <= Cardinality(S \union {x}) /\ Cardinality(R) \in Nat
    BY <1>2, UpdatesAreFinite, FS_Subset
  <1>. QED BY <1>1, <1>2, <1>3

\* A part counts no more than the whole.
LEMMA NoMore ==
  ASSUME NEW S \in SUBSET Updates, NEW R \in SUBSET S
  PROVE  Cardinality(R) <= Cardinality(S)
  BY UpdatesAreFinite, FS_Subset

\* Who has an update in hand, by replica.
LEMMA HandsAreHanding ==
  ASSUME TypeOK, NEW u
  PROVE  InHands(u) <=> \E i \in Replicas : Handing(i, u)
  BY DEF TypeOK, InHands, Handing

\* A step pays for what it wastes: nothing new, or one update and one mishap more.
LEMMA StepPays ==
  ASSUME TypeOK, Shapes, Once, InTurn, [Next]_vars, TypeOK'
  PROVE  /\ mishaps' \in Nat /\ mishaps' >= mishaps
         /\ \/ Wasted' \subseteq Wasted
            \/ mishaps' = mishaps + 1 /\ \E x : Wasted' \subseteq Wasted \union {x}
  <1>0. mishaps \in Nat /\ queued \in [Updates -> Nat] /\ pc \in [Replicas -> Labels]
    BY DEF Shapes, Functional, TypeOK
  <1>1. \A u : InHands(u)' <=> \E i \in Replicas : Handing(i, u)'
    BY DEF TypeOK, InHands, Handing
  <1>2. \A u : InHands(u) <=> \E i \in Replicas : Handing(i, u)
    BY HandsAreHanding
  <1>3. CASE Still
    <2>1. \A u \in Updates : u \in Passed' => u \in Passed
      <3>1. seen' = seen /\ unguarded' = unguarded
        BY <1>3 DEF Still
      <3>2. CASE kept' = kept
        BY <3>1, <3>2 DEF Passed
      <3>3. ASSUME NEW i \in Replicas, kept' = offset[i]
            PROVE  \A u \in Updates : u \in Passed' => u \in Passed
        <4>1. \A u \in Updates : u < offset[i] => u \in Passed
          BY DEF InTurn
        <4>2. offset[i] \in Nat /\ \A u \in 1 .. offset[i] - 1 : u < offset[i]
          BY DEF Shapes, Batches
        <4>. QED BY <3>1, <3>3, <4>1, <4>2 DEF Passed
      <3>. QED BY <1>3, <3>2, <3>3 DEF Still
    <2>2. \A j \in Replicas : \A u : Handing(j, u)' <=> Handing(j, u)
      BY <1>3 DEF Still, Handing, Idle, Waits
    <2>3. Wasted' \subseteq Wasted
      BY <1>1, <1>2, <1>3, <2>1, <2>2 DEF Still, Wasted
    <2>. QED BY <1>3, <2>3 DEF Still
  <1>4. ASSUME NEW i \in Replicas, Drops(i)
        PROVE  /\ mishaps' \in Nat /\ mishaps' >= mishaps
               /\ \/ Wasted' \subseteq Wasted
                  \/ mishaps' = mishaps + 1 /\ \E x : Wasted' \subseteq Wasted \union {x}
    <2> DEFINE h == Head(batch[i])
    <2>1. UNCHANGED <<seen, unguarded, kept, queued>> /\ Passed' = Passed
      BY <1>4 DEF Drops, Passed
    <2>2. \A j \in Replicas : \A u : Handing(j, u) => Handing(j, u)' \/ (j = i /\ u = h)
      BY <1>4 DEF Drops, Handing, Shapes, Functional, Batches
    <2>3. batch[i] = <<>> => \A u : ~Handing(i, u)
      BY DEF Handing, TypeOK
    <2>4. CASE batch[i] = <<>>
      BY <1>1, <1>2, <1>4, <2>1, <2>2, <2>3, <2>4 DEF Wasted, Drops
    <2>5. CASE batch[i] # <<>>
      <3>1. mishaps' = mishaps + 1
        BY <1>4, <2>5 DEF Drops
      <3>2. Wasted' \subseteq Wasted \union {h}
        BY <1>1, <1>2, <2>1, <2>2 DEF Wasted
      <3>. QED BY <1>0, <3>1, <3>2
    <2>. QED BY <2>4, <2>5
  <1>5. CASE WebhookDelivers \/ WebhookDeliversLate
    <2>1. /\ UNCHANGED <<seen, pc, batch>> /\ kept <= arrived
          /\ queued' = [queued EXCEPT ![kept] = @ + 1]
          /\ \/ kept' = kept + 1 /\ unguarded' = unguarded
             \/ kept' = kept /\ unguarded' = unguarded \union {kept}
          /\ mishaps' \in Nat /\ mishaps' >= mishaps
      BY <1>0, <1>5 DEF WebhookDelivers, WebhookDeliversLate, thread, service, history, Mishap
    <2>2. kept \in Nat \ {0}
      BY DEF TypeOK
    <2>3. \A u \in Updates : u \in Passed' => u \in Passed \/ u = kept
      BY <2>1, <2>2 DEF Passed
    <2>4. kept \in Updates => queued'[kept] > 0
      BY <1>0, <2>1
    <2>5. \A u \in Updates : u # kept => queued'[u] = queued[u]
      BY <1>0, <2>1
    <2>6. \A u : InHands(u)' <=> InHands(u)
      BY <2>1 DEF InHands
    <2>7. Wasted' \subseteq Wasted
      BY <2>3, <2>4, <2>5, <2>6 DEF Wasted
    <2>. QED BY <2>1, <2>7
  <1>6. ASSUME NEW i \in Replicas, PollAnswers(i)
        PROVE  mishaps' = mishaps /\ Wasted' \subseteq Wasted
    <2>1. /\ UNCHANGED <<seen, queued, unguarded, kept, mishaps>> /\ pc[i] = "poll"
          /\ pc' = [pc EXCEPT ![i] = AfterUpdate(Pending(i))]
          /\ batch' = [batch EXCEPT ![i] = Pending(i)]
      BY <1>6 DEF PollAnswers, GoTo, service, history
    <2>2. \A j \in Replicas : \A u : Handing(j, u) => Handing(j, u)'
      BY <2>1 DEF Handing, Shapes, Functional, Batches
    <2>3. Wasted' \subseteq Wasted
      BY <1>1, <1>2, <2>1, <2>2 DEF Wasted, Passed
    <2>. QED BY <2>1, <2>3
  <1>7. ASSUME NEW i \in Replicas, MarkSeen(i) \/ MarkFails(i)
        PROVE  mishaps' \in {mishaps, mishaps + 1} /\ Wasted' \subseteq Wasted
    <2> DEFINE h == Head(batch[i])
    <2>1. /\ pc[i] = "mark" /\ UNCHANGED <<queued, kept>> /\ mishaps' \in {mishaps, mishaps + 1}
          /\ seen' \union unguarded' = seen \union unguarded \union {h}
          /\ \/ pc' = [pc EXCEPT ![i] = "enqueue"] /\ batch' = batch
             \/ h \in seen /\ NextUpdate(i)
      BY <1>7 DEF MarkSeen, MarkFails, MayEnqueue, GoTo, service, history, Mishap
    <2>2. \A u : ~Handing(i, u)
      BY <2>1 DEF Handing
    <2>3. \A j \in Replicas : \A u : Handing(j, u) => Handing(j, u)'
      <3>1. CASE NextUpdate(i)
        BY <2>1, <2>2, <3>1, NextUpdateMoves
      <3>2. CASE pc' = [pc EXCEPT ![i] = "enqueue"] /\ batch' = batch
        BY <1>0, <2>2, <3>2 DEF Handing
      <3>. QED BY <2>1, <3>1, <3>2
    <2>4. \A u : u \in Passed' => u \in Passed \/ Handing(i, u)'
      <3>1. \A u : u \in Passed' => u \in Passed \/ u = h
        BY <2>1 DEF Passed
      <3>2. CASE h \in seen
        BY <3>1, <3>2 DEF Passed
      <3>3. CASE pc' = [pc EXCEPT ![i] = "enqueue"] /\ batch' = batch
        BY <1>0, <3>1, <3>3 DEF Handing
      <3>. QED BY <2>1, <3>2, <3>3
    <2>5. Wasted' \subseteq Wasted
      BY <1>1, <1>2, <2>1, <2>3, <2>4 DEF Wasted
    <2>. QED BY <2>1, <2>5
  <1>8. ASSUME NEW i \in Replicas, Enqueue(i)
        PROVE  \/ mishaps' = mishaps /\ Wasted' \subseteq Wasted
               \/ mishaps' = mishaps + 1 /\ Wasted' \subseteq Wasted \union {Head(batch[i])}
    <2> DEFINE h == Head(batch[i])
    <2>1. /\ pc[i] = "enqueue" /\ UNCHANGED <<seen, unguarded, kept>> /\ NextUpdate(i)
          /\ \/ queued' = [queued EXCEPT ![h] = @ + 1] /\ mishaps' = mishaps
             \/ queued' = queued /\ mishaps' = mishaps + 1
      BY <1>8 DEF Enqueue, CallFails, Mishap, service, history
    <2>2. h \in Updates
      BY <2>1, AtHand
    <2>3. \A j \in Replicas : \A u : Handing(j, u) => Handing(j, u)' \/ (j = i /\ u = h)
      <3>1. \A j \in Replicas : \A u : Handing(j, u)' <=> j # i /\ Handing(j, u)
        BY <2>1, NextUpdateMoves
      <3>2. \A u : Handing(i, u) => u = h
        BY DEF Handing
      <3>. QED BY <3>1, <3>2
    <2>4. Passed' = Passed
      BY <2>1 DEF Passed
    <2>5. CASE queued' = queued /\ mishaps' = mishaps + 1
      BY <1>1, <1>2, <2>3, <2>4, <2>5 DEF Wasted
    <2>6. CASE queued' = [queued EXCEPT ![h] = @ + 1] /\ mishaps' = mishaps
      <3>1. queued'[h] # 0 /\ \A u \in Updates : u # h => queued'[u] = queued[u]
        BY <1>0, <2>2, <2>6
      <3>2. Wasted' \subseteq Wasted
        BY <1>1, <1>2, <2>3, <2>4, <3>1 DEF Wasted
      <3>. QED BY <2>6, <3>2
    <2>. QED BY <2>1, <2>5, <2>6
  <1>. QED
    <2>1. ASSUME NEW i \in Replicas, HandStep(i)
          PROVE  /\ mishaps' \in {mishaps, mishaps + 1}
                 /\ \/ Wasted' \subseteq Wasted
                    \/ mishaps' = mishaps + 1 /\ \E x : Wasted' \subseteq Wasted \union {x}
      BY <1>6, <1>7, <1>8, <2>1 DEF HandStep
    <2>2. ASSUME NEW n \in {mishaps, mishaps + 1} PROVE n \in Nat /\ n >= mishaps
      BY <1>0
    <2>. QED BY <1>3, <1>4, <1>5, <2>1, <2>2, KindsOfSteps

\* So the updates wasted never outnumber the mishaps.
LEMMA StepKeepsWastePaid ==
  TypeOK /\ Shapes /\ Once /\ InTurn /\ WasteIsPaid /\ [Next]_vars => WasteIsPaid'
  <1> SUFFICES ASSUME TypeOK, Shapes, Once, InTurn, WasteIsPaid, [Next]_vars PROVE WasteIsPaid'
    OBVIOUS
  <1> DEFINE W == Wasted' 
  <1>1. /\ mishaps' \in Nat /\ mishaps' >= mishaps /\ mishaps \in Nat
        /\ \/ W \subseteq Wasted
           \/ mishaps' = mishaps + 1 /\ \E x : W \subseteq Wasted \union {x}
    BY StepKeepsTypes, StepPays DEF Shapes, Functional
  <1>2. Wasted \subseteq Updates /\ W \subseteq Updates /\ Cardinality(Wasted) <= mishaps
    BY DEF Wasted, WasteIsPaid
  <1>3. Cardinality(Wasted) \in Nat /\ Cardinality(W) \in Nat
    BY <1>2, UpdatesAreFinite
  <1> HIDE DEF W
  <1>4. CASE W \subseteq Wasted
    <2>1. Cardinality(W) <= Cardinality(Wasted)
      BY <1>2, <1>4, NoMore
    <2>2. Cardinality(W) <= mishaps'
      BY <1>1, <1>2, <1>3, <2>1
    <2>. QED BY <2>2 DEF W, WasteIsPaid
  <1>5. ASSUME NEW x, mishaps' = mishaps + 1, W \subseteq Wasted \union {x} PROVE WasteIsPaid'
    <2>1. Cardinality(W) <= Cardinality(Wasted) + 1
      BY <1>2, <1>5, OneMore
    <2>2. Cardinality(W) <= mishaps'
      BY <1>1, <1>2, <1>3, <1>5, <2>1
    <2>. QED BY <2>2 DEF W, WasteIsPaid
  <1>. QED BY <1>1, <1>4, <1>5

-----------------------------------------------------------------------------
\* The inductive invariant, and what it gives.

\* The invariant holds before any process starts.
LEMMA InitGivesPollInv == Init => PollInv
  <1> SUFFICES ASSUME Init PROVE PollInv
    OBVIOUS
  <1>. USE DEF Init
  <1>1. TypeOK
    <2>1. lock \in [holder : Replicas \union {NoReplica}, ttl : 0 .. Ttl] /\ (lock.holder = NoReplica <=> lock.ttl = 0)
      BY Numbers DEF FreeLock
    <2>2. FirstBackoff \in FirstBackoff .. LastBackoff
      BY Numbers
    <2>3. arrived \in 0 .. MaxUpdates /\ kept \in 1 .. arrived + 1 /\ queued \in [Updates -> Nat]
      BY Numbers
    <2>. QED BY <2>1, <2>2, <2>3 DEF TypeOK, Waits
  <1>2. Shapes
    <2>1. Functional
      BY Numbers DEF Functional, Labels
    <2>2. Batches
      BY DEF Batches
    <2>3. Processes
      BY DEF Processes
    <2>. QED BY <2>1, <2>2, <2>3 DEF Shapes
  <1>3. Once
    <2>1. \A j \in Replicas : Contents(batch[j]) = {} /\ \A u : ~Handing(j, u)
      BY EmptyContents DEF Handing
    <2>. QED BY <2>1 DEF Once, PushedOnly, UnmarkedIsNew, OneHands, EnqueuedOnce
  <1>4. InTurn
    BY DEF InTurn, Updates
  <1>5. WasteIsPaid
    <2>1. Passed = {}
      BY DEF Passed
    <2>2. Wasted = {}
      BY <2>1 DEF Wasted
    <2>. QED BY <2>2, FS_EmptySet DEF WasteIsPaid
  <1>. QED BY <1>1, <1>2, <1>3, <1>4, <1>5 DEF PollInv

\* In every reachable state, with any number of replicas, updates and mishaps: types,
\* the marks' bookkeeping of who may enqueue what, and the account of wasted updates
\* (channels/telegram_polling.py and api/webhooks/telegram.py as a whole).
THEOREM PollingInvariant == Spec => []PollInv
  <1>1. PollInv /\ [Next]_vars => PollInv'
    BY StepKeepsTypes, StepKeepsShapes, StepKeepsOnce, StepKeepsTurns, StepKeepsWastePaid DEF PollInv
  <1>. QED BY <1>1, InitGivesPollInv, PTL DEF Spec

\* The poller's types: who waits has a timer, who handles an update has one, and the
\* lock is free exactly when its time is over (telegram_polling.py:15-142).
THEOREM TypesAreKept == Spec => []TypeOK
  BY PollingInvariant, PTL DEF PollInv

\* An update becomes at most one task however many replicas receive it, unless a mark
\* failed or the webhook got it twice (telegram_polling.py:74-93).
THEOREM UpdatesAreEnqueuedOnce == Spec => []EnqueuedOnce
  BY PollingInvariant, PTL DEF PollInv, Once

\* Updates go missing one per crash or failed call, never more: the offset and the mark
\* run ahead of the enqueue by one update (telegram_polling.py:130-139).
THEOREM LossesArePaid == Spec => []EachMishapLosesOne
  <1>1. PollInv => EachMishapLosesOne
    <2> SUFFICES ASSUME PollInv PROVE EachMishapLosesOne
      OBVIOUS
    <2>1. /\ mishaps \in Nat /\ kept \in 1 .. arrived + 1 /\ arrived \in 0 .. MaxUpdates
      BY DEF PollInv, TypeOK, Shapes, Functional
    <2>2. Wasted \subseteq Updates /\ Lost \subseteq Wasted
      BY <2>1, Numbers DEF Wasted, Lost, Passed, Updates
    <2>3. Cardinality(Lost) <= Cardinality(Wasted) /\ Cardinality(Wasted) <= mishaps
      BY <2>2, NoMore DEF PollInv, WasteIsPaid
    <2>4. Cardinality(Lost) \in Nat /\ Cardinality(Wasted) \in Nat
      BY <2>2, UpdatesAreFinite
    <2>. QED BY <2>1, <2>3, <2>4 DEF EachMishapLosesOne
  <1>. QED BY <1>1, PollingInvariant, PTL

-----------------------------------------------------------------------------
\* The lock outlasts the poll.

\* The lock has one holder.
LEMMA OneHolder == \A i, j \in Replicas : Holds(i) /\ Holds(j) => i = j
  BY DEF Holds

\* A poll begins with a renewal; no step else prolongs one.
LEMMA OtherStepsPollNoMore ==
  ASSUME PollInv, [Next]_vars, ~unlocked', NEW j \in Replicas, pc'[j] = "poll",
         ~Tick, ~\E i \in Replicas : RenewAndPoll(i)
  PROVE  pc[j] = "poll" /\ timer'[j] = timer[j] /\ ~unlocked
  <1>1. pc \in [Replicas -> Labels] /\ timer \in [Replicas -> Nat]
    BY DEF PollInv, Shapes, Functional
  <1>2. ASSUME NEW i \in Replicas, QuietStep(i) \/ DropStep(i) \/ HandStep(i)
        PROVE  /\ \/ pc' = pc /\ timer' = timer
                  \/ \E l, t : /\ l # "poll" /\ pc' = [pc EXCEPT ![i] = l]
                              /\ timer' = [timer EXCEPT ![i] = t]
               /\ unlocked => unlocked'
    <2>1. CASE QuietStep(i)
      BY <2>1 DEF QuietStep, Start, StartWithoutRedis, Stop, StartThread, CheckLock, RenewFails,
               RenewAndPoll, PollConflicts, BackOff, PollFails, WakeUp, Release, RenewLabel, GoTo,
               ClearWebhook, RedisFails, CallFails, history
    <2>2. CASE DropStep(i)
      <3>1. /\ pc' = [pc EXCEPT ![i] = "ended"] \/ pc' = [pc EXCEPT ![i] = "release"]
            /\ timer' = [timer EXCEPT ![i] = 0]
        BY <2>2 DEF DropStep, Joined, Crash, ReleaseNothing, Unlock, ReleaseFails, Ended, GoTo
      <3>2. unlocked => unlocked'
        BY <2>2 DEF DropStep, Joined, Crash, ReleaseNothing, Unlock, ReleaseFails,
                    RedisFails, CallFails, history
      <3>. QED BY <3>1, <3>2
    <2>3. CASE HandStep(i)
      <3>1. /\ \/ pc' = [pc EXCEPT ![i] = "renew"] \/ pc' = [pc EXCEPT ![i] = "mark"]
               \/ pc' = [pc EXCEPT ![i] = "enqueue"]
            /\ timer' = [timer EXCEPT ![i] = 0]
        BY <2>3 DEF HandStep, PollAnswers, MarkSeen, MarkFails, Enqueue, NextUpdate, AfterUpdate, GoTo
      <3>2. unlocked => unlocked'
        BY <2>3 DEF HandStep, PollAnswers, MarkSeen, MarkFails, Enqueue, CallFails, history
      <3>. QED BY <3>1, <3>2
    <2>. QED BY <1>2, <2>1, <2>2, <2>3
  <1>3. CASE Arrive \/ WebhookDelivers \/ WebhookDeliversLate \/ UNCHANGED vars
    BY <1>3 DEF Arrive, WebhookDelivers, WebhookDeliversLate, vars, history
  <1>4. SortOfStep \/ UNCHANGED vars
    BY SortsOfSteps
  <1>. QED BY <1>1, <1>2, <1>3, <1>4 DEF SortOfStep

\* A step leaves whoever polls with the lock, and with more of its time than of the
\* poll's, if a poll is shorter than the lock.
LEMMA StepKeepsLockLonger ==
  ASSUME PollTime < Ttl, PollInv, PollInv', LockOutlastsPoll, [Next]_vars
  PROVE  LockOutlastsPoll'
  <1>1. SUFFICES ASSUME NEW j \in Replicas, pc'[j] = "poll", ~unlocked'
                 PROVE  lock'.holder = j /\ timer'[j] < lock'.ttl
    BY DEF LockOutlastsPoll, Holds
  <1>2. /\ pc \in [Replicas -> Labels] /\ timer \in [Replicas -> Nat]
        /\ NoReplica \notin Replicas
    BY TelegramPollingAssumption DEF PollInv, Shapes, Functional
  <1>3. CASE \E i \in Replicas : RenewAndPoll(i)
    <2>1. PICK i \in Replicas : RenewAndPoll(i)
      BY <1>3
    <2>2. /\ lock' = Extended /\ Holds(i) /\ ~unlocked
          /\ pc' = [pc EXCEPT ![i] = "poll"] /\ timer' = [timer EXCEPT ![i] = PollTime]
      BY <1>1, <2>1 DEF RenewAndPoll, RequestPoll, GoTo
    <2>3. lock.holder = i /\ lock # FreeLock
      BY <1>2, <2>2 DEF Holds, FreeLock
    <2>4. lock'.holder = i /\ lock'.ttl = Ttl
      BY <2>2, <2>3 DEF Extended, PollInv, TypeOK
    <2>5. j = i
      <3>1. j # i => pc[j] = "poll"
        BY <1>1, <1>2, <2>2
      <3>2. j # i => Holds(j)
        BY <2>2, <3>1 DEF LockOutlastsPoll
      <3>. QED BY <2>2, <3>2, OneHolder
    <2>. QED BY <1>2, <2>2, <2>4, <2>5, Numbers
  <1>4. CASE Tick
    <2>1. /\ pc' = pc /\ unlocked' = unlocked /\ timer' = [i \in Replicas |-> Less(timer[i])]
          /\ lock' = IF lock.ttl > 1 THEN [lock EXCEPT !.ttl = @ - 1] ELSE FreeLock
          /\ timer[j] > 0
      BY <1>1, <1>4 DEF Tick, history, Waits
    <2>2. lock.holder = j /\ timer[j] < lock.ttl
      BY <1>1, <2>1 DEF LockOutlastsPoll, Holds
    <2>3. lock.ttl \in Nat /\ timer[j] \in Nat
      BY <1>2 DEF PollInv, TypeOK
    <2>4. lock.ttl > 1 /\ timer'[j] = timer[j] - 1
      BY <2>1, <2>2, <2>3 DEF Less
    <2>5. lock'.holder = lock.holder /\ lock'.ttl = lock.ttl - 1
      BY <2>1, <2>4 DEF PollInv, TypeOK
    <2>. QED BY <2>2, <2>3, <2>4, <2>5
  <1>5. CASE ~Tick /\ ~\E i \in Replicas : RenewAndPoll(i)
    <2>1. timer'[j] = timer[j] /\ ~unlocked
      BY <1>1, <1>5, OtherStepsPollNoMore
    <2>2. pc[j] = "poll"
      BY <1>1, <1>5, OtherStepsPollNoMore
    <2>3. Holds(j) /\ timer[j] < lock.ttl
      BY <2>1, <2>2 DEF LockOutlastsPoll
    <2>4. lock' = lock
      <3>1. lock # FreeLock
        BY <1>2, <2>3 DEF Holds, FreeLock
      <3>2. ASSUME NEW i \in Replicas, Unlock(i) PROVE FALSE
        <4>1. lock.holder \in {i, NoReplica} /\ pc[i] = "unlock"
          BY <1>1, <3>2 DEF Unlock
        <4>. QED BY <1>2, <2>2, <2>3, <4>1 DEF Holds
      <3>. QED BY <1>5, <3>1, <3>2, LockMoves DEF PollInv
    <2>. QED BY <2>1, <2>2, <2>3, <2>4 DEF Holds
  <1>. QED BY <1>3, <1>4, <1>5

\* A replica holds the lock for as long as it polls (telegram_polling.py:60-71) when a
\* poll is shorter than the lock, as 8 s with an 18 s HTTP timeout against 45 s is; so no
\* two replicas poll at once.
THEOREM PollersHoldTheLock ==
  ASSUME PollTime < Ttl
  PROVE  Spec => []PollerHoldsLock
  <1>1. Init => LockOutlastsPoll
    BY DEF Init, LockOutlastsPoll
  <1>2. PollInv /\ PollInv' /\ LockOutlastsPoll /\ [Next]_vars => LockOutlastsPoll'
    BY StepKeepsLockLonger
  <1>3. LockOutlastsPoll => PollerHoldsLock
    BY DEF LockOutlastsPoll, PollerHoldsLock
  <1>. QED BY <1>1, <1>2, <1>3, PollingInvariant, PTL DEF Spec
=============================================================================
