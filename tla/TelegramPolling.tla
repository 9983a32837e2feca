--------------------------- MODULE TelegramPolling ---------------------------
(***************************************************************************)
(* How Telegram updates reach the queue: API replicas that elect a poller  *)
(* with a lock in Redis (channels/telegram_polling.py), and the webhook    *)
(* (api/webhooks/telegram.py).  One unit of time stands for 20 s.          *)
(***************************************************************************)
EXTENDS Integers, Sequences, FiniteSets

CONSTANTS
  Replicas, NoReplica,    \* the API processes, and no process
  MaxUpdates,             \* updates users send
  Ttl,                    \* POLLING_LOCK_TTL_SECONDS
  PollTime,               \* the longest getUpdates may last, with its HTTP timeout
  HookTime,               \* the longest deleteWebhook may last, likewise
  JoinTime,               \* how long a shutdown waits for the poller
  FirstBackoff, LastBackoff, ErrorSleep,  \* the waits of _poll_loop
  MaxMishaps              \* bound: processes that die, and calls that fail

ASSUME TelegramPollingAssumption ==
  /\ NoReplica \notin Replicas
  /\ {MaxUpdates, MaxMishaps} \subseteq Nat
  /\ {Ttl, PollTime, HookTime, JoinTime, FirstBackoff, LastBackoff, ErrorSleep}
       \subseteq Nat \ {0}
  /\ FirstBackoff <= LastBackoff

VARIABLES
  lock,       \* the holder of the leader lock and the time it has left
  seen,       \* the updates with a mark in Redis
  queued,     \* how many tasks each update has given
  arrived,    \* the updates users have sent: 1 .. arrived
  kept,       \* the first update Telegram still keeps
  webhook,    \* Telegram pushes updates to the webhook
  main,       \* per replica: its main thread
  pc,         \* per replica: where its poller thread is
  timer,      \* per replica: how long the poller's current wait may last
  join,       \* per replica: how long the main thread still waits for the poller
  connected,  \* replicas whose Redis client has been created
  offset,     \* per replica: the offset of its next getUpdates, 0 if None
  batch,      \* per replica: the updates received and not yet handled
  backoff,    \* per replica: conflict_backoff
  \* history and bounds, read by guards of the environment and by properties only
  mishaps,    \* processes that died and calls that failed
  unguarded,  \* updates enqueued without a mark that Telegram may send again
  unlocked    \* the lock lapsed between a GET and what was done on it, or Redis failed

process == <<main, join>>
thread == <<connected, offset, batch, backoff>>
service == <<arrived, kept, webhook>>
history == <<mishaps, unguarded, unlocked>>
vars == <<lock, seen, queued, process, pc, timer, thread, service, history>>

Updates == 1 .. MaxUpdates
Waits == {"hook", "poll", "clear", "sleep"}

FreeLock == [holder |-> NoReplica, ttl |-> 0]
LockOf(i) == [holder |-> i, ttl |-> Ttl]
Holds(i) == lock.holder = i

Extended_Forgotten == lock

\* EXPIRE gives whatever lock there is its full time.
Extended == IF lock = FreeLock THEN lock ELSE [lock EXCEPT !.ttl = Ttl]

NextBackoff_NoCap(b) == 2 * b
NextBackoff(b) == IF 2 * b < LastBackoff THEN 2 * b ELSE LastBackoff

\* Where the loop goes for the rest of the updates, or for the next poll.
AfterUpdate(rest) == IF rest = <<>> THEN "renew" ELSE "mark"

\* What the GET of a renewal decides: only a lock in this replica's name is renewed.
RenewLabel(i) == IF Holds(i) THEN "expire" ELSE "release"

MayEnqueue_Always(u) == TRUE

\* What the mark of an update decides: only the first caller may enqueue it.
MayEnqueue(u) == u \notin seen

Init ==
  /\ lock = FreeLock /\ seen = {} /\ queued = [u \in Updates |-> 0]
  /\ arrived = 0 /\ kept = 1 /\ webhook \in BOOLEAN
  /\ main = [i \in Replicas |-> "down"] /\ pc = [i \in Replicas |-> "ended"]
  /\ timer = [i \in Replicas |-> 0] /\ join = [i \in Replicas |-> 0]
  /\ connected = {}
  /\ offset = [i \in Replicas |-> 0] /\ batch = [i \in Replicas |-> <<>>]
  /\ backoff = [i \in Replicas |-> FirstBackoff]
  /\ mishaps = 0 /\ unguarded = {} /\ unlocked = FALSE

\* The poller of replica i goes to label l, for at most t units of time.
GoTo(i, l, t) == pc' = [pc EXCEPT ![i] = l] /\ timer' = [timer EXCEPT ![i] = t]

Connect(i) == connected' = connected \union {i}

\* The locals of _poll_loop, when it starts or is over.
ResetLocals(i) ==
  /\ offset' = [offset EXCEPT ![i] = 0]
  /\ batch' = [batch EXCEPT ![i] = <<>>]
  /\ backoff' = [backoff EXCEPT ![i] = FirstBackoff]

Mishap == mishaps < MaxMishaps /\ mishaps' = mishaps + 1
RedisFails == Mishap /\ unlocked' = TRUE /\ UNCHANGED unguarded
CallFails == Mishap /\ UNCHANGED <<unguarded, unlocked>>

-----------------------------------------------------------------------------
\* Process start and end.

\* start_telegram_polling: SET NX EX, then deleteWebhook.  A replica that finds the
\* lock taken never tries again.
Start(i) ==
  /\ main[i] = "down"
  /\ main' = [main EXCEPT ![i] = "up"]
  /\ IF lock = FreeLock
     THEN lock' = LockOf(i) /\ GoTo(i, "hook", HookTime)
     ELSE UNCHANGED <<lock, pc, timer>>
  /\ Connect(i)
  /\ UNCHANGED <<seen, queued, join, offset, batch, backoff, service, history>>

\* Without Redis a replica takes itself for the leader.
StartWithoutRedis(i) ==
  /\ main[i] = "down"
  /\ RedisFails
  /\ main' = [main EXCEPT ![i] = "up"]
  /\ GoTo(i, "hook", HookTime)
  /\ UNCHANGED <<lock, seen, queued, join, thread, service>>

ClearWebhook ==
  \/ webhook' = FALSE /\ UNCHANGED history
  \/ CallFails /\ UNCHANGED webhook

StartThread(i) ==
  /\ pc[i] = "hook"
  /\ ClearWebhook
  /\ GoTo(i, "renew", 0)
  /\ UNCHANGED <<lock, seen, queued, process, thread, arrived, kept>>

\* stop_telegram_polling: raise _stop_event and wait.  The lifespan hook gets there only
\* once start_telegram_polling has returned.
Stop(i) ==
  /\ main[i] = "up" /\ pc[i] # "hook"
  /\ main' = [main EXCEPT ![i] = "stopping"]
  /\ join' = [join EXCEPT ![i] = JoinTime]
  /\ UNCHANGED <<lock, seen, queued, pc, timer, thread, service, history>>

\* The join returns because the thread has ended or because JoinTime is over; from
\* here on the label stands for the main thread, which releases the lock and exits.  A
\* late poller dies with it: a mishap, if it still holds updates.
Joined(i) ==
  /\ main[i] = "stopping"
  /\ pc[i] = "ended" \/ join[i] = 0
  /\ main' = [main EXCEPT ![i] = "leaving"]
  /\ join' = [join EXCEPT ![i] = 0]
  /\ GoTo(i, "release", 0)
  /\ ResetLocals(i)
  /\ IF batch[i] = <<>> THEN UNCHANGED history ELSE CallFails
  /\ UNCHANGED <<lock, seen, queued, connected, service>>

Crash(i) ==
  /\ main[i] # "down"
  /\ CallFails
  /\ main' = [main EXCEPT ![i] = "down"]
  /\ join' = [join EXCEPT ![i] = 0]
  /\ GoTo(i, "ended", 0)
  /\ ResetLocals(i)
  /\ connected' = connected \ {i}
  /\ UNCHANGED <<lock, seen, queued, service>>

-----------------------------------------------------------------------------
\* _poll_loop, label by label.

\* The request of get_updates: Telegram forgets what is below the offset.
RequestPoll(i) ==
  /\ kept' = IF offset[i] > kept THEN offset[i] ELSE kept
  /\ GoTo(i, "poll", PollTime)
  /\ UNCHANGED <<arrived, webhook>>

\* The head of the loop: _stop_event, then the GET of _renew_polling_lock.
CheckLock(i) ==
  /\ pc[i] = "renew"
  /\ IF main[i] = "stopping"
     THEN GoTo(i, "release", 0) /\ UNCHANGED connected
     ELSE GoTo(i, RenewLabel(i), 0) /\ Connect(i)
  /\ UNCHANGED <<lock, seen, queued, process, offset, batch, backoff, service, history>>

\* An error of the GET or of the EXPIRE ends the loop; with no client yet it counts as a
\* renewal.
RenewFails(i) ==
  /\ pc[i] \in {"renew", "expire"} /\ main[i] # "stopping"
  /\ RedisFails
  /\ IF i \in connected THEN GoTo(i, "release", 0) /\ UNCHANGED service ELSE RequestPoll(i)
  /\ UNCHANGED <<lock, seen, queued, process, thread>>

RenewAndPoll(i) ==
  /\ pc[i] = "expire"
  /\ lock' = Extended
  /\ unlocked' = (unlocked \/ ~Holds(i))
  /\ RequestPoll(i)
  /\ UNCHANGED <<seen, queued, process, thread, mishaps, unguarded>>

\* What Telegram answers: the updates it keeps from the offset on.
Pending(i) ==
  LET first == IF offset[i] > kept THEN offset[i] ELSE kept
  IN  [n \in 1 .. (arrived - first + 1) |-> first + n - 1]

PollAnswers(i) ==
  /\ pc[i] = "poll" /\ ~webhook
  /\ batch' = [batch EXCEPT ![i] = Pending(i)]
  /\ backoff' = [backoff EXCEPT ![i] = FirstBackoff]
  /\ GoTo(i, AfterUpdate(Pending(i)), 0)
  /\ UNCHANGED <<lock, seen, queued, process, connected, offset, service, history>>

\* 409: another client polls, somebody's browser for one, or a webhook is set.
PollConflicts(i) ==
  /\ pc[i] = "poll"
  /\ GoTo(i, "clear", HookTime)
  /\ UNCHANGED <<lock, seen, queued, process, thread, service, history>>

BackOff(i) ==
  /\ pc[i] = "clear"
  /\ ClearWebhook
  /\ GoTo(i, "sleep", backoff[i])
  /\ backoff' = [backoff EXCEPT ![i] = NextBackoff(@)]
  /\ UNCHANGED <<lock, seen, queued, process, connected, offset, batch, arrived, kept>>

PollFails(i) ==
  /\ pc[i] = "poll"
  /\ CallFails
  /\ GoTo(i, "sleep", ErrorSleep)
  /\ UNCHANGED <<lock, seen, queued, process, thread, service>>

WakeUp(i) ==
  /\ pc[i] = "sleep" /\ timer[i] = 0
  /\ GoTo(i, "renew", 0)
  /\ UNCHANGED <<lock, seen, queued, process, thread, service, history>>

Advanced_OnePastNext(i) == [offset EXCEPT ![i] = Head(batch[i]) + 2]

\* The offset moves before the update is handed over.
Advanced(i) == [offset EXCEPT ![i] = Head(batch[i]) + 1]

NextUpdate(i) ==
  /\ batch' = [batch EXCEPT ![i] = Tail(@)]
  /\ GoTo(i, AfterUpdate(Tail(batch[i])), 0)

\* _mark_update_seen: SET NX EX; a marked update is skipped.
MarkSeen(i) ==
  /\ pc[i] = "mark"
  /\ offset' = Advanced(i)
  /\ Connect(i)
  /\ IF MayEnqueue(Head(batch[i]))
     THEN GoTo(i, "enqueue", 0) /\ UNCHANGED batch
     ELSE NextUpdate(i)
  /\ seen' = seen \union {Head(batch[i])}
  /\ UNCHANGED <<lock, queued, process, backoff, service, history>>

\* A mark that cannot be set does not hold the update back.
MarkFails(i) ==
  /\ pc[i] = "mark"
  /\ offset' = Advanced(i)
  /\ Mishap /\ unlocked' = TRUE /\ unguarded' = unguarded \union {Head(batch[i])}
  /\ GoTo(i, "enqueue", 0)
  /\ UNCHANGED <<lock, seen, queued, process, connected, batch, backoff, service>>

\* process_telegram_update.delay, or its failure, which is logged and forgotten.
Enqueue(i) ==
  /\ pc[i] = "enqueue"
  /\ \/ queued' = [queued EXCEPT ![Head(batch[i])] = @ + 1] /\ UNCHANGED history
     \/ CallFails /\ UNCHANGED queued
  /\ NextUpdate(i)
  /\ UNCHANGED <<lock, seen, process, connected, offset, backoff, service>>

\* The GET of _release_polling_lock.
Release(i) ==
  /\ pc[i] = "release" /\ Holds(i)
  /\ GoTo(i, "unlock", 0)
  /\ UNCHANGED <<lock, seen, queued, process, thread, service, history>>

\* The end of the poller thread, or of the process when it is the main thread's release.
Ended(i) ==
  /\ GoTo(i, "ended", 0)
  /\ ResetLocals(i)
  /\ main' = [main EXCEPT ![i] = IF @ = "leaving" THEN "down" ELSE @]
  /\ connected' = IF main[i] = "leaving" THEN connected \ {i} ELSE connected

ReleaseNothing(i) ==
  /\ pc[i] = "release" /\ ~Holds(i)
  /\ Ended(i)
  /\ UNCHANGED <<lock, seen, queued, join, service, history>>

\* DELETE removes whatever lock there is.
Unlock(i) ==
  /\ pc[i] = "unlock"
  /\ lock' = FreeLock
  /\ unlocked' = (unlocked \/ lock.holder \notin {i, NoReplica})
  /\ Ended(i)
  /\ UNCHANGED <<seen, queued, join, service, mishaps, unguarded>>

ReleaseFails(i) ==
  /\ pc[i] \in {"release", "unlock"}
  /\ RedisFails
  /\ Ended(i)
  /\ UNCHANGED <<lock, seen, queued, join, service>>

-----------------------------------------------------------------------------
\* Users, Telegram and time.

Arrive ==
  /\ arrived < MaxUpdates
  /\ arrived' = arrived + 1
  /\ UNCHANGED <<lock, seen, queued, process, pc, timer, thread, kept, webhook, history>>

\* telegram_webhook enqueues whatever it receives.
WebhookDelivers ==
  /\ webhook /\ kept <= arrived
  /\ queued' = [queued EXCEPT ![kept] = @ + 1]
  /\ kept' = kept + 1
  /\ UNCHANGED <<lock, seen, process, pc, timer, thread, arrived, webhook, history>>

\* An answer that comes late makes Telegram send the update again.
WebhookDeliversLate ==
  /\ webhook /\ kept <= arrived
  /\ queued' = [queued EXCEPT ![kept] = @ + 1]
  /\ Mishap /\ unguarded' = unguarded \union {kept} /\ UNCHANGED unlocked
  /\ UNCHANGED <<lock, seen, process, pc, timer, thread, service>>

Less(n) == IF n > 0 THEN n - 1 ELSE 0

\* Nothing waits longer than it may; calls to Redis may take any time.
Tick ==
  /\ lock # FreeLock \/ \E i \in Replicas : timer[i] > 0 \/ join[i] > 0
  /\ \A i \in Replicas : pc[i] \in Waits => timer[i] > 0
  /\ \A i \in Replicas : main[i] = "stopping" => join[i] > 0
  /\ lock' = IF lock.ttl > 1 THEN [lock EXCEPT !.ttl = @ - 1] ELSE FreeLock
  /\ timer' = [i \in Replicas |-> Less(timer[i])]
  /\ join' = [i \in Replicas |-> Less(join[i])]
  /\ UNCHANGED <<seen, queued, main, pc, thread, service, history>>

PollerStep(i) ==
  \/ StartThread(i) \/ CheckLock(i) \/ RenewFails(i) \/ RenewAndPoll(i)
  \/ PollAnswers(i) \/ PollConflicts(i) \/ BackOff(i) \/ PollFails(i) \/ WakeUp(i)
  \/ MarkSeen(i) \/ MarkFails(i) \/ Enqueue(i)
  \/ Release(i) \/ ReleaseNothing(i) \/ Unlock(i) \/ ReleaseFails(i)

Next ==
  \/ \E i \in Replicas :
       Start(i) \/ StartWithoutRedis(i) \/ Stop(i) \/ Joined(i) \/ Crash(i) \/ PollerStep(i)
  \/ Arrive \/ WebhookDelivers \/ WebhookDeliversLate \/ Tick

Spec == Init /\ [][Next]_vars

\* The same with calls to Redis that take no time: only a wait lets time pass.
Prompt == \A i \in Replicas : pc[i] \in Waits \union {"ended"}
PromptSpec == Init /\ [][Next /\ (Tick => Prompt)]_vars

-----------------------------------------------------------------------------
\* Types: who waits has a timer, who handles an update has one, and the lock is free
\* exactly when its time is over.
TypeOK ==
  /\ lock \in [holder : Replicas \union {NoReplica}, ttl : 0 .. Ttl]
  /\ lock.holder = NoReplica <=> lock.ttl = 0
  /\ seen \in SUBSET Updates /\ unguarded \in SUBSET Updates /\ connected \in SUBSET Replicas
  /\ queued \in [Updates -> Nat]
  /\ arrived \in 0 .. MaxUpdates /\ kept \in 1 .. arrived + 1
  /\ \A i \in Replicas :
       /\ main[i] \in {"down", "up", "stopping", "leaving"}
       /\ pc[i] \in Waits \union {"ended", "renew", "expire", "mark", "enqueue", "release", "unlock"}
       /\ batch[i] # <<>> <=> pc[i] \in {"mark", "enqueue"}
       /\ backoff[i] \in FirstBackoff .. LastBackoff

\* An update becomes at most one task, however many replicas receive it and however
\* often (telegram_polling.py:74-93), unless a mark failed or the webhook got it twice.
EnqueuedOnce == \A u \in Updates \ unguarded : queued[u] <= 1

InHands(u) == \E i \in Replicas : batch[i] # <<>> /\ Head(batch[i]) = u /\ pc[i] = "enqueue"
Lost == {u \in 1 .. kept - 1 : queued[u] = 0 /\ ~InHands(u)}

\* The offset moves before the update is enqueued and the mark is set before too, so a
\* crash or a failed call loses an update; each loses no more than one
\* (telegram_polling.py:130-139).
EachMishapLosesOne == Cardinality(Lost) <= mishaps

\* A replica holds the lock for as long as it polls (telegram_polling.py:60-71), unless
\* a lock lapsed between a GET and what followed it.  So no two poll at once.
PollerHoldsLock ==
  \A i \in Replicas : pc[i] = "poll" /\ ~unlocked => Holds(i)

\* telegram_polling.py:121: the poller stops, for good, because another replica holds
\* the leader lock.  (It also stops when its own lock has lapsed during a back-off.)
StopsForAnotherLeader ==
  [][\A i \in Replicas :
       CheckLock(i) /\ main[i] = "up" /\ pc'[i] = "release" => lock # FreeLock]_vars

=============================================================================
