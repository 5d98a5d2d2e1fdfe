---------------------------- MODULE BlockingQueue ----------------------------
(***************************************************************************)
(* BoundedQueue (base/bounded_queue.h) shared by producer and consumer     *)
(* threads, in both modes of block_, with the MutexLock (base/mutex.h) and *)
(* the two Conditions (base/condition.h) it is made of.                    *)
(*                                                                         *)
(* An element is the number of the push_back() that added it.  Producers   *)
(* in Overwriters call put(1, x), the others put(x), which is put(0, x).   *)
(***************************************************************************)
EXTENDS Integers, Sequences, FiniteSets

CONSTANTS
  Producers,      \* threads that call put()
  Overwriters,    \* those of them that call put(1, x)
  Consumers,      \* threads that call take() for ever
  Capacities,     \* values of maxSize the constructor is called with
  MaxPuts,        \* bound on the put() calls, per producer
  MaxSpurious     \* bound on wake-ups that no notify() caused

QueueThreads == Producers \cup Consumers

NoThread == "none"   \* m_holder = 0, and a free pthread mutex

ASSUME BlockingQueueAssumption ==
  /\ Overwriters \subseteq Producers
  /\ Producers \cap Consumers = {}
  /\ NoThread \notin QueueThreads
  /\ Capacities \subseteq Nat \ {0}
  /\ MaxPuts \in [Producers -> Nat] /\ MaxSpurious \in Nat

VARIABLES
  capacity_, block_, queue_,
  pmutex,         \* the thread that has the pthread mutex of mutex_
  holder,         \* m_holder of mutex_
  notEmpty_,      \* threads blocked in notEmpty_.wait()
  notFull_,       \* threads blocked in notFull_.wait()
  at,             \* where each thread is
  puts,           \* put() calls each producer has made
  spurious,       \* wake-ups without a notify()
  pushed, gone,   \* history: push_back() and erase() calls
  waited          \* history: threads that waited since their lock()

bqVars == <<capacity_, block_, queue_, pmutex, holder, notEmpty_, notFull_, at,
            puts, spurious, pushed, gone, waited>>

\* Nobody has called a method yet; the constructor sets the rest.
BlockingQueueInit ==
  /\ capacity_ \in Capacities
  /\ block_ \in BOOLEAN
  /\ queue_ = <<>>
  /\ pmutex = NoThread /\ holder = NoThread
  /\ notEmpty_ = {} /\ notFull_ = {}
  /\ at = [t \in QueueThreads |-> "outside"]
  /\ puts = [t \in Producers |-> 0]
  /\ spurious = 0 /\ pushed = 0 /\ gone = 0
  /\ waited = {}

Goto(t, place) == at' = [at EXCEPT ![t] = place]

Full == Len(queue_) = capacity_

-----------------------------------------------------------------------------

\* Mutant: lock() leaves m_holder as it was.
LockForgetsHolder(t) == pmutex = NoThread /\ pmutex' = t /\ UNCHANGED holder

\* MutexLock::lock(), unlock().
Lock(t) == pmutex = NoThread /\ pmutex' = t /\ holder' = t
Unlock(t) == pmutex' = NoThread /\ holder' = NoThread

\* Condition::notify() wakes one of the waiters, if there is one.
Notify(waiters, others) ==
  IF waiters = {} THEN others = {}
  ELSE \E t \in waiters : others = waiters \ {t}

\* The guard of put() or take() is made.
Enter(t) ==
  /\ at[t] = "outside"
  /\ t \in Producers => puts[t] < MaxPuts[t]
  /\ Lock(t)
  /\ Goto(t, "check")
  /\ puts' = IF t \in Producers THEN [puts EXCEPT ![t] = @ + 1] ELSE puts
  /\ waited' = waited \ {t}
  /\ UNCHANGED <<capacity_, block_, queue_, notEmpty_, notFull_, spurious, pushed, gone>>

\* pthread_cond_wait() frees the pthread mutex behind MutexLock's back, and
\* takes it again: m_holder is neither cleared nor set.
Wait(t) ==
  /\ block_
  /\ pmutex' = NoThread
  /\ waited' = waited \cup {t}
  /\ Goto(t, "waiting")
  /\ UNCHANGED holder

\* return eFull, return eEmpty
Refuse(t) ==
  /\ ~block_
  /\ Unlock(t)
  /\ Goto(t, "outside")
  /\ UNCHANGED waited

CheckFull(t) ==
  /\ t \in Producers /\ at[t] = "check"
  /\ IF Full /\ t \notin Overwriters
       THEN \/ Wait(t) /\ notFull_' = notFull_ \cup {t}
            \/ Refuse(t) /\ UNCHANGED notFull_
       ELSE Goto(t, "push") /\ UNCHANGED <<pmutex, holder, notFull_, waited>>
  /\ UNCHANGED <<capacity_, block_, queue_, notEmpty_, puts, spurious, pushed, gone>>

\* Mutant: while() became if() in take().
CheckEmptyOnce(t) ==
  /\ t \in Consumers /\ at[t] = "check"
  /\ IF queue_ = <<>> /\ t \notin waited
       THEN \/ Wait(t) /\ notEmpty_' = notEmpty_ \cup {t}
            \/ Refuse(t) /\ UNCHANGED notEmpty_
       ELSE Goto(t, "pop") /\ UNCHANGED <<pmutex, holder, notEmpty_, waited>>
  /\ UNCHANGED <<capacity_, block_, queue_, notFull_, puts, spurious, pushed, gone>>

CheckEmpty(t) ==
  /\ t \in Consumers /\ at[t] = "check"
  /\ IF queue_ = <<>>
       THEN \/ Wait(t) /\ notEmpty_' = notEmpty_ \cup {t}
            \/ Refuse(t) /\ UNCHANGED notEmpty_
       ELSE Goto(t, "pop") /\ UNCHANGED <<pmutex, holder, notEmpty_, waited>>
  /\ UNCHANGED <<capacity_, block_, queue_, notFull_, puts, spurious, pushed, gone>>

\* Mutant: a thread that wakes for no reason is still taken for a waiter.
WakeStaysListed(t) ==
  /\ at[t] = "waiting"
  /\ pmutex = NoThread
  /\ t \in notEmpty_ \cup notFull_ => spurious < MaxSpurious
  /\ spurious' = IF t \in notEmpty_ \cup notFull_ THEN spurious + 1 ELSE spurious
  /\ pmutex' = t
  /\ Goto(t, "check")
  /\ UNCHANGED <<capacity_, block_, queue_, holder, notEmpty_, notFull_, puts, pushed,
                 gone, waited>>

\* Back from wait(): notified, or for no reason.
Wake(t) ==
  /\ at[t] = "waiting"
  /\ pmutex = NoThread
  /\ t \in notEmpty_ \cup notFull_ => spurious < MaxSpurious
  /\ spurious' = IF t \in notEmpty_ \cup notFull_ THEN spurious + 1 ELSE spurious
  /\ pmutex' = t
  /\ notEmpty_' = notEmpty_ \ {t}
  /\ notFull_' = notFull_ \ {t}
  /\ Goto(t, "check")
  /\ UNCHANGED <<capacity_, block_, queue_, holder, puts, pushed, gone, waited>>

\* The element is in, an overwriting put() having dropped the oldest of a full
\* queue, and the guard is gone.
Push(t) ==
  /\ at[t] = "push"
  /\ queue_' = Append(IF Full THEN Tail(queue_) ELSE queue_, pushed + 1)
  /\ gone' = IF Full THEN gone + 1 ELSE gone
  /\ pushed' = pushed + 1
  /\ Unlock(t)
  /\ Goto(t, "notify")
  /\ UNCHANGED <<capacity_, block_, notEmpty_, notFull_, puts, spurious, waited>>

\* Mutant: notEmpty_ is notified when the queue holds this element alone.
NotifyNotEmptyIfFirst(t) ==
  /\ at[t] = "notify"
  /\ IF Len(queue_) = 1 THEN Notify(notEmpty_, notEmpty_') ELSE UNCHANGED notEmpty_
  /\ Goto(t, "outside")
  /\ UNCHANGED <<capacity_, block_, queue_, pmutex, holder, notFull_, puts, spurious,
                 pushed, gone, waited>>

\* put() notifies after its guard is gone.
NotifyNotEmpty(t) ==
  /\ at[t] = "notify"
  /\ Notify(notEmpty_, notEmpty_')
  /\ Goto(t, "outside")
  /\ UNCHANGED <<capacity_, block_, queue_, pmutex, holder, notFull_, puts, spurious,
                 pushed, gone, waited>>

\* take() notifies while its guard is there.
Pop(t) ==
  /\ at[t] = "pop"
  /\ queue_' = Tail(queue_)
  /\ gone' = gone + 1
  /\ Notify(notFull_, notFull_')
  /\ Unlock(t)
  /\ Goto(t, "outside")
  /\ UNCHANGED <<capacity_, block_, notEmpty_, puts, spurious, pushed, waited>>

QueueStep(t) ==
  \/ Enter(t) \/ CheckFull(t) \/ CheckEmpty(t) \/ Push(t) \/ NotifyNotEmpty(t) \/ Pop(t)
  \/ Wake(t)

\* No more put() calls: the consumers wait for ever.
NothingToDo ==
  /\ \A t \in Producers : puts[t] = MaxPuts[t] /\ at[t] = "outside"
  /\ \A t \in Consumers : at[t] = "waiting"
  /\ UNCHANGED bqVars

BlockingQueueNext == NothingToDo \/ \E t \in QueueThreads : QueueStep(t)

\* Threads run: none of them stops for ever where it can go on.  A thread is
\* not owed a wake-up without a notify().
BlockingQueueFairness ==
  \A t \in QueueThreads :
    /\ WF_bqVars(QueueStep(t) /\ at[t] # "waiting")
    /\ WF_bqVars(Wake(t) /\ t \notin notEmpty_ \cup notFull_)

BlockingQueueSpec ==
  BlockingQueueInit /\ [][BlockingQueueNext]_bqVars /\ BlockingQueueFairness

-----------------------------------------------------------------------------

Waiting == {t \in QueueThreads : at[t] = "waiting"}

\* The types of the queue's state.
BlockingQueueTypeOK ==
  /\ pmutex \in QueueThreads \cup {NoThread}
  /\ holder \in QueueThreads \cup {NoThread}
  /\ notEmpty_ \subseteq Consumers \cap Waiting
  /\ notFull_ \subseteq Producers \cap Waiting
  /\ at \in [QueueThreads -> {"outside", "check", "push", "pop", "notify", "waiting"}]

\* Whoever waits, wakes and overwrites between whose check and whose push or
\* pop: the queue never exceeds its capacity, nothing is taken from an empty
\* one, and it always holds, in order, exactly the elements put last.
QueueIsFifo ==
  /\ Len(queue_) <= capacity_
  /\ \A t \in QueueThreads : at[t] = "pop" => queue_ # <<>>
  /\ queue_ = [i \in 1..(pushed - gone) |-> gone + i]

\* isLockedByThisThread() is never true for a thread that has not got the mutex
\* (one that waits cannot ask), it is true for one that has locked it and not
\* waited since, and ~MutexLock()'s assertion holds once all threads are out of
\* their calls, although wait() moves the pthread mutex behind m_holder's back.
HolderIsTruthful ==
  /\ \A t \in QueueThreads \ Waiting : holder = t => pmutex = t
  /\ pmutex # NoThread /\ pmutex \notin waited => holder = pmutex
  /\ (\A t \in QueueThreads : at[t] = "outside") => holder = NoThread

\* One notify() per element, given before or after the mutex is freed, is
\* enough: in blocking mode every put() returns and every element is taken,
\* unless an overwriting put() dropped it.
EverythingGetsThrough ==
  block_ ~> [](queue_ = <<>> /\ \A t \in Producers : puts[t] = MaxPuts[t] /\ at[t] = "outside")

=============================================================================
