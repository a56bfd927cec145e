----------------------------- MODULE EventLoop -----------------------------
(***************************************************************************)
(* The event loop of src/net: EventLoop::Run on the loop thread, the       *)
(* thread-safe Execute / ScheduleLater / ScheduleRepeatedly / Cancel       *)
(* called from other threads, the self-pipe notifier (PipeObject) and the  *)
(* timer table of LibeventReactor.                                         *)
(*                                                                         *)
(* Closures are abstracted to what they do to the loop's state: a user     *)
(* task of thread t with sequence number n, the arming closure posted by   *)
(* an off-thread Schedule*, and the closure posted by an off-thread        *)
(* Cancel.  Code that runs on the loop thread (a user task, a timer        *)
(* callback) may itself call the loop's API in-loop: schedule a timer, or  *)
(* cancel a timer whose id it read from shared state (as the destructor of *)
(* TcpObject does with idle_timer_).  Time is abstract: an armed timer may *)
(* fire in any poll.                                                       *)
(***************************************************************************)
EXTENDS Naturals, Sequences, SequencesExt, FiniteSets

CONSTANTS
    Threads,      \* threads other than the loop thread that call the API
    MaxTasks,     \* user tasks each thread posts with Execute
    MaxTimers,    \* timer ids handed out by timerid_generator_
    MaxFires,     \* fires of one timer the model explores
    PipeCap,      \* bytes the notifier pipe holds before write() fails
    LoopCancels,  \* in-loop code cancels timers by ids read from shared state
    Waiters,      \* threads that block on the future of each task they post
    NoHolder      \* model value: task_mutex_ is free

ASSUME /\ Threads # {} /\ NoHolder \notin Threads /\ Waiters \subseteq Threads
       /\ MaxTasks \in Nat /\ MaxTimers \in Nat /\ MaxFires \in Nat \ {0}
       /\ PipeCap \in Nat \ {0} /\ LoopCancels \in BOOLEAN

TimerIds == 1 .. MaxTimers

VARIABLES
    running,    \* EventLoop::running_
    lpc,        \* where the loop thread is in Run(): "top", "lock", "drain",
                \* "poll", "exited"
    funcs,      \* Run()'s local vector swapped out of tasks_, being executed
    tasks,      \* EventLoop::tasks_, the inbox guarded by task_mutex_
    mutex,      \* holder of task_mutex_
    tpc,        \* per thread: "idle", "wait" (blocked on the mutex), "locked",
                \* "get" (blocked in fut.get() until its task has run)
    pend,       \* per thread: the closure it is posting
    pipe,       \* bytes in the notifier pipe
    timers,     \* ids in LibeventReactor::timers_ (armed timers)
    repeat,     \* Timer::repeat of each allocated id
    timerGen,   \* EventLoop::timerid_generator_
    mine,       \* ids each thread got back from its own Schedule* calls
    cancelled,  \* ids some Cancel has been carried out for in the reactor
    fires,      \* times each timer has fired
    sent,       \* user tasks each thread has posted
    done        \* sequence numbers of each thread's tasks, in execution order

vars == <<running, lpc, funcs, tasks, mutex, tpc, pend, pipe, timers, repeat,
          timerGen, mine, cancelled, fires, sent, done>>

Task == [op : {"user"}, from : Threads, seq : 1 .. MaxTasks]
          \cup [op : {"arm"}, id : TimerIds]
          \cup [op : {"cancel"}, id : TimerIds]
NoTask == [op |-> "none"]

TypeOK ==
    /\ running \in BOOLEAN
    /\ lpc \in {"top", "lock", "drain", "poll", "exited"}
    /\ funcs \in Seq(Task) /\ tasks \in Seq(Task)
    /\ mutex \in Threads \cup {NoHolder}
    /\ tpc \in [Threads -> {"idle", "wait", "locked", "get"}]
    /\ pend \in [Threads -> Task \cup {NoTask}]
    /\ pipe \in 0 .. PipeCap
    /\ timers \subseteq TimerIds /\ repeat \in [TimerIds -> BOOLEAN]
    /\ timerGen \in 0 .. MaxTimers
    /\ mine \in [Threads -> SUBSET TimerIds]
    /\ cancelled \subseteq TimerIds
    /\ fires \in [TimerIds -> 0 .. MaxFires]
    /\ sent \in [Threads -> 0 .. MaxTasks]
    /\ done \in [Threads -> Seq(1 .. MaxTasks)]

Init ==
    /\ running = TRUE
    /\ lpc = "top"
    /\ funcs = <<>> /\ tasks = <<>>
    /\ mutex = NoHolder
    /\ tpc = [t \in Threads |-> "idle"]
    /\ pend = [t \in Threads |-> NoTask]
    /\ pipe = 0
    /\ timers = {} /\ repeat = [i \in TimerIds |-> FALSE]
    /\ timerGen = 0
    /\ mine = [t \in Threads |-> {}]
    /\ cancelled = {}
    /\ fires = [i \in TimerIds |-> 0]
    /\ sent = [t \in Threads |-> 0]
    /\ done = [t \in Threads |-> <<>>]

(* Fault variant of Notify: the write is assumed never to fail.          *)
NotifyUnbounded(p) == p + 1

(* PipeObject::Notify: write one byte; a full non-blocking pipe drops it. *)
Notify(p) == IF p < PipeCap THEN p + 1 ELSE p

(***************************************************************************)
(* Off-thread calls.  Each posts one closure through Execute: the caller   *)
(* first blocks on task_mutex_, then appends, notifies and unlocks.        *)
(***************************************************************************)
ExecuteUser(t) ==
    /\ tpc[t] = "idle" /\ sent[t] < MaxTasks
    /\ pend' = [pend EXCEPT ![t] = [op |-> "user", from |-> t, seq |-> sent[t] + 1]]
    /\ sent' = [sent EXCEPT ![t] = @ + 1]
    /\ tpc' = [tpc EXCEPT ![t] = "wait"]
    /\ UNCHANGED <<running, lpc, funcs, tasks, mutex, pipe, timers, repeat,
                   timerGen, mine, cancelled, fires, done>>

(* ScheduleLater / ScheduleRepeatedly off the loop thread: the id is taken *)
(* from the generator at once and returned; arming is posted.             *)
Schedule(t, rep) ==
    LET id == timerGen + 1 IN
    /\ tpc[t] = "idle" /\ timerGen < MaxTimers
    /\ timerGen' = id
    /\ repeat' = [repeat EXCEPT ![id] = rep]
    /\ mine' = [mine EXCEPT ![t] = @ \cup {id}]
    /\ pend' = [pend EXCEPT ![t] = [op |-> "arm", id |-> id]]
    /\ tpc' = [tpc EXCEPT ![t] = "wait"]
    /\ UNCHANGED <<running, lpc, funcs, tasks, mutex, pipe, timers, cancelled,
                   fires, sent, done>>

(* Cancel off the loop thread, of an id the thread scheduled itself; the   *)
(* thread cancels each of its timers at most once.                         *)
Cancel(t, id) ==
    /\ tpc[t] = "idle" /\ id \in mine[t]
    /\ mine' = [mine EXCEPT ![t] = @ \ {id}]
    /\ pend' = [pend EXCEPT ![t] = [op |-> "cancel", id |-> id]]
    /\ tpc' = [tpc EXCEPT ![t] = "wait"]
    /\ UNCHANGED <<running, lpc, funcs, tasks, mutex, pipe, timers, repeat,
                   timerGen, cancelled, fires, sent, done>>

(* What the poster does once Execute returns: ActiveClose(sync=true) off  *)
(* the loop calls fut.get(), which blocks until the packaged_task has run. *)
FutureGet(t) == IF t \in Waiters /\ pend[t].op = "user" THEN "get" ELSE "idle"

(* Execute: std::unique_lock<std::mutex> guard(task_mutex_)                *)
Lock(t) ==
    /\ tpc[t] = "wait" /\ mutex = NoHolder
    /\ mutex' = t
    /\ tpc' = [tpc EXCEPT ![t] = "locked"]
    /\ UNCHANGED <<running, lpc, funcs, tasks, pend, pipe, timers, repeat,
                   timerGen, mine, cancelled, fires, sent, done>>

(* Fault variant of Post: the closure is put at the front of tasks_.      *)
PostFront(t) ==
    /\ tpc[t] = "locked"
    /\ tasks' = <<pend[t]>> \o tasks
    /\ pipe' = Notify(pipe)
    /\ mutex' = NoHolder
    /\ tpc' = [tpc EXCEPT ![t] = FutureGet(t)]
    /\ pend' = [pend EXCEPT ![t] = NoTask]
    /\ UNCHANGED <<running, lpc, funcs, timers, repeat, timerGen, mine,
                   cancelled, fires, sent, done>>

(* Execute: tasks_.emplace_back(...); notifier_->Notify(); unlock.         *)
Post(t) ==
    /\ tpc[t] = "locked"
    /\ tasks' = Append(tasks, pend[t])
    /\ pipe' = Notify(pipe)
    /\ mutex' = NoHolder
    /\ tpc' = [tpc EXCEPT ![t] = FutureGet(t)]
    /\ pend' = [pend EXCEPT ![t] = NoTask]
    /\ UNCHANGED <<running, lpc, funcs, timers, repeat, timerGen, mine,
                   cancelled, fires, sent, done>>

(* EventLoop::Stop, from a signal handler or another thread.               *)
Stop ==
    /\ running
    /\ running' = FALSE
    /\ pipe' = Notify(pipe)
    /\ UNCHANGED <<lpc, funcs, tasks, mutex, tpc, pend, timers, repeat,
                   timerGen, mine, cancelled, fires, sent, done>>
-----------------------------------------------------------------------------
(***************************************************************************)
(* Code on the loop thread (a user task or a timer callback) may call the  *)
(* API in-loop: ScheduleLater/ScheduleRepeatedly arm the reactor timer at  *)
(* once, Cancel erases it at once.                                         *)
(***************************************************************************)
LoopEffects ==
    {[op |-> "none"]}
    \cup (IF timerGen < MaxTimers THEN [op : {"sched"}, rep : BOOLEAN] ELSE {})
    \cup (IF LoopCancels THEN [op : {"cancel"}, id : 1 .. timerGen] ELSE {})

InLoopTimers(e) ==
    CASE e.op = "sched"  -> timers \cup {timerGen + 1}
      [] e.op = "cancel" -> timers \ {e.id}
      [] OTHER           -> timers

InLoopRest(e) ==
    /\ timerGen' = IF e.op = "sched" THEN timerGen + 1 ELSE timerGen
    /\ repeat' = IF e.op = "sched" THEN [repeat EXCEPT ![timerGen + 1] = e.rep]
                                  ELSE repeat
    /\ cancelled' = IF e.op = "cancel" THEN cancelled \cup {e.id} ELSE cancelled

(***************************************************************************)
(* EventLoop::Run                                                          *)
(***************************************************************************)
(* while (running_) finds the loop running; a Stop from here on still    *)
(* lets this pass of the loop body run.                                    *)
LoopTest ==
    /\ lpc = "top" /\ running
    /\ lpc' = "lock"
    /\ UNCHANGED <<running, funcs, tasks, mutex, tpc, pend, pipe, timers, repeat,
                   timerGen, mine, cancelled, fires, sent, done>>

(* Fault variants of TryLockOk: the swapped tasks run back to front; the   *)
(* inbox is cleared instead of swapped.                                    *)
TryLockOkReversed ==
    /\ lpc = "lock" /\ mutex = NoHolder
    /\ funcs' = Reverse(tasks) /\ tasks' = <<>>
    /\ lpc' = "drain"
    /\ UNCHANGED <<running, mutex, tpc, pend, pipe, timers, repeat, timerGen,
                   mine, cancelled, fires, sent, done>>

TryLockOkCleared ==
    /\ lpc = "lock" /\ mutex = NoHolder
    /\ funcs' = <<>> /\ tasks' = <<>>
    /\ lpc' = "drain"
    /\ UNCHANGED <<running, mutex, tpc, pend, pipe, timers, repeat, timerGen,
                   mine, cancelled, fires, sent, done>>

(* task_mutex_.try_lock() succeeds: swap the inbox out and unlock.         *)
TryLockOk ==
    /\ lpc = "lock" /\ mutex = NoHolder
    /\ funcs' = tasks /\ tasks' = <<>>
    /\ lpc' = "drain"
    /\ UNCHANGED <<running, mutex, tpc, pend, pipe, timers, repeat, timerGen,
                   mine, cancelled, fires, sent, done>>

(* try_lock() fails because a poster holds the mutex: go straight to Poll. *)
TryLockBusy ==
    /\ lpc = "lock" /\ mutex # NoHolder
    /\ lpc' = "poll"
    /\ UNCHANGED <<running, funcs, tasks, mutex, tpc, pend, pipe, timers, repeat,
                   timerGen, mine, cancelled, fires, sent, done>>

(* f() for a user task; its body may call the API in-loop.  The packaged  *)
(* task then sets the future, which releases a poster blocked in get().    *)
RunUser ==
    /\ lpc = "drain" /\ funcs # <<>> /\ Head(funcs).op = "user"
    /\ LET f == Head(funcs) IN
          /\ done' = [done EXCEPT ![f.from] = Append(@, f.seq)]
          /\ tpc' = IF tpc[f.from] = "get" THEN [tpc EXCEPT ![f.from] = "idle"] ELSE tpc
    /\ funcs' = Tail(funcs)
    /\ \E e \in LoopEffects : timers' = InLoopTimers(e) /\ InLoopRest(e)
    /\ UNCHANGED <<running, lpc, tasks, mutex, pend, pipe, mine, fires, sent>>

(* f() for a posted arming closure: reactor_->Schedule*(id, ...), which    *)
(* stores timers_[id].                                                     *)
RunArm ==
    /\ lpc = "drain" /\ funcs # <<>> /\ Head(funcs).op = "arm"
    /\ timers' = timers \cup {Head(funcs).id}
    /\ funcs' = Tail(funcs)
    /\ UNCHANGED <<running, lpc, tasks, mutex, tpc, pend, pipe, repeat, timerGen,
                   mine, cancelled, fires, sent, done>>

(* f() for a posted Cancel closure: reactor_->Cancel(id) erases timers_[id] *)
(* if present; the future gets the result.                                 *)
RunCancel ==
    /\ lpc = "drain" /\ funcs # <<>> /\ Head(funcs).op = "cancel"
    /\ timers' = timers \ {Head(funcs).id}
    /\ cancelled' = cancelled \cup {Head(funcs).id}
    /\ funcs' = Tail(funcs)
    /\ UNCHANGED <<running, lpc, tasks, mutex, tpc, pend, pipe, repeat, timerGen,
                   mine, fires, sent, done>>

DrainDone ==
    /\ lpc = "drain" /\ funcs = <<>>
    /\ lpc' = "poll"
    /\ UNCHANGED <<running, funcs, tasks, mutex, tpc, pend, pipe, timers, repeat,
                   timerGen, mine, cancelled, fires, sent, done>>

(* In reactor_->Poll(): LibeventReactor::TimerCallback runs the callback,  *)
(* then a one-shot timer cancels itself.                                   *)
TimerFires(i) ==
    /\ lpc = "poll" /\ i \in timers /\ fires[i] < MaxFires
    /\ fires' = [fires EXCEPT ![i] = @ + 1]
    /\ \E e \in LoopEffects :
          /\ timers' = IF repeat[i] THEN InLoopTimers(e) ELSE InLoopTimers(e) \ {i}
          /\ InLoopRest(e)
    /\ UNCHANGED <<running, lpc, funcs, tasks, mutex, tpc, pend, pipe, mine, sent, done>>

(* In reactor_->Poll(): the notifier is readable; PipeObject::HandleReadEvent *)
(* reads one byte.                                                         *)
NotifierRead ==
    /\ lpc = "poll" /\ pipe > 0
    /\ pipe' = pipe - 1
    /\ UNCHANGED <<running, lpc, funcs, tasks, mutex, tpc, pend, timers, repeat,
                   timerGen, mine, cancelled, fires, sent, done>>

(* event_base_loop(EVLOOP_ONCE) returns; the 10 ms wakeup event bounds the *)
(* wait, so it can always return.                                          *)
PollReturn ==
    /\ lpc = "poll"
    /\ lpc' = "top"
    /\ UNCHANGED <<running, funcs, tasks, mutex, tpc, pend, pipe, timers, repeat,
                   timerGen, mine, cancelled, fires, sent, done>>

(* while (running_) ends: unregister everything and reset the reactor,     *)
(* which frees every timer.  Tasks still in tasks_ stay there.             *)
RunExit ==
    /\ lpc = "top" /\ ~running
    /\ lpc' = "exited"
    /\ timers' = {}
    /\ UNCHANGED <<running, funcs, tasks, mutex, tpc, pend, pipe, repeat,
                   timerGen, mine, cancelled, fires, sent, done>>

LoopStep ==
    LoopTest \/ TryLockOk \/ TryLockBusy \/ RunUser \/ RunArm \/ RunCancel \/ DrainDone
    \/ PollReturn \/ RunExit

Next ==
    \/ \E t \in Threads :
          \/ ExecuteUser(t) \/ Schedule(t, TRUE) \/ Schedule(t, FALSE)
          \/ \E id \in TimerIds : Cancel(t, id)
          \/ Lock(t) \/ Post(t)
    \/ Stop
    \/ LoopStep
    \/ \E i \in TimerIds : TimerFires(i)
    \/ NotifierRead

(* The loop thread never blocks except in Poll, which returns within the   *)
(* 10 ms wakeup; a poster holding task_mutex_ releases it.  Callers and    *)
(* Stop are the environment and are not fair.                              *)
Fairness ==
    /\ WF_vars(LoopStep)
    /\ \A t \in Threads : WF_vars(Lock(t)) /\ WF_vars(Post(t))

Spec == Init /\ [][Next]_vars /\ Fairness

-----------------------------------------------------------------------------
(* A closure that arms timer id is on its way to the reactor.              *)
ArmInFlight(id) ==
    [op |-> "arm", id |-> id] \in ToSet(tasks \o funcs) \cup {pend[t] : t \in Threads}

(* Cancellation finality (spec section 8): once a Cancel of a timer has    *)
(* been carried out on the loop, the timer is not armed and no arming of   *)
(* it is still on its way, so it can never fire again.  Relies on the      *)
(* FIFO inbox of Execute and on Run executing the swapped tasks in order.  *)
CancelIsFinal ==
    \A id \in cancelled : id \notin timers /\ ~ArmInFlight(id)

(* Tasks one thread posts with Execute run on the loop in the order that   *)
(* thread posted them (Execute appends, Run swaps and runs front to back). *)
TaskOrderPerThread ==
    \A t \in Threads : done[t] = [k \in 1 .. Len(done[t]) |-> k]

(* Every task posted with Execute eventually runs on the loop, unless the  *)
(* loop has been stopped: try_lock failures and dropped notifier bytes     *)
(* only delay it to a later iteration.                                     *)
PostedTaskRuns ==
    \A t \in Threads : \A n \in 1 .. MaxTasks :
        (sent[t] >= n /\ tpc[t] \in {"idle", "get"}) ~> (Len(done[t]) >= n \/ ~running)

(* A task of thread t is still to run, in the inbox or the swapped batch. *)
Pending(t) == \E k \in 1 .. Len(tasks \o funcs) :
                 (tasks \o funcs)[k].op = "user" /\ (tasks \o funcs)[k].from = t

(* ActiveClose(sync=true) off the loop returns: a thread blocked in       *)
(* fut.get() is released, and the only way it stays blocked is the one    *)
(* Run allows, a loop that exits with the closure still in tasks_ (whose  *)
(* future is broken only when the EventLoop is destroyed).                 *)
SyncCloseReturns ==
    \A t \in Waiters :
        tpc[t] = "get" ~> (tpc[t] = "idle" \/ (lpc = "exited" /\ Pending(t)))

(* EventLoop implements the Mailbox promise: the queue is the batch being *)
(* run followed by the inbox, a closure joins it when Post appends under   *)
(* the mutex, and Run's phase gives the loop's state.                      *)
MailboxSpec == INSTANCE Mailbox
    WITH Items <- Task,
         queue <- funcs \o tasks,
         lstate <- IF lpc = "exited" THEN "exited"
                   ELSE IF running THEN "running" ELSE "stopping"

(* Execute behaves as a FIFO mailbox that is served until Stop, with       *)
(* try_lock, the swap and the notifier as implementation detail.           *)
MailboxRefined == MailboxSpec!Spec

=============================================================================
