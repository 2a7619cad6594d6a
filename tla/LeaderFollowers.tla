--------------------------- MODULE LeaderFollowers ---------------------------
(***************************************************************************)
(* The leader/followers thread pool (LFThreadPool, ThreadPool, Event).  The *)
(* pool's threads take turns at the reactor: one is the leader and waits   *)
(* for an event, the others wait on a condition of their own until it      *)
(* makes one of them the leader.  A thread outside the pool may join it to *)
(* wait for an Event, with or without a timeout.                           *)
(*                                                                         *)
(* m_leaderLock guards leader and followers.  Only what waits for the lock *)
(* of the Event while it holds m_leaderLock takes two steps.               *)
(***************************************************************************)
EXTENDS Naturals, Sequences, FiniteSets, SequencesExt

CONSTANTS
    Static,     \* the threads of m_staticTask
    Dynamic,    \* the threads m_dynamicTask may start (a bound)
    Waiters,    \* threads outside the pool that join it for the Event
    NoThread,   \* m_currentLeader = 0, nobody holds a lock
    Completer,  \* the thread that changes the state of the Event
    MaxEvents,  \* bound: events of the reactor that are pending
    MaxDynamic  \* bound: argument of setMaxDynamicThreads

ASSUME ThreadAssumption ==
    /\ NoThread \notin Static \cup Dynamic \cup Waiters
    /\ MaxEvents \in Nat /\ MaxDynamic \in Nat

Workers == Static \cup Dynamic
Threads == Workers \cup Waiters

VARIABLES
    pc,        \* pc[t]: where thread t is
    leader,    \* m_currentLeader
    followers, \* m_followers, the owners
    signalled, \* threads whose condition has been signalled
    lock,      \* who holds m_leaderLock beyond a step
    evLock,    \* who holds the lock of the Event beyond a step
    state,     \* m_state of the Event
    listener,  \* m_listener
    expired,   \* the waiters' timeout is over
    events,    \* events pending in the reactor
    max,       \* m_maxDynamicTasks
    closing    \* "open", "waiting" in shutdown, "closed"

lfVars == <<leader, followers, signalled>>
eventVars == <<evLock, state, listener>>
poolVars == <<max, closing>>
vars == <<pc, lfVars, lock, eventVars, expired, events, poolVars>>

Init ==
    /\ pc = [t \in Threads |-> IF t \in Dynamic THEN "none" ELSE "top"]
    /\ leader = NoThread
    /\ followers = <<>>
    /\ signalled = {}
    /\ lock = NoThread
    /\ evLock = NoThread
    /\ state = "idle"
    /\ listener = NoThread
    /\ expired = FALSE
    /\ events = 0
    /\ max = 0
    /\ closing = "open"

-----------------------------------------------------------------------------
Successful == state = "success"
ErrorDetected == state = "error"

\* Event::keepWaiting, for a thread that waits for the Event
KeepWaiting == ~Successful \/ ~ErrorDetected

Goto(t, where) == pc' = [pc EXCEPT ![t] = where]

\* removeFollower
Without(t) == RemoveFirst(followers, t)

\* Mutant: the new leader is not signalled.
ElectSilently(t) ==
    IF leader # t THEN UNCHANGED lfVars
    ELSE IF followers = <<>>
    THEN leader' = NoThread /\ UNCHANGED <<followers, signalled>>
    ELSE /\ leader' = Head(followers)
         /\ followers' = Tail(followers)
         /\ UNCHANGED signalled

\* Mutant: the old leader stays when nobody follows.
ElectFollowerOnly(t) ==
    IF leader # t \/ followers = <<>> THEN UNCHANGED lfVars
    ELSE /\ leader' = Head(followers)
         /\ followers' = Tail(followers)
         /\ signalled' = signalled \cup {Head(followers)}

ElectNewLeader(t) ==
    IF leader # t THEN UNCHANGED lfVars
    ELSE IF followers = <<>>
    THEN leader' = NoThread /\ UNCHANGED <<followers, signalled>>
    ELSE /\ leader' = Head(followers)
         /\ followers' = Tail(followers)
         /\ signalled' = signalled \cup {Head(followers)}

-----------------------------------------------------------------------------
BecomeLeader(t) ==
    \/ /\ leader = NoThread
       /\ leader' = t
       /\ Goto(t, "leading")
       /\ UNCHANGED <<followers, signalled, lock>>
    \/ /\ leader # NoThread
       /\ followers' = Append(followers, t)
       /\ \/ t \in Workers /\ Goto(t, "waiting") /\ UNCHANGED lock
          \/ t \in Waiters /\ Goto(t, "setting") /\ lock' = t
       /\ UNCHANGED <<leader, signalled>>

Join(t) ==
    /\ pc[t] = "top" /\ lock = NoThread
    /\ t \in Workers => closing = "open"
    /\ t \in Waiters => ~expired
    /\ BecomeLeader(t)
    /\ UNCHANGED <<eventVars, expired, events, poolVars>>

\* Event::setListener; the signal of an event that is final already finds
\* nobody waiting
SetListener(t) ==
    /\ pc[t] = "setting" /\ evLock = NoThread
    /\ listener' = t
    /\ lock' = NoThread
    /\ Goto(t, "waiting")
    /\ UNCHANGED <<lfVars, evLock, state, expired, events, poolVars>>

\* A follower wakes up in becomeLeader.
Wake(t) ==
    /\ pc[t] = "waiting" /\ t \in signalled /\ lock = NoThread
    /\ signalled' = signalled \ {t}
    /\ IF t \in Waiters /\ ~KeepWaiting
       THEN followers' = Without(t) /\ Goto(t, "ending") /\ lock' = t
       ELSE IF leader \notin {NoThread, t}
       THEN UNCHANGED <<pc, followers, lock>>
       ELSE /\ UNCHANGED followers
            /\ IF t \in Workers THEN Goto(t, "leading") /\ UNCHANGED lock
               ELSE Goto(t, "removing") /\ lock' = t
    /\ UNCHANGED <<leader, eventVars, expired, events, poolVars>>

WaitTimeout(t) ==
    /\ pc[t] = "waiting" /\ t \in Waiters /\ expired /\ lock = NoThread
    /\ followers' = Without(t)
    /\ signalled' = signalled \ {t}
    /\ lock' = t
    /\ Goto(t, "leaving")
    /\ UNCHANGED <<leader, eventVars, expired, events, poolVars>>

\* Event::removeListener and the end of becomeLeader: as the leader, after a
\* timeout, or because the event is final
RemoveListener(t) ==
    /\ pc[t] \in {"removing", "leaving", "ending"} /\ evLock = NoThread
    /\ listener' = NoThread
    /\ lock' = NoThread
    /\ IF pc[t] = "removing" THEN Goto(t, "leading") /\ UNCHANGED lfVars
       ELSE /\ ElectNewLeader(t)
            /\ Goto(t, IF pc[t] = "ending" THEN "returned"
                       ELSE IF leader = t THEN "leading" ELSE "thrown")
    /\ UNCHANGED <<evLock, state, expired, events, poolVars>>

\* becomeLeader has returned 0.
Lead(t) ==
    /\ pc[t] = "leading" /\ lock = NoThread
    /\ IF t \in Waiters /\ ~KeepWaiting
       THEN ElectNewLeader(t) /\ Goto(t, "returned")
       ELSE UNCHANGED lfVars /\ Goto(t, "polling")
    /\ UNCHANGED <<lock, eventVars, expired, events, poolVars>>

\* handle_events: the upcall makes way for the next leader first
Dispatch(t) ==
    /\ pc[t] = "polling" /\ events > 0 /\ lock = NoThread
    /\ events' = events - 1
    /\ ElectNewLeader(t)
    /\ Goto(t, "upcall")
    /\ UNCHANGED <<lock, eventVars, expired, poolVars>>

\* handle_events returns, after an upcall or interrupted
Return(t) ==
    /\ pc[t] = "upcall" \/ (pc[t] = "polling" /\ events = 0)
    /\ lock = NoThread
    /\ ElectNewLeader(t)
    /\ Goto(t, IF t \in Workers \/ KeepWaiting THEN "top" ELSE "returned")
    /\ UNCHANGED <<lock, eventVars, expired, events, poolVars>>

\* svc_i's loop, or join's, ends.
Exit(t) ==
    /\ pc[t] = "top"
    /\ \/ t \in Workers /\ closing # "open" /\ Goto(t, "returned")
       \/ t \in Waiters /\ expired /\ Goto(t, "thrown")
    /\ UNCHANGED <<lfVars, lock, eventVars, expired, events, poolVars>>

-----------------------------------------------------------------------------
\* Event::stateChanged: the lock is still held when the listener is told.
Complete ==
    /\ state = "idle" /\ evLock = NoThread /\ Waiters # {}
    /\ evLock' = Completer
    /\ \E s \in {"success", "error"} : state' = s
    /\ UNCHANGED <<pc, lfVars, lock, listener, expired, events, poolVars>>

\* Follower::onEvent
Fire ==
    /\ evLock = Completer
    /\ evLock' = NoThread
    /\ listener # NoThread => lock = NoThread
    /\ signalled' = IF listener # NoThread /\ pc[listener] = "waiting"
                    THEN signalled \cup {listener} ELSE signalled
    /\ UNCHANGED <<pc, leader, followers, lock, state, listener, expired, events, poolVars>>

\* The waiters may have given a timeout.
Expire ==
    /\ Waiters # {} /\ ~expired
    /\ expired' = TRUE
    /\ UNCHANGED <<pc, lfVars, lock, eventVars, events, poolVars>>

Arrive ==
    /\ events < MaxEvents
    /\ events' = events + 1
    /\ UNCHANGED <<pc, lfVars, lock, eventVars, expired, poolVars>>

\* setMaxDynamicThreads: m_currentDynamicTasks is 0 for ever, because svc_i()
\* does not override svc_i(void* ), so each call starts as many threads anew
SetMaxDynamicThreads(n) ==
    /\ closing = "open"
    /\ max' = n
    /\ \E S \in SUBSET {t \in Dynamic : pc[t] = "none"} :
        /\ Cardinality(S) = n
        /\ pc' = [t \in Threads |-> IF t \in S THEN "top" ELSE pc[t]]
    /\ UNCHANGED <<lfVars, lock, eventVars, expired, events, closing>>

Shutdown ==
    /\ closing = "open"
    /\ closing' = "waiting"
    /\ UNCHANGED <<pc, lfVars, lock, eventVars, expired, events, max>>

ShutdownDone ==
    /\ closing = "waiting"
    /\ \A t \in Workers : pc[t] \in {"none", "returned"}
    /\ closing' = "closed"
    /\ UNCHANGED <<pc, lfVars, lock, eventVars, expired, events, max>>

ThreadStep(t) ==
    \/ Join(t) \/ SetListener(t) \/ Wake(t) \/ WaitTimeout(t) \/ RemoveListener(t)
    \/ Lead(t) \/ Dispatch(t) \/ Return(t) \/ Exit(t)

Next ==
    \/ \E t \in Threads : ThreadStep(t)
    \/ Complete \/ Fire \/ Expire \/ Arrive
    \/ \E n \in 1 .. MaxDynamic : SetMaxDynamicThreads(n)
    \/ Shutdown \/ ShutdownDone

Spec == Init /\ [][Next]_vars

\* Threads run, and events keep coming.  Whether a thread in handle_events is
\* interrupted is nobody's promise.
Fairness ==
    /\ \A t \in Threads : WF_vars(ThreadStep(t) /\ (pc[t] = "polling" => events > 0))
    /\ WF_vars(Fire \/ ShutdownDone)
    /\ WF_vars(Arrive)

FairSpec == Spec /\ Fairness

-----------------------------------------------------------------------------
(***************************************************************************)
(* The places of the threads, and the followers: nobody is twice in the    *)
(* list (addFollower, removeFollower).                                     *)
(***************************************************************************)
TypeOK ==
    /\ pc \in [Threads -> {"none", "top", "setting", "waiting", "removing", "leaving", "ending",
                           "leading", "polling", "upcall", "returned", "thrown"}]
    /\ leader \in Threads \cup {NoThread}
    /\ followers \in Seq(Threads)
    /\ \A i, j \in DOMAIN followers : followers[i] = followers[j] => i = j
    /\ signalled \subseteq Threads
    /\ lock \in Threads \cup {NoThread}
    /\ events \in 0 .. MaxEvents

(***************************************************************************)
(* Only the leader waits at the reactor: becomeLeader returns when this    *)
(* thread is the leader (join).  A timeout defeats it: the follower that   *)
(* was elected while it timed out elects another and goes on all the same. *)
(***************************************************************************)
HandlesAsLeader == \A t \in Threads : pc[t] = "polling" => leader = t \/ expired

(***************************************************************************)
(* Leadership is never left with a thread that is away: the leader is at   *)
(* the reactor, on its way there or has been signalled, and followers wait *)
(* only behind a leader (becomeLeader, electNewLeader and the timeout of a *)
(* follower that has just been elected).                                   *)
(***************************************************************************)
LeaderIsComing ==
    /\ TypeOK /\ HandlesAsLeader
    /\ followers # <<>> => leader # NoThread
    /\ leader # NoThread =>
        \/ pc[leader] \in {"leading", "polling", "removing", "leaving", "ending"}
        \/ pc[leader] = "waiting" /\ (leader \in signalled \/ expired)

\* The lock inversion: a waiter holds m_leaderLock and wants the lock of the
\* Event, whose state changes under that lock and is told to a listener that
\* wants m_leaderLock.
Inverted == evLock = Completer /\ lock # NoThread /\ listener # NoThread

(***************************************************************************)
(* A pending event is handled: however the threads come and go, some       *)
(* thread is at the reactor again and again until the pool is shut down.   *)
(* ThreadPool::shutdown returns: every worker comes back from join and     *)
(* sees m_close, the followers included, as long as events keep coming.    *)
(* Excepted is that the two locks have been taken in opposite orders.      *)
(***************************************************************************)
EventsHandled ==
    /\ []<>(events < MaxEvents \/ closing # "open" \/ Inverted)
    /\ []<>(closing # "waiting" \/ Inverted)
=============================================================================
