--------------------------- MODULE StreamChannel ---------------------------
(***************************************************************************)
(* The closing of a stream channel.  A channel that has finished its       *)
(* handshake is added to a ChannelManager and handed to the reactor; from  *)
(* then on the reactor's thread, threads that send on it, threads that     *)
(* remove it from the manager and the thread that closes the manager all   *)
(* may close it.  AbstractStreamChannel::close and ChannelManager::remove  *)
(* call each other, each under (or after) a recursive lock of its own.     *)
(*                                                                         *)
(* A thread is its stack of calls: a sequence of places, the innermost     *)
(* call first.  Writes are synchronous (m_asyncWrite is false), as the     *)
(* program uses the channels it keeps in managers.                         *)
(***************************************************************************)
EXTENDS Naturals, Sequences, FiniteSets

CONSTANTS
    Owner,      \* the thread that does the handshake and calls add
    Closers,    \* threads that call close: the reactor, a handler
    Senders,    \* threads that call send
    Removers,   \* threads that call ChannelManager::remove
    Enders      \* threads that call ChannelManager::close

VARIABLES
    stack,            \* the calls of every thread
    todo,             \* the threads that have not made their call yet
    lock,             \* m_lock of the channel and of the manager
    m_close,
    m_closeListener,  \* TRUE when it is the manager
    bound,            \* the channel is in m_map
    peerOpen,         \* the socket
    told,             \* calls of fireOnClose for the channel
    dropped           \* m_map.close() has dropped the channel

vars == <<stack, todo, lock, m_close, m_closeListener, bound, peerOpen, told, dropped>>

-----------------------------------------------------------------------------
Others  == Closers \cup Senders \cup Removers \cup Enders
Threads == {Owner} \cup Others

Locks == {"channel", "manager"}
Free(l, t) == lock[l].depth = 0 \/ lock[l].owner = t
Take(l, t) == [lock EXCEPT ![l] = [owner |-> t, depth |-> @.depth + 1]]
Drop(l)    == [lock EXCEPT ![l].depth = @ - 1]

At(t, place) == stack[t] # <<>> /\ Head(stack[t]) = place
GoTo(t, places) == stack' = [stack EXCEPT ![t] = places \o Tail(@)]
Return(t) == GoTo(t, <<>>)

Init ==
    /\ stack \in [Threads -> {<<>>, <<"add">>, <<"close", "add">>}]
    /\ \A t \in Threads : (t = Owner) <=> (stack[t] # <<>>)
    /\ todo = Others
    /\ lock = [l \in Locks |-> [owner |-> Owner, depth |-> 0]]
    /\ m_close = FALSE
    /\ m_closeListener = FALSE
    /\ bound = FALSE
    /\ peerOpen = TRUE
    /\ told = 0
    /\ dropped = FALSE

\* Nobody but its owner knows the channel before add has returned.
Call(t) ==
    /\ t \in todo
    /\ stack[Owner] = <<>>
    /\ todo' = todo \ {t}
    /\ stack' = [stack EXCEPT ![t] =
            CASE t \in Closers  -> <<"close">>
              [] t \in Senders  -> <<"send">>
              [] t \in Removers -> <<"remove">>
              [] OTHER          -> <<"closeAll">>]
    /\ UNCHANGED <<lock, m_close, m_closeListener, bound, peerOpen, told, dropped>>

-----------------------------------------------------------------------------
\* AbstractStreamChannel::close.

\* The test, under the lock, which is released at once.
CloseTest(t) ==
    /\ At(t, "close")
    /\ Free("channel", t)
    /\ GoTo(t, IF m_close THEN <<>> ELSE <<"close:set">>)
    /\ UNCHANGED <<todo, lock, m_close, m_closeListener, bound, peerOpen, told, dropped>>

CloseSet(t) ==
    /\ At(t, "close:set")
    /\ m_close' = TRUE
    /\ GoTo(t, <<"close:peer">>)
    /\ UNCHANGED <<todo, lock, m_closeListener, bound, peerOpen, told, dropped>>

\* remove_handler and m_peer.close().
ClosePeer(t) ==
    /\ At(t, "close:peer")
    /\ peerOpen' = FALSE
    /\ GoTo(t, <<"close:call">>)
    /\ UNCHANGED <<todo, lock, m_close, m_closeListener, bound, told, dropped>>

\* The listener's onClose, which is the manager's remove.
\* Mutant: the lock is held around the call.
CloseCallLocked(t) ==
    /\ At(t, "close:call")
    /\ Free("channel", t)
    /\ lock' = Take("channel", t)
    /\ GoTo(t, IF m_closeListener THEN <<"remove", "unlock">> ELSE <<"unlock">>)
    /\ UNCHANGED <<todo, m_close, m_closeListener, bound, peerOpen, told, dropped>>
CloseCall(t) ==
    /\ At(t, "close:call")
    /\ GoTo(t, IF m_closeListener THEN <<"remove">> ELSE <<>>)
    /\ UNCHANGED <<todo, lock, m_close, m_closeListener, bound, peerOpen, told, dropped>>

-----------------------------------------------------------------------------
\* AbstractStreamChannel::send on a synchronous channel: the lock is held
\* until it returns, the calls of close included (sendSync releases its own
\* hold of the recursive lock only).

Send(t) ==
    /\ At(t, "send")
    /\ Free("channel", t)
    /\ IF m_close
       THEN Return(t) /\ UNCHANGED lock
       ELSE GoTo(t, <<"sendSync">>) /\ lock' = Take("channel", t)
    /\ UNCHANGED <<todo, m_close, m_closeListener, bound, peerOpen, told, dropped>>

\* The whole message is written, or the write fails or times out.
SendSync(t) ==
    /\ At(t, "sendSync")
    /\ \/ peerOpen /\ GoTo(t, <<"unlock">>)
       \/ GoTo(t, <<"close", "close", "unlock">>)
    /\ UNCHANGED <<todo, lock, m_close, m_closeListener, bound, peerOpen, told, dropped>>

Unlock(t) ==
    /\ At(t, "unlock")
    /\ lock' = Drop("channel")
    /\ Return(t)
    /\ UNCHANGED <<todo, m_close, m_closeListener, bound, peerOpen, told, dropped>>

-----------------------------------------------------------------------------
\* ChannelManager.

\* bind and setCloseListener, which fails on a closed channel.
Add(t) ==
    /\ At(t, "add")
    /\ Free("manager", t) /\ Free("channel", t)
    /\ bound' = TRUE
    /\ IF m_close
       THEN /\ lock' = Take("manager", t)
            /\ GoTo(t, <<"remove", "release">>)
            /\ UNCHANGED m_closeListener
       ELSE /\ m_closeListener' = TRUE
            /\ Return(t)
            /\ UNCHANGED lock
    /\ UNCHANGED <<todo, m_close, peerOpen, told, dropped>>

\* unbind: only the thread that finds the channel in the map goes on.
\* Mutant: the result of unbind is ignored.
RemoveAnyway(t) ==
    /\ At(t, "remove")
    /\ Free("manager", t)
    /\ bound' = FALSE
    /\ lock' = Take("manager", t)
    /\ GoTo(t, <<"remove:channel">>)
    /\ UNCHANGED <<todo, m_close, m_closeListener, peerOpen, told, dropped>>
Remove(t) ==
    /\ At(t, "remove")
    /\ Free("manager", t)
    /\ IF bound
       THEN /\ bound' = FALSE
            /\ lock' = Take("manager", t)
            /\ GoTo(t, <<"remove:channel">>)
       ELSE Return(t) /\ UNCHANGED <<bound, lock>>
    /\ UNCHANGED <<todo, m_close, m_closeListener, peerOpen, told, dropped>>

\* setCloseListener(0) needs the channel's lock and changes nothing: it is
\* refused while a listener is set.  close() then finds the listener still set.
RemoveChannel(t) ==
    /\ At(t, "remove:channel")
    /\ Free("channel", t)
    /\ GoTo(t, <<"close", "remove:fire">>)
    /\ UNCHANGED <<todo, lock, m_close, m_closeListener, bound, peerOpen, told, dropped>>

RemoveFire(t) ==
    /\ At(t, "remove:fire")
    /\ told' = told + 1
    /\ lock' = Drop("manager")
    /\ Return(t)
    /\ UNCHANGED <<todo, m_close, m_closeListener, bound, peerOpen, dropped>>

\* add returns.
Release(t) ==
    /\ At(t, "release")
    /\ lock' = Drop("manager")
    /\ Return(t)
    /\ UNCHANGED <<todo, m_close, m_closeListener, bound, peerOpen, told, dropped>>

\* ChannelManager::close closes every channel of the map, then the map.
CloseAll(t) ==
    /\ At(t, "closeAll")
    /\ Free("manager", t)
    /\ lock' = Take("manager", t)
    /\ GoTo(t, IF bound THEN <<"close", "closeMap">> ELSE <<"closeMap">>)
    /\ UNCHANGED <<todo, m_close, m_closeListener, bound, peerOpen, told, dropped>>

CloseMap(t) ==
    /\ At(t, "closeMap")
    /\ dropped' = (dropped \/ bound)
    /\ bound' = FALSE
    /\ lock' = Drop("manager")
    /\ Return(t)
    /\ UNCHANGED <<todo, m_close, m_closeListener, peerOpen, told>>

-----------------------------------------------------------------------------
Step(t) ==
    \/ CloseTest(t) \/ CloseSet(t) \/ ClosePeer(t) \/ CloseCall(t)
    \/ Send(t) \/ SendSync(t) \/ Unlock(t)
    \/ Add(t) \/ Remove(t) \/ RemoveChannel(t) \/ RemoveFire(t) \/ Release(t)
    \/ CloseAll(t) \/ CloseMap(t)

Quiet == \A t \in Threads : stack[t] = <<>>

Next == \E t \in Threads : Call(t) \/ Step(t)

Spec == Init /\ [][Next]_vars

\* Threads run: while some can take their next step, one of them does.
Fairness == WF_vars(\E t \in Threads : Step(t))

-----------------------------------------------------------------------------
(***************************************************************************)
(* Type invariant: the state of the channel, of its manager and the        *)
(* threads' stacks.                                                        *)
(***************************************************************************)
Places == {"close", "close:set", "close:peer", "close:call", "send", "sendSync",
           "unlock", "add", "remove", "remove:channel", "remove:fire", "release",
           "closeAll", "closeMap"}
TypeOK ==
    /\ stack \in [Threads -> Seq(Places)]
    /\ todo \subseteq Others
    /\ lock \in [Locks -> [owner : Threads, depth : Nat]]
    /\ {m_close, m_closeListener, bound, peerOpen, dropped} \subseteq BOOLEAN
    /\ told \in Nat

(***************************************************************************)
(* Two closers may both pass the test of m_close (close releases the lock  *)
(* before it sets it) and both call the listener; still the manager's      *)
(* owner hears of the channel once, because only one unbind succeeds.      *)
(***************************************************************************)
ToldOnce == told <= 1

(***************************************************************************)
(* When no call is in progress a closed channel has left the map, and its  *)
(* manager's owner has been told - unless the map was closed while another *)
(* thread was between its test of m_close and its call of the listener -   *)
(* and a channel that has been forgotten is closed: no socket is leaked.   *)
(***************************************************************************)
ClosedIsForgotten ==
    Quiet => /\ m_close => ~bound /\ (told = 1 \/ dropped)
             /\ told > 0 \/ dropped => m_close /\ ~peerOpen

\* Threads that block each other for good.
WaitsFor(t, l) ==
    /\ ~Free(l, t)
    /\ \/ l = "channel" /\ (At(t, "close") \/ At(t, "remove:channel") \/ At(t, "send"))
       \/ l = "manager" /\ (At(t, "remove") \/ At(t, "closeAll") \/ At(t, "add"))
Embraced(t, u) ==
    /\ t # u
    /\ WaitsFor(t, "manager") /\ lock["manager"].owner = u
    /\ WaitsFor(u, "channel") /\ lock["channel"].owner = t

(***************************************************************************)
(* Every call of close, send, remove and the manager's close returns: the  *)
(* nested calls of close and remove end.  Threads block each other for good *)
(* in one way only: a failing send, which closes the channel under the     *)
(* channel's lock, waits for the manager, whose holder waits for the       *)
(* channel.                                                                *)
(***************************************************************************)
EveryCallReturns == []<>(Quiet \/ \E t \in Senders, u \in Threads : Embraced(t, u))
=============================================================================
