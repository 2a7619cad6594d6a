---------------------------- MODULE RequestGroup ----------------------------
(***************************************************************************)
(* One call of FTControlChannelManager::addReplica, thread by thread: the  *)
(* waiter sends a request on each control channel, collects the requests   *)
(* in a RequestGroup and waits for all of them, without a timeout.  Each   *)
(* channel has a reader thread, which either sets the reply                *)
(* (ChannelRequestEngine::setReply) or, when the peer is gone, closes the  *)
(* channel and cancels what is left (clearAll).                            *)
(*                                                                         *)
(* Four kinds of lock are involved: the channel's, its engine's, the       *)
(* request's and the group's.  The readers take engine, request, group in  *)
(* that order, because Event::stateChanged_i calls the listener with the   *)
(* request still locked.  The waiter takes group, request and, for a       *)
(* request that is not final, engine.  The locks are read off the program  *)
(* counters reader and waiter.                                             *)
(***************************************************************************)
EXTENDS Naturals, FiniteSets

CONSTANT Channel   \* the control channels of the manager

ASSUME ChannelAssumption == IsFiniteSet(Channel)

VARIABLES
    peerUp,      \* the channels whose peer is up
    asked,       \* the channels whose peer has a request to answer
    replies,     \* the channels with an answer that the reader has not read
    chan,        \* chan[c]: "open", "cleared" (clearAll is over), "closed" (m_close)
    bound,       \* the channels whose engine holds a request
    state,       \* state[c]: m_state of the request of c, "none" without one
    attached,    \* the requests whose m_engine is set
    listening,   \* the requests whose m_listener is the group
    members,     \* m_result of the group: its requests
    finished,    \* m_finishedRequests
    group,       \* m_state of the group
    waiter,      \* where addReplica is
    todo,        \* the rest of the waiter's current loop
    setting,     \* the request whose setListener open has called
    reader       \* where the reader of each channel is

envVars   == <<peerUp, asked, replies>>
reqVars   == <<bound, state, attached>>
groupVars == <<listening, members, finished, group>>
waitVars  == <<waiter, todo, setting>>
vars      == <<envVars, chan, reqVars, groupVars, waitVars, reader>>

-----------------------------------------------------------------------------
Final == {"success", "cancel"}

ChannelLocked(c) == reader[c] \in {"clear", "clearFire", "clearDone"}
EngineLocked(c)  == reader[c] # "idle"
RequestLocked(c) == reader[c] \in {"replyFire", "replyDone", "clearFire", "clearDone"}
GroupLocked      == waiter \in {"open", "listen", "detach"}

\* m_expectedSize counts the requests added.
\* Mutant: one request may be missing.
AllEventFinalOffByOne(n) == n + 1 >= Cardinality(members)
IsAllEventFinal(n) == n = Cardinality(members)

\* onEvent of the group, for a request that is final.
OnEvent ==
    /\ finished' = finished + 1
    /\ group' = IF IsAllEventFinal(finished') THEN "success" ELSE group

Init ==
    /\ peerUp = Channel
    /\ asked = {}
    /\ replies = {}
    /\ chan = [c \in Channel |-> "open"]
    /\ bound = {}
    /\ state = [c \in Channel |-> "none"]
    /\ attached = {}
    /\ listening = {}
    /\ members = {}
    /\ finished = 0
    /\ group = "idle"
    /\ waiter = "send"
    /\ todo = Channel
    /\ setting = {}
    /\ reader = [c \in Channel |-> "idle"]

-----------------------------------------------------------------------------
(* The waiter                                                              *)

\* sendRequest and addRequest.  A packet to a dead peer may well be accepted by
\* the socket.
Send(c) ==
    /\ waiter = "send" /\ c \in todo
    /\ ~ChannelLocked(c)
    /\ chan[c] # "closed"
    /\ bound' = bound \cup {c}
    /\ attached' = attached \cup {c}
    /\ state' = [state EXCEPT ![c] = "idle"]
    /\ members' = members \cup {c}
    /\ asked' = asked \cup {c}
    /\ todo' = todo \ {c}
    /\ UNCHANGED <<peerUp, replies, chan, listening, finished, group, waiter, setting, reader>>

\* sendRequest returns no request: the channel is closed, or the send fails and
\* closes it, which cancels the request just bound.
SendFails(c) ==
    /\ waiter = "send" /\ c \in todo
    /\ ~ChannelLocked(c)
    /\ chan[c] = "closed" \/ c \notin peerUp
    /\ chan' = [chan EXCEPT ![c] = "closed"]
    /\ todo' = todo \ {c}
    /\ UNCHANGED <<envVars, reqVars, groupVars, waiter, setting, reader>>

\* RequestGroup::open takes the group's lock.
Open ==
    /\ waiter = "send" /\ todo = {}
    /\ waiter' = "open"
    /\ todo' = members
    /\ UNCHANGED <<envVars, chan, reqVars, groupVars, setting, reader>>

\* iter++.
IterNext(c) == todo \ {c}

\* The state of the request is read without its lock.
OpenFinished(c) ==
    /\ waiter = "open" /\ c \in todo
    /\ state[c] \in Final
    /\ finished' = finished + 1
    /\ todo' = IterNext(c)
    /\ UNCHANGED <<envVars, chan, reqVars, listening, members, group, waiter, setting, reader>>

OpenPending(c) ==
    /\ waiter = "open" /\ c \in todo
    /\ state[c] \notin Final
    /\ waiter' = "listen"
    /\ setting' = {c}
    /\ UNCHANGED <<envVars, chan, reqVars, groupVars, todo, reader>>

\* setListener's last lines: a request that has become final since fires at once.
\* Mutant: it does not.
FireIfFinalNever(c) == UNCHANGED <<finished, group>>
FireIfFinal(c) ==
    IF state[c] \in Final THEN OnEvent ELSE UNCHANGED <<finished, group>>

SetListener(c) ==
    /\ waiter = "listen" /\ c \in setting
    /\ ~RequestLocked(c)
    /\ listening' = listening \cup {c}
    /\ FireIfFinal(c)
    /\ waiter' = "open"
    /\ todo' = IterNext(c)
    /\ setting' = {}
    /\ UNCHANGED <<envVars, chan, reqVars, members, reader>>

OpenEnd ==
    /\ waiter = "open" /\ todo = {}
    /\ waiter' = "wait"
    /\ UNCHANGED <<envVars, chan, reqVars, groupVars, todo, setting, reader>>

\* waitFuture up to the wait of the condition.
WaitFuture ==
    /\ waiter = "wait"
    /\ group' = IF IsAllEventFinal(finished) THEN "success" ELSE group
    /\ \/ /\ group' \in Final
          /\ waiter' = "detach"
          /\ todo' = members
       \/ /\ group' \notin Final
          /\ waiter' = "blocked"
          /\ UNCHANGED todo
    /\ UNCHANGED <<envVars, chan, reqVars, listening, members, finished, setting, reader>>

\* The condition is signalled.
Wake ==
    /\ waiter = "blocked" /\ group \in Final
    /\ waiter' = "detach"
    /\ todo' = members
    /\ UNCHANGED <<envVars, chan, reqVars, groupVars, setting, reader>>

\* removeListener and close: a request that still has an engine is cleared there,
\* under the engine's lock.
Detach(c) ==
    /\ waiter = "detach" /\ c \in todo
    /\ ~RequestLocked(c)
    /\ c \in attached => ~EngineLocked(c)
    /\ listening' = listening \ {c}
    /\ bound' = IF c \in attached THEN bound \ {c} ELSE bound
    /\ attached' = attached \ {c}
    /\ state' = [state EXCEPT ![c] = "cancel"]
    /\ todo' = todo \ {c}
    /\ UNCHANGED <<envVars, chan, members, finished, group, waiter, setting, reader>>

\* The list is handed over, the lock released, and close cancels the group.
Return ==
    /\ waiter = "detach" /\ todo = {}
    /\ members' = {}
    /\ group' = "cancel"
    /\ waiter' = "returned"
    /\ UNCHANGED <<envVars, chan, reqVars, listening, finished, todo, setting, reader>>

-----------------------------------------------------------------------------
(* The reader of a channel                                                 *)

\* stateChanged_i notifies the listener there is when the state is set.
Fires(c, yes, no) == IF c \in listening THEN yes ELSE no

\* setReply takes the engine's lock and finds the request.
ReadReply(c) ==
    /\ reader[c] = "idle" /\ chan[c] = "open"
    /\ c \in replies
    /\ replies' = replies \ {c}
    /\ reader' = [reader EXCEPT ![c] = IF c \in bound THEN "reply" ELSE "idle"]
    /\ UNCHANGED <<peerUp, asked, chan, reqVars, groupVars, waitVars>>

\* m_engine = 0.  Mutant: it is kept.
EngineKept(c) == attached
EngineForgotten(c) == attached \ {c}

\* ChannelRequest::setFuture takes the request's lock.
SetFuture(c) ==
    /\ reader[c] = "reply"
    /\ attached' = EngineForgotten(c)
    /\ state' = [state EXCEPT ![c] = "success"]
    /\ reader' = [reader EXCEPT ![c] = Fires(c, "replyFire", "replyDone")]
    /\ UNCHANGED <<envVars, chan, bound, groupVars, waitVars>>

\* The listener is called with the request and the engine locked.
Notify(c) ==
    /\ reader[c] \in {"replyFire", "clearFire"}
    /\ ~GroupLocked
    /\ OnEvent
    /\ reader' = [reader EXCEPT ![c] =
                     IF reader[c] = "replyFire" THEN "replyDone" ELSE "clearDone"]
    /\ UNCHANGED <<envVars, chan, reqVars, listening, members, waitVars>>

ReplySet(c) ==
    /\ reader[c] = "replyDone"
    /\ bound' = bound \ {c}
    /\ reader' = [reader EXCEPT ![c] = "idle"]
    /\ UNCHANGED <<envVars, chan, state, attached, groupVars, waitVars>>

\* The reader finds the end of the stream: close takes the channel's lock and
\* clearAll the engine's.
ReadEnd(c) ==
    /\ reader[c] = "idle" /\ chan[c] = "open"
    /\ c \notin peerUp \cup replies
    /\ reader' = [reader EXCEPT ![c] = "clear"]
    /\ UNCHANGED <<envVars, chan, reqVars, groupVars, waitVars>>

\* disableClearMap and cancel(false) of the request there is.
CancelRequest(c) ==
    /\ reader[c] = "clear"
    /\ \/ /\ c \in bound
          /\ attached' = attached \ {c}
          /\ state' = [state EXCEPT ![c] = "cancel"]
          /\ reader' = [reader EXCEPT ![c] = Fires(c, "clearFire", "clearDone")]
       \/ /\ c \notin bound
          /\ reader' = [reader EXCEPT ![c] = "clearDone"]
          /\ UNCHANGED <<attached, state>>
    /\ UNCHANGED <<envVars, chan, bound, groupVars, waitVars>>

ClearAllEnd(c) ==
    /\ reader[c] = "clearDone"
    /\ bound' = bound \ {c}
    /\ chan' = [chan EXCEPT ![c] = "cleared"]
    /\ reader' = [reader EXCEPT ![c] = "idle"]
    /\ UNCHANGED <<envVars, state, attached, groupVars, waitVars>>

\* AbstractStreamChannel::close sets m_close, after the channel's lock was free.
SetClose(c) ==
    /\ chan[c] = "cleared"
    /\ chan' = [chan EXCEPT ![c] = "closed"]
    /\ UNCHANGED <<envVars, reqVars, groupVars, waitVars, reader>>

-----------------------------------------------------------------------------
(* The peers                                                               *)

PeerReplies(c) ==
    /\ c \in asked \cap peerUp
    /\ asked' = asked \ {c}
    /\ replies' = replies \cup {c}
    /\ UNCHANGED <<peerUp, chan, reqVars, groupVars, waitVars, reader>>

PeerDies(c) ==
    /\ c \in peerUp
    /\ peerUp' = peerUp \ {c}
    /\ UNCHANGED <<asked, replies, chan, reqVars, groupVars, waitVars, reader>>

-----------------------------------------------------------------------------
Waiter ==
    \/ Open \/ OpenEnd \/ WaitFuture \/ Wake \/ Return
    \/ \E c \in Channel : \/ Send(c) \/ SendFails(c)
                          \/ OpenFinished(c) \/ OpenPending(c) \/ SetListener(c)
                          \/ Detach(c)

Reader(c) ==
    \/ ReadReply(c) \/ SetFuture(c) \/ Notify(c) \/ ReplySet(c)
    \/ ReadEnd(c) \/ CancelRequest(c) \/ ClearAllEnd(c) \/ SetClose(c)

Next == Waiter \/ \E c \in Channel : Reader(c) \/ PeerReplies(c) \/ PeerDies(c)

Spec == Init /\ [][Next]_vars

\* The waiter and the readers are threads of their own, and a peer that is up
\* answers.
FairSpec ==
    /\ Spec
    /\ WF_vars(Waiter)
    /\ \A c \in Channel : WF_vars(Reader(c)) /\ WF_vars(PeerReplies(c))

-----------------------------------------------------------------------------
(* Properties                                                              *)

\* Every variable has its type; in particular no request is counted twice, or
\* m_finishedRequests, compared with ==, would pass m_expectedSize.
TypeOK ==
    /\ peerUp \subseteq Channel /\ asked \subseteq Channel /\ replies \subseteq Channel
    /\ chan \in [Channel -> {"open", "cleared", "closed"}]
    /\ bound \subseteq Channel /\ attached \subseteq Channel
    /\ state \in [Channel -> {"none", "idle"} \cup Final]
    /\ listening \subseteq Channel /\ members \subseteq Channel
    /\ finished \in 0..Cardinality(Channel)
    /\ group \in {"idle"} \cup Final
    /\ waiter \in {"send", "open", "listen", "wait", "blocked", "detach", "returned"}
    /\ todo \subseteq Channel /\ setting \subseteq Channel
    /\ reader \in [Channel -> {"idle", "reply", "replyFire", "replyDone",
                               "clear", "clearFire", "clearDone"}]

\* The group succeeds only when each of its requests is answered or cancelled,
\* although open reads their states unlocked while the readers change them.
GroupComplete ==
    group = "success" => \A c \in members : state[c] \in Final

\* detach finds no request with an engine: the waiter, with group and request
\* locked, never waits for the engine of a reader that waits for the group.
NoLockInversion ==
    waiter = "detach" => todo \cap attached = {}

\* A request bound between the clearAll of its channel and m_close = true: no
\* reader is left to answer or to cancel it.
Orphan(c) == state[c] = "idle" /\ chan[c] # "open"

\* Unless a request is orphaned, the wait of the announcement ends.
WaitEnds == <>(waiter = "returned" \/ \E c \in Channel : Orphan(c))

-----------------------------------------------------------------------------
(* The inductive invariant behind GroupComplete and NoLockInversion        *)

Firing(c) == reader[c] \in {"replyFire", "clearFire"}

\* The requests the group has counted: final, past open's loop, and with no
\* reader on its way to onEvent.
Counted == {c \in members \ todo : state[c] \in Final /\ ~Firing(c)}

\* A request has an engine until it is final, and the engine drops it as soon as
\* the reader that made it final is done.
RequestInv ==
    \A c \in Channel :
        /\ c \in attached <=> state[c] = "idle"
        /\ c \in bound => state[c] = "idle" \/ RequestLocked(c)
        /\ reader[c] = "reply" => c \in bound
        /\ Firing(c) => state[c] \in Final /\ c \in listening

\* Who listens in each phase of the waiter; a request that open has dealt with is
\* listened to or final.
ListenInv ==
    /\ waiter = "send" => listening = {} /\ finished = 0 /\ group = "idle"
    /\ waiter \in {"open", "listen", "wait", "blocked"} =>
          /\ listening \subseteq members \ todo
          /\ \A c \in members \ todo : c \in listening \/ state[c] \in Final
          /\ setting \subseteq todo /\ todo \subseteq members
    /\ waiter \in {"wait", "blocked"} => todo = {}
    /\ waiter # "listen" => setting = {}
    /\ waiter = "detach" =>
          listening \subseteq todo /\ todo \subseteq members /\ group = "success"
    /\ waiter = "returned" => listening = {}
    /\ group = "cancel" => waiter = "returned"

CountInv ==
    waiter \in {"open", "listen", "wait", "blocked"} => finished = Cardinality(Counted)

IInv ==
    /\ TypeOK
    /\ RequestInv
    /\ ListenInv
    /\ CountInv
    /\ group = "success" => \A c \in members : state[c] \in Final /\ ~Firing(c)
=============================================================================
