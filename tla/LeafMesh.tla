------------------------------ MODULE LeafMesh ------------------------------
(***************************************************************************)
(* A leaf (a sensor) of the mesh: P3LeafMesh binds it to a coordinator,    *)
(* LeafClientHandler is the channel to it, LeafPeer opens the leaf and     *)
(* announces its two sensors.  The threads are the one that opens the leaf *)
(* (Main) and the reader thread of every channel.  A channel's thread that *)
(* sees its connection end closes the channel, and the close listener,     *)
(* which is the leaf's mesh, rebinds inside that very call.                *)
(*                                                                         *)
(* Two locks matter: the mesh's, held through a whole bind, and the        *)
(* channel's, which joinMesh gives up before it waits for the answer and   *)
(* updateInfo does not.  No wait has a time limit (waitFuture(0)).         *)
(***************************************************************************)
EXTENDS Naturals, FiniteSets, Sequences

CONSTANTS Coordinators,     \* the coordinators of the cells
          MaxCrashes        \* how many of them may crash: not all

ASSUME CoordinatorAssumption ==
  /\ IsFiniteSet(Coordinators) /\ Coordinators # {}
  /\ MaxCrashes \in Nat

Main == 0
Channels == 1 .. MaxCrashes + 1     \* a crash ends at most one of them
Threads == {Main} \cup Channels
None == Cardinality(Threads)        \* a lock nobody holds
Updates == <<"audio", "actuator">>   \* what the leaf announces, in this order

Binding == {"ask", "connect", "join", "await", "listen", "attach"}
Closing == {"close", "check", "mark", "fire"}
Where == Binding \cup Closing \cup
           {"idle", "reading", "told", "missed", "done", "update", "send", "awaitUpdate", "open"}

VARIABLES
  up,        \* the coordinators that run
  listed,    \* the coordinators the super-peers' trees name
  target,    \* the coordinator an answer named, until the connect
  client,    \* P3LeafMesh::m_client: a channel, or 0
  mesh,      \* the thread that holds P3LeafMesh::m_lock, or None
  chan,      \* the channels
  made,      \* how many channels were made
  pc,        \* where each thread is
  handler,   \* the channel Main took from the mesh for its update
  todo,      \* the updates still to send
  broken     \* a channel was freed while a thread was in one of its calls

vars == <<up, listed, target, client, mesh, chan, made, pc, handler, todo, broken>>

\* A channel: m_closeListener, m_close, the holder of m_lock, the request its engine has
\* registered, how that request ended, what is on the connection, and what the
\* coordinator's tree has made of the leaf.
Fresh(c) ==
  [coord |-> c, lock |-> None, pending |-> FALSE, answer |-> "none", wire |-> "none",
   closed |-> FALSE, listener |-> FALSE, place |-> "unknown"]

AnyCoordinator == CHOOSE c \in Coordinators : TRUE

Init ==
  /\ up = Coordinators /\ listed = Coordinators
  /\ target = AnyCoordinator
  /\ client = 0 /\ mesh = Main /\ made = 0
  /\ chan = [i \in Channels |-> Fresh(AnyCoordinator)]
  /\ pc = [t \in Threads |-> IF t = Main THEN "ask" ELSE "idle"]
  /\ handler = 0 /\ todo = Updates /\ broken = FALSE

GoTo(t, place) == pc' = [pc EXCEPT ![t] = place]

Dead(i) == chan[i].coord \notin up

Free(i) == chan[i].lock = None

\* The thread of channel i is inside the channel's close and will use its members again.
InClose(i) == pc[i] \in Closing

------------------------------------------------------------------------------
\* P3LeafMesh::bind, by a thread that holds the mesh's lock

\* Cell::handleCoordinatorRequest: a super-peer answers with one of the coordinators of its
\* tree, and not at all when it has none.
Answers == listed

\* LeafMeshDiscovery::requestCoordinator: any super-peer answers with a coordinator of its
\* tree, which may have crashed; no answer is a timeout and the loop asks again.
RequestCoordinator(t) ==
  /\ pc[t] = "ask"
  /\ target' \in Answers
  /\ GoTo(t, "connect")
  /\ UNCHANGED <<up, listed, client, mesh, chan, made, handler, todo, broken>>


\* The exception goes to the loop of open_i or of onClose, which tries again.
ConnectFailed(t) ==
  /\ pc[t] = "connect" /\ target \notin up
  /\ GoTo(t, "ask")
  /\ UNCHANGED <<up, listed, target, client, mesh, chan, made, handler, todo, broken>>

\* The connection is up, the channel's own thread reads from it.
Connect(t) ==
  /\ pc[t] = "connect" /\ target \in up
  /\ made' = made + 1
  /\ chan' = [chan EXCEPT ![made'] = Fresh(target)]
  /\ client' = made'
  /\ target' = AnyCoordinator
  /\ pc' = [pc EXCEPT ![t] = "join", ![made'] = "reading"]
  /\ UNCHANGED <<up, listed, mesh, handler, todo, broken>>

\* sendRequest: nothing is sent on a closed channel; a send to a coordinator that is gone
\* may still succeed, the request is then registered and never answered.
Sent(i, ch, packet) == [ch EXCEPT !.pending = TRUE, !.answer = "none",
                                  !.wire = IF Dead(i) THEN "none" ELSE packet]

\* A send that fails closes the channel in the sender's thread, which holds its lock.  The
\* listener does not change meanwhile: whoever sends on a client without one is the thread
\* that is going to set it.
Failed(ch) == [ch EXCEPT !.pending = FALSE, !.closed = TRUE]

\* LeafClientHandler::joinMesh up to the wait, for which it gives up the channel's lock.
JoinMesh(t) ==
  LET i == client IN
  /\ pc[t] = "join" /\ Free(i)
  /\ \/ chan[i].closed /\ GoTo(t, "listen") /\ UNCHANGED chan
     \/ /\ ~chan[i].closed
        /\ chan' = [chan EXCEPT ![i] = Sent(i, @, "join")]
        /\ GoTo(t, "await")
     \/ /\ ~chan[i].closed /\ Dead(i)
        /\ chan' = [chan EXCEPT ![i] = Failed(@)]
        /\ GoTo(t, "listen")
  /\ UNCHANGED <<up, listed, target, client, mesh, made, handler, todo, broken>>

\* The wait ends with the answer or with clearAll; bind does not look at the result.
JoinAnswered(t) ==
  /\ pc[t] = "await" /\ chan[client].answer # "none"
  /\ GoTo(t, "listen")
  /\ UNCHANGED <<up, listed, target, client, mesh, chan, made, handler, todo, broken>>

\* Mutant: a channel that has closed meanwhile is given its listener all the same.
SetCloseListenerBlindly(t) ==
  /\ pc[t] = "listen" /\ Free(client)
  /\ chan' = [chan EXCEPT ![client].lock = t]
  /\ GoTo(t, "attach")
  /\ UNCHANGED <<up, listed, target, client, mesh, made, handler, todo, broken>>

\* setCloseListener refuses a closed channel: the client is freed and bind fails.  It tests
\* m_close under the channel's lock, which close does not hold when it sets it.
SetCloseListener(t) ==
  /\ pc[t] = "listen" /\ Free(client)
  /\ \/ /\ chan[client].closed
        /\ client' = 0 /\ broken' = InClose(client)
        /\ GoTo(t, "ask")
        /\ UNCHANGED chan
     \/ /\ ~chan[client].closed
        /\ chan' = [chan EXCEPT ![client].lock = t]
        /\ GoTo(t, "attach")
        /\ UNCHANGED <<client, broken>>
  /\ UNCHANGED <<up, listed, target, mesh, made, handler, todo>>

\* Main has rebound inside the update it was sending on the channel handler.
InSend(t) == t = Main /\ handler # 0

\* The listener is set and bind returns: a reader from onClose, Main to its next update,
\* and, if it rebound inside the send of one, out of that update, which frees the channel.
AttachListener(t) ==
  /\ pc[t] = "attach"
  /\ chan' = [i \in Channels |->
                [chan[i] EXCEPT !.listener = @ \/ i = client,
                                !.lock = IF i = client \/ (InSend(t) /\ i = handler)
                                         THEN None ELSE @]]
  /\ handler' = IF InSend(t) THEN 0 ELSE handler
  /\ broken' = (InSend(t) /\ InClose(handler))
  /\ mesh' = None
  /\ GoTo(t, IF t = Main THEN "update" ELSE "done")
  /\ UNCHANGED <<up, listed, target, client, made, todo>>

------------------------------------------------------------------------------
\* LeafPeer::open_i: the two updates

\* P3LeafMesh::updateInfo takes the client under the mesh's lock and lets the lock go.
TakeHandler ==
  /\ pc[Main] = "update" /\ todo # <<>> /\ mesh = None
  /\ todo' = Tail(todo)
  /\ handler' = client
  /\ GoTo(Main, IF client = 0 THEN "update" ELSE "send")
  /\ UNCHANGED <<up, listed, target, client, mesh, chan, made, broken>>

\* LeafClientHandler::updateInfo up to the wait: the channel's lock stays with Main.
UpdateInfo ==
  LET i == handler IN
  /\ pc[Main] = "send" /\ Free(i)
  /\ \/ /\ chan[i].closed
        /\ handler' = 0 /\ GoTo(Main, "update")
        /\ UNCHANGED chan
     \/ /\ ~chan[i].closed
        /\ chan' = [chan EXCEPT ![i] = [Sent(i, @, "update") EXCEPT !.lock = Main]]
        /\ GoTo(Main, "awaitUpdate")
        /\ UNCHANGED handler
     \/ /\ ~chan[i].closed /\ Dead(i)
        /\ chan' = [chan EXCEPT ![i] = [Failed(@) EXCEPT !.lock = Main]]
        /\ GoTo(Main, "told")
        /\ UNCHANGED handler
  /\ UNCHANGED <<up, listed, target, client, mesh, made, todo, broken>>

UpdateAnswered ==
  /\ pc[Main] = "awaitUpdate" /\ chan[handler].answer # "none"
  /\ chan' = [chan EXCEPT ![handler].lock = None]
  /\ handler' = 0
  /\ GoTo(Main, "update")
  /\ UNCHANGED <<up, listed, target, client, mesh, made, todo, broken>>

\* The leaf is open.
Opened ==
  /\ pc[Main] = "update" /\ todo = <<>>
  /\ GoTo(Main, "open")
  /\ UNCHANGED <<up, listed, target, client, mesh, chan, made, handler, todo, broken>>

------------------------------------------------------------------------------
\* The reader of channel i

\* LeafClientHandler::handlePacket hands an answer to the request that waits for it.
HandlePacket(i) ==
  /\ pc[i] = "reading" /\ ~chan[i].closed /\ chan[i].wire = "reply"
  /\ chan' = [chan EXCEPT ![i].wire = "none", ![i].pending = FALSE, ![i].answer = "came"]
  /\ UNCHANGED <<up, listed, target, client, mesh, made, pc, handler, todo, broken>>

\* The connection has ended: the reactor's upcall fails and the channel is closed.
ConnectionEnds(i) ==
  /\ pc[i] = "reading" /\ ~chan[i].closed /\ chan[i].wire = "none" /\ Dead(i)
  /\ GoTo(i, "close")
  /\ UNCHANGED <<up, listed, target, client, mesh, chan, made, handler, todo, broken>>

\* LeafClientHandler::close: under the channel's lock, the requests are cancelled ...
ClearAll(i) ==
  /\ pc[i] = "close" /\ Free(i)
  /\ chan' = [chan EXCEPT ![i] = IF @.closed \/ ~@.pending THEN @
                                 ELSE [@ EXCEPT !.pending = FALSE, !.answer = "gone"]]
  /\ GoTo(i, "check")
  /\ UNCHANGED <<up, listed, target, client, mesh, made, handler, todo, broken>>

\* ... then AbstractStreamChannel::close looks at m_close and lets the lock go ...
CheckClosed(i) ==
  /\ pc[i] = "check" /\ Free(i)
  /\ GoTo(i, IF chan[i].closed THEN "done" ELSE "mark")
  /\ UNCHANGED <<up, listed, target, client, mesh, chan, made, handler, todo, broken>>

\* ... sets it, takes the channel from the reactor and closes the socket ...
SetClosed(i) ==
  /\ pc[i] = "mark"
  /\ chan' = [chan EXCEPT ![i].closed = TRUE]
  /\ GoTo(i, "fire")
  /\ UNCHANGED <<up, listed, target, client, mesh, made, handler, todo, broken>>

\* A thread has passed setCloseListener's test and not set the listener yet.
Attaching(i) == client = i /\ \E t \in Threads : pc[t] = "attach"

\* ... and calls the listener it finds, all this without the lock.  A reader that finds
\* none because its channel's listener is just being set is "missed": no thread tells the
\* mesh of this closure.
FireOnClose(i) ==
  /\ pc[i] = "fire"
  /\ GoTo(i, IF chan[i].listener THEN "told" ELSE IF Attaching(i) THEN "missed" ELSE "done")
  /\ UNCHANGED <<up, listed, target, client, mesh, chan, made, handler, todo, broken>>

\* P3LeafMesh::onClose, by the thread that closed the channel: the client is dropped,
\* whichever channel it is, and the rebind loop begins.  Dropping another channel than the
\* one that closed destroys it, which closes it, which calls onClose again, in the middle
\* of this one.
Told(t) == IF t = Main THEN handler ELSE t

OnClose(t) ==
  /\ pc[t] = "told" /\ mesh = None
  /\ broken' = (client # Told(t))
  /\ mesh' = t
  /\ client' = 0
  /\ GoTo(t, "ask")
  /\ UNCHANGED <<up, listed, target, chan, made, handler, todo>>

------------------------------------------------------------------------------
\* The other side

\* A coordinator that runs answers a join (handleJoinMesh): it has listed the leaf, or it
\* has refused it, because its cell had no room (addPeer) or the cell above said no.
HandleJoinMesh(i) ==
  /\ chan[i].wire = "join" /\ ~Dead(i)
  /\ \E place \in {"listed", "refused"} :
        chan' = [chan EXCEPT ![i].wire = "reply", ![i].place = place]
  /\ UNCHANGED <<up, listed, target, client, mesh, made, pc, handler, todo, broken>>

\* An update is answered whether the leaf is listed or not.
HandleUpdateInfo(i) ==
  /\ chan[i].wire = "update" /\ ~Dead(i)
  /\ chan' = [chan EXCEPT ![i].wire = "reply"]
  /\ UNCHANGED <<up, listed, target, client, mesh, made, pc, handler, todo, broken>>

\* A coordinator crashes: what was sent to it is lost, what it had answered still arrives.
Crash(c) ==
  /\ c \in up /\ Cardinality(Coordinators \ up) < MaxCrashes
  /\ up' = up \ {c}
  /\ chan' = [i \in Channels |-> IF chan[i].coord = c /\ chan[i].wire # "reply"
                                 THEN [chan[i] EXCEPT !.wire = "none"] ELSE chan[i]]
  /\ UNCHANGED <<listed, target, client, mesh, made, pc, handler, todo, broken>>

\* The super-peers notice and take the coordinator out of their trees.
Forget(c) ==
  /\ c \in listed \ up
  /\ listed' = listed \ {c}
  /\ UNCHANGED <<up, target, client, mesh, chan, made, pc, handler, todo, broken>>

------------------------------------------------------------------------------
Bind(t) ==
  \/ RequestCoordinator(t) \/ ConnectFailed(t) \/ Connect(t) \/ JoinMesh(t)
  \/ JoinAnswered(t) \/ SetCloseListener(t) \/ AttachListener(t)

MainStep ==
  TakeHandler \/ UpdateInfo \/ UpdateAnswered \/ Opened

Reader(i) ==
  \/ HandlePacket(i) \/ ConnectionEnds(i)
  \/ ClearAll(i) \/ CheckClosed(i) \/ SetClosed(i) \/ FireOnClose(i)

Coordinator(i) == HandleJoinMesh(i) \/ HandleUpdateInfo(i)

\* What a freed channel does is not defined: the model ends there.
Next ==
  /\ ~broken
  /\ \/ \E t \in Threads : Bind(t) \/ OnClose(t)
     \/ MainStep
     \/ \E i \in Channels : Reader(i) \/ Coordinator(i)
     \/ \E c \in Coordinators : Crash(c) \/ Forget(c)

\* Threads run and a coordinator that runs answers: while one of them can take a step,
\* one does.  A crashed coordinator is noticed.
Progress ==
  /\ ~broken
  /\ \/ \E t \in Threads : Bind(t) \/ OnClose(t)
     \/ MainStep
     \/ \E i \in Channels : Reader(i) \/ Coordinator(i)

Notices == ~broken /\ \E c \in Coordinators : Forget(c)

Fairness == WF_vars(Progress) /\ WF_vars(Notices)

Spec == Init /\ [][Next]_vars

------------------------------------------------------------------------------
(***************************************************************************)
(* Types.                                                                  *)
(***************************************************************************)
TypeOK ==
  /\ up \subseteq Coordinators /\ listed \subseteq Coordinators
  /\ target \in Coordinators
  /\ client \in Threads /\ handler \in Threads /\ made \in Threads
  /\ mesh \in Threads \cup {None}
  /\ chan \in [Channels ->
       [coord : Coordinators, lock : Threads \cup {None}, pending : BOOLEAN,
        answer : {"none", "came", "gone"}, wire : {"none", "join", "update", "reply"},
        closed : BOOLEAN, listener : BOOLEAN, place : {"unknown", "listed", "refused"}]]
  /\ pc \in [Threads -> Where]
  /\ Len(todo) \in 0 .. Len(Updates) /\ broken \in BOOLEAN

\* The leaf's client is a channel that tells the mesh when it closes.
Bound == mesh = None /\ client # 0 /\ chan[client].listener

\* The client closed between setCloseListener's test and its assignment: its listener was
\* set after close had looked for one, and the leaf stays with a closed client for ever.
Missed == client # 0 /\ pc[client] = "missed"

\* The coordinator has refused the leaf, and bind did not look at the answer.
Refused == client # 0 /\ chan[client].place = "refused"

(***************************************************************************)
(* A closed client has a thread on its way to onClose, in every order in   *)
(* which the channel's thread closes it and bind gives it its listener but *)
(* one, which is named: Missed.  In particular a closure that is over      *)
(* before setCloseListener is called, or that begins after it has          *)
(* returned, is never missed (AbstractStreamChannel::setCloseListener and  *)
(* close, P3LeafMesh::bind).                                               *)
(***************************************************************************)
Noticed ==
  ~broken /\ mesh = None /\ client # 0 /\ chan[client].closed
    => Missed \/ pc[client] = "fire" \/ \E t \in Threads : pc[t] = "told" /\ Told(t) = client

(***************************************************************************)
(* A bound leaf is listed by the coordinator it is bound to, or that       *)
(* coordinator has refused it: setCloseListener is reached only after the  *)
(* join was answered, or on a channel whose coordinator is gone            *)
(* (P3LeafMesh::bind, Cell::handleJoinMesh).                               *)
(***************************************************************************)
Listed == Bound /\ ~Dead(client) => chan[client].place = "listed" \/ Refused

\* A request was registered with a channel whose coordinator is gone, and nobody is left
\* to cancel it: its channel's close waits for the lock the caller holds, or has already
\* been past clearAll.
Hung ==
  \E i \in Channels :
    /\ chan[i].pending /\ Dead(i)
    /\ chan[i].lock = Main \/ pc[i] \notin {"reading", "close"}

(***************************************************************************)
(* The leaf ends up bound to a coordinator that runs, with its opening     *)
(* finished: the bind loops of open_i and onClose outlast every crash,     *)
(* every stale answer and every connection that fails on the way.  The     *)
(* ways out are the ones named: a request caught by the crash (Hung), a    *)
(* closure that met setCloseListener (Missed) and a channel freed while a  *)
(* thread was in its close (broken).                                       *)
(***************************************************************************)
Settled ==
  Hung \/ Missed \/ broken \/ (pc[Main] = "open" /\ Bound /\ ~Dead(client))
==============================================================================
