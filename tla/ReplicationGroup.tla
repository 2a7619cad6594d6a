-------------------------- MODULE ReplicationGroup --------------------------
(***************************************************************************)
(* The control plane of one replication group of the P3 overlay            *)
(* (P3ReplicationGroup, FTControlChannelManager, FTControlClientHandler,   *)
(* FTControlSvcHandler, FTControlAcceptor).                                *)
(*                                                                         *)
(* The peer Boot bootstraps the group as its primary (openPrimary).  It    *)
(* recruits, one after the other, the peers findResources returned: it     *)
(* dials the recruit, whose runtime creates its own copy of the group, it  *)
(* opens a data channel, it announces the recruit to the replicas already  *)
(* bound, waits for their answers, and only then pushes the recruit on its *)
(* own list.  A replica that hears of a new one dials it (prebind) and     *)
(* pushes it too.  So every pair of members shares one control channel,    *)
(* dialled by the earlier member, and a member that sees such a channel    *)
(* close runs onPeerClosure, which elects the front of its own list when   *)
(* the peer that died was the primary.                                     *)
(*                                                                         *)
(* Two recursive mutexes order all this in every runtime: the group's      *)
(* m_lock and its channel manager's m_lock.  addReplica takes the first    *)
(* and then needs the second; a channel that closes takes them the other   *)
(* way round.  RGLocked and closing say who holds them.                    *)
(*                                                                         *)
(* Connections are reliable: they fail to open (budgeted by MaxBindFail,   *)
(* or because the target is dead) and they break when an end dies.         *)
(***************************************************************************)
EXTENDS Naturals, Sequences, SequencesExt

CONSTANTS
    Peer,               \* the runtimes of the mesh
    NoPeer,             \* a null pointer to a peer
    Boot,               \* the runtime that creates the service
    Recruits,           \* the peers findResources returns, in its order
    Promotable,         \* what changeToPrimaryRole of the service returns
    MaxCrash,           \* bound: how many runtimes die
    MaxBindFail,        \* bound: connects that fail although the target lives
    CrashWhileForming   \* may a runtime die before openPrimary is over?

\* P3GeneralProvider adds the requester and the peers already chosen to the
\* filter of each query: recruits are distinct and never the requester.
ASSUME RecruitsAssumption ==
    /\ Boot \in Peer
    /\ Recruits \in Seq(Peer \ {Boot})
    /\ \A i, j \in 1..Len(Recruits) : Recruits[i] = Recruits[j] => i = j
ASSUME NoPeerAssumption == NoPeer \notin Peer
ASSUME BoundsAssumption ==
    /\ MaxCrash \in Nat
    /\ MaxBindFail \in Nat
    /\ Promotable \in BOOLEAN
    /\ CrashWhileForming \in BOOLEAN

VARIABLES
    alive,        \* alive[p]: the runtime p is up
    crashes,      \* runtimes that have died
    bindFails,    \* connects to a live target that have failed
    joined,       \* the runtimes that hold a copy of the group
    primaryPeer,  \* m_primaryPeer of each copy
    replicas,     \* m_replicas of each copy
    closed,       \* the runtimes whose copy has m_closed set
    owner,        \* the runtimes that register the service under the group's IID
    control,      \* control[p]: the peers p has a registered control channel to
    closing,      \* closing[p]: the peer whose closure holds p's manager lock
    accepting,    \* accepting[p]: the dialler p's acceptor thread is serving
    stage,        \* where openPrimary is
    next,         \* the index in Recruits of the peer being recruited
    sending,      \* the members still to be told of the recruit
    waiting,      \* the members whose answer the request group waits for
    acks,         \* the members whose answer is on its way
    inbox,        \* inbox[p]: the recruit of the FTAddReplicaPacket p has to read
    adding,       \* adding[p]: the recruit p's addReplicaAsReplica works on
    addStep       \* where that call is

envVars   == <<alive, crashes, bindFails>>
viewVars  == <<joined, primaryPeer, replicas, closed, owner>>
netVars   == <<control, closing, accepting>>
formVars  == <<stage, next, sending, waiting, acks>>
addVars   == <<inbox, adding, addStep>>
vars      == <<envVars, viewVars, netVars, formVars, addVars>>

-----------------------------------------------------------------------------
Recruit == Recruits[next]

\* m_lock of the group at p: addReplicaAsPrimary holds it from the connect to
\* the push, addReplicaAsReplica from the packet to the push.
RGLocked(p) ==
    IF p = Boot THEN stage \in {"session", "data", "announce", "send"}
                ELSE adding[p] # NoPeer

\* m_lock of the channel manager at p.  Every other use of it is one step.
ManagerLocked(p) == closing[p] # NoPeer

Init ==
    /\ alive = [p \in Peer |-> TRUE]
    /\ crashes = 0
    /\ bindFails = 0
    /\ joined = {Boot}
    /\ primaryPeer = [p \in Peer |-> IF p = Boot THEN Boot ELSE NoPeer]
    /\ replicas = [p \in Peer |-> <<>>]
    /\ closed = {}
    /\ owner = {Boot}
    /\ control = [p \in Peer |-> {}]
    /\ closing = [p \in Peer |-> NoPeer]
    /\ accepting = [p \in Peer |-> NoPeer]
    /\ stage = "find"
    /\ next = 1
    /\ sending = {}
    /\ waiting = {}
    /\ acks = {}
    /\ inbox = [p \in Peer |-> NoPeer]
    /\ adding = [p \in Peer |-> NoPeer]
    /\ addStep = [p \in Peer |-> "idle"]

\* m_replicas.push_back, and a mutant of it.
PushFront(list, p) == <<p>> \o list
PushBack(list, p) == Append(list, p)

\* The list a recruit opens its group with: the one of the INIT packet, then
\* itself (openReplica).  Mutant: the packet's list is lost.
InitListOnlySelf == <<Recruit>>
InitList == Append(replicas[Boot], Recruit)

\* ChannelManager::add binds one more channel.  Mutant: it rebinds the only slot.
RegisteredAlone(p, q) == [control EXCEPT ![p] = {q}]
Registered(p, q) == [control EXCEPT ![p] = @ \cup {q}]

\* The answer to a FTAddReplicaPacket.
Answered(p) == acks \cup {p}

\* isThisPeer.  Mutant: any peer is.
IsThisPeerAlways(p, q) == TRUE
IsThisPeer(p, q) == p = q

\* A connect to q fails: q is dead, or the attempt is one of the budget.
ConnectFails(q) ==
    \/ ~alive[q] /\ UNCHANGED bindFails
    \/ alive[q] /\ bindFails < MaxBindFail /\ bindFails' = bindFails + 1

-----------------------------------------------------------------------------
(* openPrimary at Boot                                                     *)

\* openPrimary's loop goes on to the next recruit, whatever addReplica returned.
NextRecruit ==
    /\ next' = next + 1
    /\ stage' = IF next < Len(Recruits) THEN "control" ELSE "done"

\* findResources.  Without resources openPrimary throws and
\* createReplicationGroup removes the group again.
FindResources ==
    /\ stage = "find" /\ alive[Boot]
    /\ \/ /\ stage' = IF Len(Recruits) = 0 THEN "done" ELSE "control"
          /\ UNCHANGED joined
       \/ /\ stage' = "failed"
          /\ joined' = joined \ {Boot}
    /\ next' = 1
    /\ UNCHANGED <<envVars, primaryPeer, replicas, closed, owner, netVars,
                   sending, waiting, acks, addVars>>

\* bindControlToReplica up to the INIT packet: the acceptor of the recruit
\* reads it, creates the group and opens it as a replica, and answers.
InitSession ==
    /\ stage = "control" /\ alive[Boot]
    /\ alive[Recruit] /\ accepting[Recruit] = NoPeer
    /\ joined' = joined \cup {Recruit}
    /\ primaryPeer' = [primaryPeer EXCEPT ![Recruit] = primaryPeer[Boot]]
    /\ replicas' = [replicas EXCEPT ![Recruit] = InitList]
    /\ accepting' = [accepting EXCEPT ![Recruit] = Boot]
    /\ stage' = "session"
    /\ UNCHANGED <<envVars, closed, owner, control, closing,
                   next, sending, waiting, acks, addVars>>

InitConnectFails ==
    /\ stage = "control" /\ alive[Boot]
    /\ ConnectFails(Recruit)
    /\ NextRecruit
    /\ UNCHANGED <<alive, crashes, viewVars, netVars, sending, waiting, acks, addVars>>

\* The rest of bindControlToReplica: the session's channel is registered.  A
\* recruit that died before it answered leaves a closed channel, which the
\* manager refuses.
RegisterSession ==
    /\ stage = "session" /\ alive[Boot]
    /\ ~ManagerLocked(Boot)
    /\ \/ /\ control' = Registered(Boot, Recruit)
          /\ stage' = "data"
          /\ UNCHANGED next
       \/ /\ ~alive[Recruit]
          /\ NextRecruit
          /\ UNCHANGED control
    /\ UNCHANGED <<envVars, viewVars, closing, accepting, sending, waiting, acks, addVars>>

BindData ==
    /\ stage = "data" /\ alive[Boot]
    /\ alive[Recruit]
    /\ stage' = "announce"
    /\ UNCHANGED <<envVars, viewVars, netVars, next, sending, waiting, acks, addVars>>

\* The recruit keeps the group it created and its control channel.
BindDataFails ==
    /\ stage = "data" /\ alive[Boot]
    /\ ConnectFails(Recruit)
    /\ NextRecruit
    /\ UNCHANGED <<alive, crashes, viewVars, netVars, sending, waiting, acks, addVars>>

\* FTControlChannelManager::addReplica copies the member list under its lock.
Announce ==
    /\ stage = "announce" /\ alive[Boot]
    /\ ~ManagerLocked(Boot)
    /\ sending' = control[Boot] \ {Recruit}
    /\ stage' = "send"
    /\ UNCHANGED <<envVars, viewVars, netVars, next, waiting, acks, addVars>>

\* sendRequest to one member; a channel already closed yields no request.
SendAddReplica(q) ==
    /\ stage = "send" /\ alive[Boot]
    /\ q \in sending
    /\ sending' = sending \ {q}
    /\ \/ /\ q \in control[Boot]
          /\ waiting' = waiting \cup {q}
          /\ inbox' = IF alive[q] THEN [inbox EXCEPT ![q] = Recruit] ELSE inbox
       \/ /\ q \notin control[Boot]
          /\ UNCHANGED <<waiting, inbox>>
    /\ UNCHANGED <<envVars, viewVars, netVars, stage, next, acks, adding, addStep>>

\* removeReplica of another peer: the first entry of that peer is erased.
\* (The managers' remove(uuid) finds nothing: their maps are keyed by channel.)
RemoveReplica(p, q) == [replicas EXCEPT ![p] = RemoveFirst(@, q)]

\* The send finds the connection broken: the sending thread closes the channel
\* itself and, its locks being recursive, runs the closure in place.
SendAddReplicaFails(q) ==
    /\ stage = "send" /\ alive[Boot]
    /\ q \in sending \cap control[Boot]
    /\ ~alive[q]
    /\ ~ManagerLocked(Boot)
    /\ sending' = sending \ {q}
    /\ control' = [control EXCEPT ![Boot] = @ \ {q}]
    /\ replicas' = RemoveReplica(Boot, q)
    /\ UNCHANGED <<envVars, joined, primaryPeer, closed, owner, closing, accepting,
                   stage, next, waiting, acks, addVars>>

\* setReply completes the request.
ReceiveAck(q) ==
    /\ alive[Boot]
    /\ q \in acks \cap waiting
    /\ acks' = acks \ {q}
    /\ waiting' = waiting \ {q}
    /\ UNCHANGED <<envVars, viewVars, netVars, stage, next, sending, addVars>>

\* close() of a client channel cancels its requests before anything else.
CancelRequests(q) ==
    /\ alive[Boot]
    /\ q \in waiting /\ ~alive[q]
    /\ waiting' = waiting \ {q}
    /\ acks' = acks \ {q}
    /\ UNCHANGED <<envVars, viewVars, netVars, stage, next, sending, addVars>>

\* The request group's wait is over: the recruit is pushed, the lock released.
PushReplica ==
    /\ stage = "send" /\ alive[Boot]
    /\ sending = {} /\ waiting = {}
    /\ replicas' = [replicas EXCEPT ![Boot] = PushBack(@, Recruit)]
    /\ NextRecruit
    /\ UNCHANGED <<envVars, joined, primaryPeer, closed, owner, netVars,
                   sending, waiting, acks, addVars>>

-----------------------------------------------------------------------------
(* FTControlAcceptor and addReplicaAsReplica at a replica                  *)

\* A dialler that has not yet read the answer of the acceptor it dialled.
AwaitsAnswer(p) ==
    IF p = Boot THEN stage = "session" ELSE addStep[p] = "register"

\* The acceptor thread registers the channel it has just answered on; if the
\* dialler died before it read the answer, the answer may have failed, and then
\* the channel is dropped.
AcceptorRegister(p) ==
    /\ alive[p]
    /\ accepting[p] # NoPeer
    /\ ~ManagerLocked(p)
    /\ accepting' = [accepting EXCEPT ![p] = NoPeer]
    /\ \/ control' = Registered(p, accepting[p])
       \/ ~alive[accepting[p]] /\ AwaitsAnswer(accepting[p]) /\ UNCHANGED control
    /\ UNCHANGED <<envVars, viewVars, closing, formVars, addVars>>

\* handleAddReplicaPacket, on the thread of the channel to Boot.
HandleAddReplica(p) ==
    /\ alive[p]
    /\ inbox[p] # NoPeer
    /\ Boot \in control[p]
    /\ ~RGLocked(p)
    /\ adding' = [adding EXCEPT ![p] = inbox[p]]
    /\ inbox' = [inbox EXCEPT ![p] = NoPeer]
    /\ addStep' = [addStep EXCEPT ![p] = "connect"]
    /\ UNCHANGED <<envVars, viewVars, netVars, formVars>>

\* prebindControlToReplica up to the answer of the recruit's acceptor.
PrebindSession(p) ==
    /\ alive[p] /\ addStep[p] = "connect"
    /\ alive[adding[p]] /\ accepting[adding[p]] = NoPeer
    /\ accepting' = [accepting EXCEPT ![adding[p]] = p]
    /\ addStep' = [addStep EXCEPT ![p] = "register"]
    /\ UNCHANGED <<envVars, viewVars, control, closing, formVars, inbox, adding>>

\* Its result is overwritten by the one of prebindDataToReplica.
PrebindConnectFails(p) ==
    /\ alive[p] /\ addStep[p] = "connect"
    /\ ConnectFails(adding[p])
    /\ addStep' = [addStep EXCEPT ![p] = "data"]
    /\ UNCHANGED <<alive, crashes, viewVars, netVars, formVars, inbox, adding>>

PrebindRegister(p) ==
    /\ alive[p] /\ addStep[p] = "register"
    /\ ~ManagerLocked(p)
    /\ \/ control' = Registered(p, adding[p])
       \/ ~alive[adding[p]] /\ UNCHANGED control
    /\ addStep' = [addStep EXCEPT ![p] = "data"]
    /\ UNCHANGED <<envVars, viewVars, closing, accepting, formVars, inbox, adding>>

\* prebindDataToReplica, the push, the release of the lock and the answer.
FinishAdd(p) ==
    /\ adding' = [adding EXCEPT ![p] = NoPeer]
    /\ addStep' = [addStep EXCEPT ![p] = "idle"]
    /\ acks' = Answered(p)
    /\ UNCHANGED <<alive, crashes, joined, primaryPeer, closed, owner, netVars,
                   stage, next, sending, waiting, inbox>>

PrebindData(p) ==
    /\ alive[p] /\ addStep[p] = "data"
    /\ alive[adding[p]]
    /\ replicas' = [replicas EXCEPT ![p] = PushBack(@, adding[p])]
    /\ UNCHANGED bindFails
    /\ FinishAdd(p)

PrebindDataFails(p) ==
    /\ alive[p] /\ addStep[p] = "data"
    /\ ConnectFails(adding[p])
    /\ UNCHANGED replicas
    /\ FinishAdd(p)

-----------------------------------------------------------------------------
(* The death of a member                                                   *)

\* The reader of p's channel to q sees the end of the stream: close, onClose,
\* ChannelManager::remove, which unbinds the channel under the manager's lock.
\* The thread that reads Boot's channel is the one that serves its packets.
ChannelRemove(p, q) ==
    /\ alive[p]
    /\ q \in control[p] /\ ~alive[q]
    /\ ~ManagerLocked(p)
    /\ q = Boot => adding[p] = NoPeer
    /\ p = Boot => q \notin waiting
    /\ closing' = [closing EXCEPT ![p] = q]
    /\ control' = [control EXCEPT ![p] = @ \ {q}]
    /\ inbox' = IF q = Boot THEN [inbox EXCEPT ![p] = NoPeer] ELSE inbox
    /\ UNCHANGED <<envVars, viewVars, accepting, formVars, adding, addStep>>

\* The primary died: the front of the list takes its place.
ElectFront(p) ==
    /\ primaryPeer' = [primaryPeer EXCEPT ![p] = Head(replicas[p])]
    /\ replicas' = [replicas EXCEPT ![p] = Tail(@)]
    /\ IF IsThisPeer(p, Head(replicas[p]))
          THEN /\ closed' = IF Promotable THEN closed ELSE closed \cup {p}
               /\ owner' = owner \cup {p}
          ELSE UNCHANGED <<closed, owner>>

\* onPeerClosure, called by fireOnClose with the manager's lock held; it needs
\* the lock of the group.
OnPeerClosure(p) ==
    /\ alive[p]
    /\ closing[p] # NoPeer
    /\ ~RGLocked(p)
    /\ IF primaryPeer[p] # closing[p]
          THEN /\ replicas' = RemoveReplica(p, closing[p])
               /\ UNCHANGED <<primaryPeer, closed, owner>>
          ELSE IF replicas[p] # <<>> THEN ElectFront(p)
          ELSE /\ closed' = closed \cup {p}
               /\ UNCHANGED <<primaryPeer, replicas, owner>>
    /\ closing' = [closing EXCEPT ![p] = NoPeer]
    /\ UNCHANGED <<envVars, joined, control, accepting, formVars, addVars>>

Crash(p) ==
    /\ alive[p]
    /\ crashes < MaxCrash
    /\ CrashWhileForming \/ stage \in {"done", "failed"}
    /\ alive' = [alive EXCEPT ![p] = FALSE]
    /\ crashes' = crashes + 1
    /\ UNCHANGED <<bindFails, viewVars, netVars, formVars, addVars>>

-----------------------------------------------------------------------------
Form ==
    \/ FindResources \/ InitSession \/ InitConnectFails \/ RegisterSession
    \/ BindData \/ BindDataFails \/ Announce \/ PushReplica
    \/ \E q \in Peer : \/ SendAddReplica(q) \/ SendAddReplicaFails(q)
                       \/ ReceiveAck(q) \/ CancelRequests(q)

Serve(p) ==
    \/ AcceptorRegister(p) \/ HandleAddReplica(p)
    \/ PrebindSession(p) \/ PrebindConnectFails(p) \/ PrebindRegister(p)
    \/ PrebindData(p) \/ PrebindDataFails(p)

Close(p) == OnPeerClosure(p) \/ \E q \in Peer : ChannelRemove(p, q)

Next == Form \/ \E p \in Peer : Serve(p) \/ Close(p) \/ Crash(p)

\* Every step but a crash is taken by a thread that is scheduled until it
\* blocks: openPrimary's caller, the acceptor's thread, the thread of each
\* control channel.
Fairness ==
    /\ WF_vars(Form)
    /\ \A p \in Peer : WF_vars(Serve(p)) /\ WF_vars(Close(p))

Spec == Init /\ [][Next]_vars

FairSpec == Spec /\ Fairness

-----------------------------------------------------------------------------
(* Properties                                                              *)

Stages == {"find", "control", "session", "data", "announce", "send", "done", "failed"}
AddSteps == {"idle", "connect", "register", "data"}

\* Every variable holds a value the code could hold.
TypeOK ==
    /\ alive \in [Peer -> BOOLEAN]
    /\ crashes \in 0..MaxCrash
    /\ bindFails \in 0..MaxBindFail
    /\ joined \subseteq Peer
    /\ primaryPeer \in [Peer -> Peer \cup {NoPeer}]
    /\ replicas \in [Peer -> Seq(Peer)]
    /\ closed \subseteq Peer
    /\ owner \subseteq Peer
    /\ control \in [Peer -> SUBSET Peer]
    /\ closing \in [Peer -> Peer \cup {NoPeer}]
    /\ accepting \in [Peer -> Peer \cup {NoPeer}]
    /\ stage \in Stages
    /\ next \in 1..(Len(Recruits) + 1)
    /\ stage \in {"control", "session", "data", "announce", "send"} => next <= Len(Recruits)
    /\ sending \subseteq Peer
    /\ waiting \subseteq Peer
    /\ acks \subseteq Peer
    /\ inbox \in [Peer -> Peer \cup {NoPeer}]
    /\ adding \in [Peer -> Peer \cup {NoPeer}]
    /\ addStep \in [Peer -> AddSteps]
    /\ \A p \in Peer : (addStep[p] = "idle") <=> (adding[p] = NoPeer)

\* The order of recruitment.
Rank(p) == IF p = Boot THEN 0 ELSE CHOOSE i \in 1..Len(Recruits) : Recruits[i] = p

\* The line of succession at p: the primary, then the replicas in list order.
Line(p) == <<primaryPeer[p]>> \o replicas[p]

\* Two runtimes that are up never both serve under the group's IID: onPeerClosure
\* promotes a replica only when every member before it is dead, however the
\* closures and the announcements of the members interleave.  A failed bind of
\* the data channel voids it: the recruit then holds a group nobody else knows
\* it is in.
NoSplitBrain ==
    bindFails = 0 =>
        \A p, q \in owner : alive[p] /\ alive[q] => p = q

\* Every member's line of succession follows the order of recruitment, although
\* each builds its list from its own packets and closures: any two members
\* elect the same successor among the members they both know.
SuccessionOrder ==
    \A p \in joined : \A i, j \in 1..Len(Line(p)) :
        i < j => Rank(Line(p)[i]) < Rank(Line(p)[j])

-----------------------------------------------------------------------------
(* The inductive invariant behind SuccessionOrder and NoSplitBrain         *)

\* x is in the list of p, or its primary.
Knows(p, x) ==
    x = primaryPeer[p] \/ \E i \in 1..Len(replicas[p]) : replicas[p][i] = x

\* The stages in which the recruit holds a group and the loop has not moved on.
Recruiting == stage \in {"session", "data", "announce", "send"}

\* SuccessionOrder, on the two variables that make up a line.
Sorted(p) ==
    /\ \A i \in 1..Len(replicas[p]) : Rank(primaryPeer[p]) < Rank(replicas[p][i])
    /\ \A i, j \in 1..Len(replicas[p]) :
          i < j => Rank(replicas[p][i]) < Rank(replicas[p][j])

\* The peers that hold a group are Boot and recruits already reached; whoever
\* serves under the group's IID is its own primary.
JoinedInv ==
    /\ stage # "failed" => Boot \in joined
    /\ stage \in {"find", "failed"} => joined \subseteq {Boot}
    /\ \A p \in joined : Knows(p, p) /\ primaryPeer[p] \in Peer
    /\ \A p \in Peer : p \in joined \/ p = Boot \/ primaryPeer[p] = NoPeer
    /\ \A p \in joined : p = Boot \/ \E i \in 1..Len(Recruits) :
          p = Recruits[i] /\ (i < next \/ (i = next /\ Recruiting))
    /\ Recruiting => Recruit \in joined
    /\ primaryPeer[Boot] = Boot
    /\ \A p \in owner : primaryPeer[p] = p /\ (p \in joined \/ p = Boot)

\* Only the dead are closed.
ClosingInv ==
    \A p \in Peer : closing[p] # NoPeer => ~alive[closing[p]]

\* An announcement that a live member has yet to finish is the one Boot waits for;
\* Boot dials, and nobody dials it.
AddInv ==
    /\ sending # {} \/ waiting # {} => stage = "send"
    /\ accepting[Boot] = NoPeer
    /\ control[Boot] \cup sending \cup waiting \cup acks \subseteq joined \ {Boot}
    /\ Recruiting => Recruit \notin sending \cup waiting
    /\ sending \cap waiting = {}
    /\ \A p \in acks : alive[p] => p \in waiting
    /\ \A p \in Peer : alive[p] /\ (inbox[p] # NoPeer \/ adding[p] # NoPeer) =>
          /\ p \in waiting \ acks
          /\ inbox[p] \in {NoPeer, Recruit}
          /\ adding[p] \in {NoPeer, Recruit}
          /\ inbox[p] = NoPeer \/ adding[p] = NoPeer

\* A member knows peers that hold a group; it knows the current recruit only
\* once its announcement is over, or if it is the recruit.
ListInv ==
    \A p \in joined : \A x \in Peer : Knows(p, x) =>
        /\ x \in joined
        /\ alive[p] /\ Recruiting /\ x = Recruit =>
              /\ p # Boot
              /\ stage = "send" \/ p = Recruit
              /\ p \notin sending
              /\ inbox[p] = NoPeer
              /\ adding[p] = NoPeer

\* A live member is known to every later one, and to Boot unless it is the
\* current recruit.
KnownInv ==
    bindFails = 0 =>
        /\ \A p, q \in joined : alive[q] /\ Rank(q) < Rank(p) => Knows(p, q)
        /\ \A q \in joined : alive[q] => Knows(Boot, q) \/ (Recruiting /\ q = Recruit)

IInv ==
    /\ TypeOK
    /\ JoinedInv
    /\ ClosingInv
    /\ AddInv
    /\ ListInv
    /\ \A p \in joined : Sorted(p)
    /\ KnownInv

-----------------------------------------------------------------------------
\* Once the group is formed, any two members that are up share a control channel
\* (registered, or in the hands of the acceptor): no death can go unnoticed.
FullMesh ==
    stage = "done" /\ bindFails = 0 =>
        \A p, q \in joined :
            p # q /\ alive[p] /\ alive[q] => q \in control[p] \/ accepting[p] = q

\* The service moves from one runtime to the next as ServiceFailover allows: only
\* when all that served before are dead.
Failover == INSTANCE ServiceFailover
                WITH First <- Boot,
                     up <- {p \in Peer : alive[p]},
                     served <- owner
FailoverSpec == Failover!Spec

\* The bootstrap of the group comes to an end, and after the deaths the members
\* agree on a primary that is up and knows it is the primary, unless a bind failed.
Agreed ==
    \A p \in joined : alive[p] =>
        /\ primaryPeer[p] \in owner
        /\ alive[primaryPeer[p]]
        /\ \A q \in joined : alive[q] => primaryPeer[q] = primaryPeer[p]
PrimaryAgreed ==
    <>[](/\ stage \in {"done", "failed"}
         /\ bindFails = 0 => Agreed)
=============================================================================
