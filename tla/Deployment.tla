----------------------------- MODULE Deployment -----------------------------
(***************************************************************************)
(* Deploying a service on another super-peer (SthenoCore::startService).   *)
(* A query for a site climbs from parent to parent, one synchronous call   *)
(* per hop, to the root, which names the least loaded super-peer           *)
(* (SuperPeerDiscovery, P3GeneralProvider).  The deployer then connects to *)
(* the site and waits for it to create the service                         *)
(* (P3Mesh::createRemoteService), with the lock of its own mesh held and   *)
(* without a limit.  The site of a fault-tolerant service itself queries   *)
(* for replicas and has them created, one after the other.  Every hop,     *)
(* site and replica needs the lock of its mesh for a moment.               *)
(*                                                                         *)
(* Each connection has a thread of its own at the peer that serves it.     *)
(* The climb of updateState under the mesh's lock is the subject of        *)
(* MeshInfo; it takes no other mesh's lock.  Processes end here only where *)
(* the code itself ends them.                                              *)
(***************************************************************************)
EXTENDS Naturals, Sequences, FiniteSets, SequencesExt

CONSTANTS
    None,
    Absent,        \* the id of a peer that is not there
    Coordinators,
    Followers,
    Above,         \* m_parentUUID: the peer above, None for the root
    Targets,       \* the peers that applications name, and perhaps Absent
    MaxDeployments,\* bound: the calls of startService
    Replicas,      \* getReplicaCount of a fault-tolerant service
    MaxFaults      \* bound: connections that fail

Peers == Coordinators \cup Followers

\* The calls, in the order in which they are made.
Deployments == 1..MaxDeployments

Root == CHOOSE p \in Peers : Above[p] = None

VARIABLES
    up,       \* the process of a peer runs
    holder,   \* the deployment that holds the lock of a peer's mesh
    load,     \* getTotalServicesRunning, as the root has it
    dep,
    faults

vars == <<up, holder, load, dep, faults>>

\* A call of startService: by the peer "at", for a site or for the peer
\* "target", of a fault-tolerant service or not.  "hop" is where its query
\* is, "ans" what came back.
Idle == [pc |-> "idle", at |-> None, target |-> None, ft |-> FALSE, hop |-> None,
         ans |-> "none", site |-> None, found |-> <<>>, next |-> 1]

Init ==
    /\ up = [p \in Peers |-> TRUE]
    /\ holder = [p \in Peers |-> None]
    /\ load = [p \in Peers |-> 0]
    /\ dep = [d \in Deployments |-> Idle]
    /\ faults = 0

-----------------------------------------------------------------------------
\* A peer and all above it.
Chain[p \in Peers] == {p} \cup IF Above[p] = None THEN {} ELSE Chain[Above[p]]

\* The tree of a coordinator is that of the cells below it; a follower has
\* that of its coordinator.
Knows(p) == {q \in Peers : (IF p \in Coordinators THEN p ELSE Above[p]) \in Chain[q]}

\* ACE_GUARD of P3Mesh::m_lock, which is recursive: d's own thread is the one
\* of the application at the deployer.
MayLock(p, d) ==
    /\ up[p]
    /\ holder[p] = None \/ (holder[p] = d /\ dep[d].pc \in {"query", "create"})

Set(d, rec) == dep' = [dep EXCEPT ![d] = rec]

Ends(p) == up' = [up EXCEPT ![p] = FALSE]

Fault == faults < MaxFaults /\ faults' = faults + 1

-----------------------------------------------------------------------------
(* The query.  *)

\* Who asks: the deployer for a site, the site for a replica.
Asks(d) == IF dep[d].pc = "query" THEN dep[d].at ELSE dep[d].site

Asking(d) == dep[d].pc \in {"query", "find"} /\ dep[d].ans = "none" /\ up[Asks(d)]

\* Mutant: createRemoteService's lock is taken for the whole of startService.
StartLocked(d, p, t, b) ==
    /\ dep[d].pc = "idle" /\ (d > 1 => dep[d - 1].pc # "idle")
    /\ MayLock(p, d)
    /\ b => t = None
    /\ Set(d, [Idle EXCEPT !.pc = "query", !.at = p, !.target = t, !.ft = b, !.hop = p])
    /\ holder' = [holder EXCEPT ![p] = d]
    /\ UNCHANGED <<up, load, faults>>

\* SthenoCore::startService, both forms
Start(d, p, t, b) ==
    /\ dep[d].pc = "idle" /\ (d > 1 => dep[d - 1].pc # "idle")
    /\ up[p]
    /\ b => t = None
    /\ Set(d, [Idle EXCEPT !.pc = "query", !.at = p, !.target = t, !.ft = b, !.hop = p])
    /\ UNCHANGED <<up, holder, load, faults>>

\* executeQuery of a peer with a parent: getDiscoverySAPInfo, getFID, connect
\* and send
Climb(d) ==
    LET p == dep[d].hop
    IN  /\ Asking(d) /\ p # Root
        /\ MayLock(p, d)
        /\ up[Above[p]]
        /\ Set(d, [dep[d] EXCEPT !.hop = Above[p]])
        /\ UNCHANGED <<up, holder, load, faults>>

\* executeQuery returns 0 where a connection fails; the handler of a hop
\* makes that an exception in its reply.
NoReply(d, p) == IF p = Asks(d) THEN "null" ELSE "exception"

\* The hop cannot connect to the next one, or a hop's process is gone while
\* the one below waits for it.
QueryFails(d) ==
    /\ Asking(d)
    /\ LET p == dep[d].hop
           lost == {q \in Peers : /\ Above[q] # None /\ ~ up[Above[q]]
                                  /\ q \in Chain[Asks(d)] /\ p \in Chain[q]}
       IN  \/ /\ p # Root /\ MayLock(p, d) /\ Fault
              /\ Set(d, [dep[d] EXCEPT !.ans = NoReply(d, p)])
           \/ /\ UNCHANGED faults
              /\ \E q \in lost : /\ \A x \in lost : x \in Chain[q]
                                 /\ q # p => up[q]
                                 /\ Set(d, [dep[d] EXCEPT !.ans = NoReply(d, q)])
    /\ UNCHANGED <<up, holder, load>>

\* LAUNCHSERVICESITE_QUERY: not the requester, not those found already.
Candidates(d) == Peers \ ({Asks(d)} \cup ToSet(dep[d].found))

\* executeLocalQuery at the root.  The reply to the root itself is not
\* serialized.
LocalQuery(d) ==
    LET among == IF dep[d].target # None THEN {dep[d].target} \cap Peers
                 ELSE {p \in Candidates(d) : \A q \in Candidates(d) : load[p] <= load[q]}
    IN  /\ Asking(d) /\ dep[d].hop = Root
        /\ MayLock(Root, d)
        /\ IF among = {} THEN Set(d, [dep[d] EXCEPT !.ans = NoReply(d, Root)])
           ELSE \E s \in among :
                   LET reply == [dep[d] EXCEPT !.ans = IF Asks(d) = Root THEN "local" ELSE "found"]
                   IN  Set(d, IF reply.pc = "query" THEN [reply EXCEPT !.site = s]
                              ELSE [reply EXCEPT !.found = Append(@, s)])
        /\ UNCHANGED <<up, holder, load, faults>>

-----------------------------------------------------------------------------
(* The deployer.  *)

\* The call returns, or throws, and the lock is released.
Returns(d) ==
    /\ Set(d, [dep[d] EXCEPT !.pc = "done", !.hop = None, !.ans = "none", !.next = 1])
    /\ holder' = [p \in Peers |-> IF holder[p] = d THEN None ELSE holder[p]]

\* startService reads the reply.  DiscoveryQueryReply(DiscoveryQueryReply* )
\* drops the exception, so an exception is read like a site, from a block that
\* is not there; so is the reply to the root itself.  The second form does not
\* check for a null reply either.
ReadSite(d) ==
    LET a == dep[d].ans
        p == dep[d].at
    IN  /\ dep[d].pc = "query" /\ a # "none" /\ up[p]
        /\ \/ a = "found" /\ Set(d, [dep[d] EXCEPT !.pc = "create"]) /\ UNCHANGED <<up, holder>>
           \/ /\ a = "null" /\ dep[d].target = None
              /\ Returns(d) /\ UNCHANGED up
           \/ /\ a \in {"exception", "local"} \/ (a = "null" /\ dep[d].target # None)
              /\ Ends(p) /\ UNCHANGED <<dep, holder>>
        /\ UNCHANGED <<load, faults>>

\* createRemoteService, with the lock: the site has to be in the own tree
CreateRemoteService(d) ==
    LET p == dep[d].at
    IN  /\ dep[d].pc = "create" /\ MayLock(p, d)
        /\ IF dep[d].site \in Knows(p)
           THEN /\ holder' = [holder EXCEPT ![p] = d]
                /\ Set(d, [dep[d] EXCEPT !.pc = "connect"])
           ELSE Returns(d)
        /\ UNCHANGED <<up, load, faults>>

Connect(d) ==
    /\ dep[d].pc = "connect" /\ up[dep[d].at] /\ up[dep[d].site]
    /\ Set(d, [dep[d] EXCEPT !.pc = IF dep[d].ft THEN "open" ELSE "register"])
    /\ UNCHANGED <<up, holder, load, faults>>

\* The handler is set to null and used.
ConnectFails(d) ==
    /\ dep[d].pc = "connect" /\ up[dep[d].at]
    /\ IF up[dep[d].site] THEN Fault ELSE UNCHANGED faults
    /\ Ends(dep[d].at)
    /\ UNCHANGED <<holder, load, dep>>

Serving == {"open", "find", "recruit", "register", "reply"}

\* P3MeshClientHandler::createService: a reply, or none because the site is
\* gone
Return(d) ==
    /\ dep[d].pc \in Serving /\ up[dep[d].at]
    /\ dep[d].pc = "reply" \/ ~ up[dep[d].site]
    /\ Returns(d)
    /\ UNCHANGED <<up, load, faults>>

-----------------------------------------------------------------------------
(* The site: handleServiceCreate, createLocalService.  *)

\* openPrimary: getSAP, getFID, then the first query
OpenPrimary(d) ==
    LET s == dep[d].site
    IN  /\ dep[d].pc = "open" /\ MayLock(s, d)
        /\ Set(d, [dep[d] EXCEPT !.pc = "find", !.hop = s, !.ans = "none"])
        /\ UNCHANGED <<up, holder, load, faults>>

\* findResources: without a reply the group is not opened; an exception is
\* taken for a site that it is not
ReadReplica(d) ==
    LET a == dep[d].ans
        s == dep[d].site
    IN  /\ dep[d].pc = "find" /\ a # "none" /\ up[s]
        /\ \/ /\ a \in {"found", "local"}
              /\ Set(d, IF Len(dep[d].found) = Replicas
                        THEN [dep[d] EXCEPT !.pc = "recruit"]
                        ELSE [dep[d] EXCEPT !.hop = s, !.ans = "none"])
              /\ UNCHANGED up
           \/ a = "null" /\ Set(d, [dep[d] EXCEPT !.pc = "reply"]) /\ UNCHANGED up
           \/ a = "exception" /\ Ends(s) /\ UNCHANGED dep
        /\ UNCHANGED <<holder, load, faults>>

\* addReplica: the recruit creates its replica (createLocalServiceReplica,
\* onServiceCreation).  One that cannot be reached is passed over.
AddReplica(d) ==
    LET recruit == dep[d].found[dep[d].next]
    IN  /\ dep[d].pc = "recruit" /\ up[dep[d].site]
        /\ \/ /\ MayLock(dep[d].site, d) /\ MayLock(recruit, d) /\ UNCHANGED faults
              /\ load' = [load EXCEPT ![recruit] = @ + 1]
           \/ UNCHANGED load /\ IF up[recruit] THEN Fault ELSE UNCHANGED faults
        /\ Set(d, IF dep[d].next = Replicas THEN [dep[d] EXCEPT !.pc = "register"]
                  ELSE [dep[d] EXCEPT !.next = @ + 1])
        /\ UNCHANGED <<up, holder>>

\* onServiceCreation: the root hears of the service
OnServiceCreation(d) ==
    LET s == dep[d].site
    IN  /\ dep[d].pc = "register" /\ MayLock(s, d)
        /\ load' = [load EXCEPT ![s] = @ + 1]
        /\ Set(d, [dep[d] EXCEPT !.pc = "reply"])
        /\ UNCHANGED <<up, holder, faults>>

-----------------------------------------------------------------------------
Step(d) ==
    \/ Climb(d) \/ QueryFails(d) \/ LocalQuery(d)
    \/ ReadSite(d) \/ CreateRemoteService(d) \/ Connect(d) \/ ConnectFails(d)
    \/ OpenPrimary(d) \/ ReadReplica(d) \/ AddReplica(d) \/ OnServiceCreation(d)
    \/ Return(d)

Next ==
    \E d \in Deployments :
        \/ \E p \in Peers, t \in Targets \cup {None}, b \in BOOLEAN : Start(d, p, t, b)
        \/ Step(d)

\* The threads of a deployment go on while they can; a connection does not
\* have to fail.  No behaviour goes on for ever, so what one thread can do it
\* does in the end.
Progress == \E d \in Deployments : Step(d) /\ faults' = faults

Fairness == WF_vars(Progress)

Spec == Init /\ [][Next]_vars /\ Fairness

-----------------------------------------------------------------------------
Finds(d) == dep[d].pc \in Serving \cup {"done"} /\ dep[d].ft

(***************************************************************************)
(* The replicas of a service are on different peers, none of them its site *)
(* (P3FaultTolerance::findResources).  No process ends while connections   *)
(* hold, the root itself deploys nothing, targets are there and there are  *)
(* peers enough for the replicas.                                          *)
(***************************************************************************)
Placed ==
    /\ \A d \in Deployments :
          Finds(d) => IsInjective(dep[d].found) /\ dep[d].site \notin ToSet(dep[d].found)
    /\ \/ \A p \in Peers : up[p]
       \/ faults > 0 \/ Replicas >= Cardinality(Peers)
       \/ \E d \in Deployments : dep[d].at = Root \/ dep[d].target = Absent

\* The peers whose locks a deployment takes while it has its own.
Uses(d) == IF dep[d].ft THEN Chain[dep[d].site] \cup ToSet(dep[d].found) ELSE {dep[d].site}

\* Deployments under way each of which uses a peer that another, or itself,
\* deploys from.
Entangled ==
    \E ds \in SUBSET Deployments :
        /\ ds # {}
        /\ \A d \in ds : /\ dep[d].pc \in Serving
                         /\ \E e \in ds : dep[e].at \in Uses(d)

(***************************************************************************)
(* No deployment is under way, nor holds the lock of the deployer's mesh,  *)
(* or deployments are entangled: two peers deploy on each other, a peer on *)
(* itself, or a fault-tolerant service on a peer whose queries for         *)
(* replicas pass through the deployer, or name it (createRemoteService     *)
(* holds m_lock across an untimed receivePacket).                          *)
(***************************************************************************)
DeploymentsReturned ==
    \/ \A d \in Deployments : dep[d].pc \in {"idle", "done"} \/ ~ up[dep[d].at]
    \/ Entangled
=============================================================================
