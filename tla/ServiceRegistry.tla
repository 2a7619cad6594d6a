--------------------------- MODULE ServiceRegistry ---------------------------
(***************************************************************************)
(* The service instances of one runtime: the life cycle of an instance     *)
(* (ServiceAbstract), the table in which the runtime finds it              *)
(* (LocalService, SthenoCore::m_serviceMap) and the threads that meet on   *)
(* them: one that creates each instance, threads that stop an instance,    *)
(* the thread that closes the runtime, the one that renames the instance   *)
(* of a replica that becomes primary, and the application, which may       *)
(* suspend, resume or fault an instance.                                   *)
(*                                                                         *)
(* The tables are locked per operation only, the runtime's status is read  *)
(* without a lock, and an instance's lock is held while its hook (open_i,  *)
(* close_i, ...) runs.  All instances here are of one service (one SID).   *)
(***************************************************************************)
EXTENDS Naturals, FiniteSets

CONSTANTS
    Instance,    \* the instances created in the run
    Stopper,     \* threads that call stopService once
    Replicated,  \* the instances created as members of a replication group
    MaxCalls,    \* bound on the calls of suspend, resume and fault
    Nobody       \* no instance, no thread, no key

ASSUME RegistryAssumption ==
    /\ Replicated \subseteq Instance
    /\ MaxCalls \in Nat
    /\ Nobody \notin Instance \cup Stopper \cup {"runtime", "user"}
    /\ Nobody \notin Instance \X {"own", "group"}
    /\ {"runtime", "user"} \cap Stopper = {}
    /\ Instance \cap (Stopper \cup {"runtime", "user"}) = {}

VARIABLES
    runtime,   \* m_status of the runtime: "RUNNING" or "CLOSED"
    known,     \* m_serviceMap: "no" (the SID is not bound), "yes", "closed" (the map is)
    map,       \* m_runningServicesMap: the instance bound to an IID
    iid,       \* iid[i]: m_iid of an instance
    status,    \* status[i]: m_status of an instance
    owner,     \* owner[i]: the thread inside the lock of an instance
    creator,   \* creator[i]: where the thread that creates i is
    user,      \* user[i]: the hook of i the application is in
    calls,     \* the calls of suspend, resume and fault so far
    renamer,   \* renamer[i]: where the promotion of i is
    caller,    \* caller[c]: where a thread that closes instances is
    target,    \* target[c]: the instance it closes
    at,        \* the key at the iterator of LocalService::close
    visited,   \* the keys the iterator has passed
    expected,  \* the keys bound when the iteration began
    torn,      \* the entry under the iterator has been unbound
    closes,    \* history, closes[i]: the runs of close_i
    settled    \* history: the instances no thread was busy with when the runtime closed

tableVars == <<known, map, iid>>
svcVars   == <<status, owner, closes>>
userVars  == <<user, calls>>
sweepVars == <<at, visited, expected, torn>>
vars      == <<runtime, tableVars, svcVars, creator, userVars, renamer, caller, target,
               sweepVars, settled>>

Closer == Stopper \cup {"runtime"}

\* The IIDs: each instance has a fresh one and, when it is a replica, the one of
\* its group, which it takes over with the primary role.
IID == Instance \X {"own", "group"}

Status == {"NOT_INIT", "STARTING", "RUNNING", "SUSPENDING", "SUSPENDED",
           "FAULT", "RECOVERING", "CLOSING", "CLOSED"}

-----------------------------------------------------------------------------
(* The state table of ServiceAbstract                                      *)

\* changeState: the new states the handler of state s accepts.
\* Mutants: CLOSING is accepted twice; SUSPENDED cannot be closed.
Accepts(s) ==
    CASE s = "NOT_INIT"   -> {"STARTING"}
      [] s = "STARTING"   -> {"RUNNING", "FAULT", "CLOSING"}
      [] s = "RUNNING"    -> {"SUSPENDING", "FAULT", "CLOSING"}
      [] s = "SUSPENDING" -> {"SUSPENDED", "CLOSING"}
      [] s = "SUSPENDED"  -> {"STARTING", "CLOSING"}
      [] s = "FAULT"      -> {"FAULT", "RECOVERING", "CLOSING"}
      [] s = "RECOVERING" -> {"STARTING", "CLOSING", "RECOVERING"}
      [] s = "CLOSING"    -> {"CLOSED"}
      [] s = "CLOSED"     -> {}
ClosesTwice(i, s)      == s \in Accepts(status[i]) \/ (s = "CLOSING" /\ status[i] = "CLOSING")
NotFromSuspended(i, s) == s \in Accepts(status[i]) /\ (status[i] = "SUSPENDED" => s # "CLOSING")
ChangeState(i, s) == s \in Accepts(status[i])

\* A public operation of ServiceAbstract: thread t locks i and enters state s, or
\* the state table throws.
Locks(i, t, s) ==
    /\ owner[i] = Nobody
    /\ ChangeState(i, s)
    /\ owner' = [owner EXCEPT ![i] = t]
    /\ status' = [status EXCEPT ![i] = s]
Throws(i, s) == owner[i] = Nobody /\ ~ChangeState(i, s)

\* The hook of thread t ends: state s after it, and the guard unlocks.
\* Mutant: the lock is kept.
UnlocksNot(i) == owner[i]
Unlocked(i) == Nobody
Leaves(i, s) ==
    /\ status' = [status EXCEPT ![i] = s]
    /\ owner' = [owner EXCEPT ![i] = Unlocked(i)]

-----------------------------------------------------------------------------
Init ==
    /\ runtime = "RUNNING"
    /\ known = "no"
    /\ map = [k \in IID |-> Nobody]
    /\ iid = [i \in Instance |-> <<i, "own">>]
    /\ status = [i \in Instance |-> "NOT_INIT"]
    /\ owner = [i \in Instance |-> Nobody]
    /\ creator = [i \in Instance |-> "idle"]
    /\ user = [i \in Instance |-> "idle"]
    /\ calls = 0
    /\ renamer = [i \in Instance |-> "idle"]
    /\ caller = [c \in Closer |-> "idle"]
    /\ target = [c \in Closer |-> Nobody]
    /\ at = Nobody
    /\ visited = {}
    /\ expected = {}
    /\ torn = FALSE
    /\ closes = [i \in Instance |-> 0]
    /\ settled = {}

-----------------------------------------------------------------------------
(* Creating an instance                                                    *)

At(i, here) == creator[i] = here
Goes(i, there) == creator' = [creator EXCEPT ![i] = there]

\* createLocalService, createLocalServiceReplica or createReplicationGroup, up to
\* the lookup of the SID in createServiceInstance.
FindService(i) ==
    /\ At(i, "idle")
    /\ Goes(i, IF runtime # "RUNNING" THEN "failed" ELSE IF known = "yes" THEN "add" ELSE "bind")
    /\ UNCHANGED <<runtime, tableVars, svcVars, userVars, renamer, caller, target, sweepVars, settled>>

\* The SID was not found: bind a new LocalService.  It fails when another creator
\* has done so meanwhile.  Binding into a closed map brings the process down.
BindService(i) ==
    /\ At(i, "bind") /\ known # "closed"
    /\ Goes(i, IF known = "yes" THEN "failed" ELSE "add")
    /\ known' = "yes"
    /\ UNCHANGED <<runtime, map, iid, svcVars, userVars, renamer, caller, target, sweepVars, settled>>

\* addServiceInstance.
AddServiceInstance(i) ==
    /\ At(i, "add")
    /\ map' = [map EXCEPT ![iid[i]] = i]
    /\ Goes(i, "added")
    /\ UNCHANGED <<runtime, known, iid, svcVars, userVars, renamer, caller, target, sweepVars, settled>>

\* FaultTolerance::createReplicationGroup throws: the instance stays in the table.
GroupFails(i) ==
    /\ At(i, "added") /\ i \in Replicated
    /\ Goes(i, "failed")
    /\ UNCHANGED <<runtime, tableVars, svcVars, userVars, renamer, caller, target, sweepVars, settled>>

\* ServiceAbstract::open.
Open(i) ==
    /\ At(i, "added")
    /\ Locks(i, i, "STARTING")
    /\ Goes(i, "open")
    /\ UNCHANGED <<runtime, tableVars, closes, userVars, renamer, caller, target, sweepVars, settled>>

OpenReturns(i) ==
    /\ At(i, "open")
    /\ Leaves(i, "RUNNING")
    /\ Goes(i, "opened")
    /\ UNCHANGED <<runtime, tableVars, closes, userVars, renamer, caller, target, sweepVars, settled>>

OpenThrows(i) ==
    /\ At(i, "open")
    /\ Leaves(i, "STARTING")
    /\ Goes(i, "failed")
    /\ UNCHANGED <<runtime, tableVars, closes, userVars, renamer, caller, target, sweepVars, settled>>

\* getInstanceOfService and Mesh::onServiceCreation.  With the runtime closed the
\* former throws; when the instance has left the table its information is a null
\* pointer, which the mesh dereferences.
Advertise(i) ==
    /\ At(i, "opened")
    /\ Goes(i, CASE runtime # "RUNNING" \/ known # "yes" -> "failed"
                 [] map[iid[i]] = Nobody -> "crashed"
                 [] OTHER -> "done")
    /\ UNCHANGED <<runtime, tableVars, svcVars, userVars, renamer, caller, target, sweepVars, settled>>

-----------------------------------------------------------------------------
(* Closing instances                                                       *)

\* LocalService::removeServiceInstance and setIID unbind a key.
Unbind(k) ==
    /\ map' = [map EXCEPT ![k] = Nobody]
    /\ torn' = (torn \/ k = at)

\* stopService: the runtime is valid and knows the SID.
Stop(c) ==
    /\ caller[c] = "idle" /\ c \in Stopper
    /\ runtime = "RUNNING" /\ known = "yes"
    /\ caller' = [caller EXCEPT ![c] = "unbind"]
    /\ UNCHANGED <<runtime, tableVars, svcVars, creator, userVars, renamer, target, sweepVars, settled>>

\* removeServiceInstance(k) for a key k that is bound, or throws.
RemoveServiceInstance(c, k) ==
    /\ caller[c] = "unbind"
    /\ map[k] # Nobody
    /\ Unbind(k)
    /\ target' = [target EXCEPT ![c] = map[k]]
    /\ caller' = [caller EXCEPT ![c] = "close"]
    /\ UNCHANGED <<runtime, known, iid, svcVars, creator, userVars, renamer, at, visited, expected, settled>>

RemoveUnknown(c, k) ==
    /\ caller[c] = "unbind"
    /\ map[k] = Nobody
    /\ caller' = [caller EXCEPT ![c] = "done"]
    /\ UNCHANGED <<runtime, tableVars, svcVars, creator, userVars, renamer, target, sweepVars, settled>>

\* After close: a stopper is done, the runtime moves on to the next instance.
After(c) == IF c = "runtime" THEN "sweep" ELSE "done"

\* ServiceAbstract::close.
Close(c) ==
    /\ caller[c] = "close"
    /\ Locks(target[c], c, "CLOSING")
    /\ closes' = [closes EXCEPT ![target[c]] = @ + 1]
    /\ caller' = [caller EXCEPT ![c] = "closing"]
    /\ UNCHANGED <<runtime, tableVars, creator, userVars, renamer, target, sweepVars, settled>>

CloseRefused(c) ==
    /\ caller[c] = "close"
    /\ Throws(target[c], "CLOSING")
    /\ caller' = [caller EXCEPT ![c] = After(c)]
    /\ UNCHANGED <<runtime, tableVars, svcVars, creator, userVars, renamer, target, sweepVars, settled>>

\* close_i returns (CLOSED) or throws (the instance stays CLOSING).
CloseEnds(c, s) ==
    /\ caller[c] = "closing"
    /\ Leaves(target[c], s)
    /\ caller' = [caller EXCEPT ![c] = After(c)]
    /\ UNCHANGED <<runtime, tableVars, closes, creator, userVars, renamer, target, sweepVars, settled>>

-----------------------------------------------------------------------------
(* SthenoCore::close                                                       *)

CloseRuntime ==
    /\ caller["runtime"] = "idle"
    /\ runtime' = "CLOSED"
    /\ caller' = [caller EXCEPT !["runtime"] = "begin"]
    /\ settled' = {i \in Instance : /\ creator[i] = "done"
                                    /\ renamer[i] \in {"idle", "done"}
                                    /\ map[iid[i]] = i}
    /\ UNCHANGED <<tableVars, svcVars, creator, userVars, renamer, target, sweepVars>>

\* LocalService::close begins its iteration, when the SID is bound at all.
SweepBegin ==
    /\ caller["runtime"] = "begin"
    /\ expected' = IF known = "yes" THEN {k \in IID : map[k] # Nobody} ELSE {}
    /\ caller' = [caller EXCEPT !["runtime"] = "sweep"]
    /\ UNCHANGED <<runtime, tableVars, svcVars, creator, userVars, renamer, target, at, visited, torn, settled>>

\* iter++: any key not yet passed.  One bound since the iteration began may or may
\* not be met.
SweepNext(k) ==
    /\ caller["runtime"] = "sweep" /\ known = "yes"
    /\ k \notin visited /\ map[k] # Nobody
    /\ at' = k
    /\ visited' = visited \cup {k}
    /\ target' = [target EXCEPT !["runtime"] = map[k]]
    /\ caller' = [caller EXCEPT !["runtime"] = "close"]
    /\ UNCHANGED <<runtime, tableVars, svcVars, creator, userVars, renamer, expected, torn, settled>>

\* The iteration ends when it has passed the keys that were there from the
\* beginning, or anywhere once the entry under it is gone.  Then m_serviceMap.close.
SweepEnd ==
    /\ caller["runtime"] = "sweep"
    /\ torn \/ \A k \in expected : k \in visited \/ map[k] = Nobody
    /\ at' = Nobody
    /\ known' = "closed"
    /\ caller' = [caller EXCEPT !["runtime"] = "done"]
    /\ UNCHANGED <<runtime, map, iid, svcVars, creator, userVars, renamer, target, visited, expected, torn, settled>>

-----------------------------------------------------------------------------
(* changeIIDOfService: the instance of a replica that became primary       *)

ChangeIIDOfService(i) ==
    /\ renamer[i] = "idle" /\ i \in Replicated /\ creator[i] = "done"
    /\ runtime = "RUNNING" /\ known = "yes"
    /\ renamer' = [renamer EXCEPT ![i] = "unbind"]
    /\ UNCHANGED <<runtime, tableVars, svcVars, creator, userVars, caller, target, sweepVars, settled>>

\* LocalService::setIID unbinds the old key, or throws when a stopper was faster.
SetIIDUnbind(i) ==
    /\ renamer[i] = "unbind"
    /\ map[iid[i]] # Nobody
    /\ Unbind(iid[i])
    /\ renamer' = [renamer EXCEPT ![i] = "bind"]
    /\ UNCHANGED <<runtime, known, iid, svcVars, creator, userVars, caller, target, at, visited, expected, settled>>

SetIIDUnknown(i) ==
    /\ renamer[i] = "unbind"
    /\ map[iid[i]] = Nobody
    /\ renamer' = [renamer EXCEPT ![i] = "done"]
    /\ UNCHANGED <<runtime, tableVars, svcVars, creator, userVars, caller, target, sweepVars, settled>>

\* ServiceAbstract::setIID and the second bind.
\* Mutant: the instance is bound under the old key.
OldKey(i) == iid[i]
NewKey(i) == <<i, "group">>
SetIIDBind(i) ==
    /\ renamer[i] = "bind"
    /\ iid' = [iid EXCEPT ![i] = <<i, "group">>]
    /\ map' = [map EXCEPT ![NewKey(i)] = i]
    /\ renamer' = [renamer EXCEPT ![i] = "done"]
    /\ UNCHANGED <<runtime, known, svcVars, creator, userVars, caller, target, sweepVars, settled>>

-----------------------------------------------------------------------------
(* suspend, resume and fault                                               *)

\* The hook (suspend_i, resume_i, fault_i) that follows state s, and the state
\* after it when it does not throw.
Hook == [SUSPENDING |-> "SUSPENDED", STARTING |-> "RUNNING", FAULT |-> "FAULT"]

\* suspend, resume and fault, as s says.  A refused call changes nothing.
UserCall(i, s) ==
    /\ user[i] = "idle" /\ creator[i] = "done" /\ calls < MaxCalls
    /\ Locks(i, "user", s)
    /\ user' = [user EXCEPT ![i] = s]
    /\ calls' = calls + 1
    /\ UNCHANGED <<runtime, tableVars, closes, creator, renamer, caller, target, sweepVars, settled>>

\* The hook returns, or throws and leaves the state as it is.
UserHookEnds(i, s) ==
    /\ user[i] \in DOMAIN Hook
    /\ s \in {Hook[user[i]], user[i]}
    /\ Leaves(i, s)
    /\ user' = [user EXCEPT ![i] = "idle"]
    /\ UNCHANGED <<runtime, tableVars, closes, calls, creator, renamer, caller, target, sweepVars, settled>>

-----------------------------------------------------------------------------
Create(i) == \/ FindService(i) \/ BindService(i) \/ AddServiceInstance(i)
             \/ GroupFails(i) \/ Open(i) \/ OpenReturns(i) \/ OpenThrows(i) \/ Advertise(i)

CloseInstance(c) == \/ Close(c) \/ CloseRefused(c)
                    \/ \E s \in {"CLOSING", "CLOSED"} : CloseEnds(c, s)

StopInstance(c) == \E k \in IID : RemoveServiceInstance(c, k) \/ RemoveUnknown(c, k)

CloseRuntimeStep == SweepBegin \/ SweepEnd \/ \E k \in IID : SweepNext(k)

Rename(i) == SetIIDUnbind(i) \/ SetIIDUnknown(i) \/ SetIIDBind(i)

Next ==
    \/ \E i \in Instance : Create(i) \/ ChangeIIDOfService(i) \/ Rename(i)
    \/ \E i \in Instance, s \in DOMAIN Hook : UserCall(i, s)
    \/ \E i \in Instance, s \in Status : UserHookEnds(i, s)
    \/ \E c \in Stopper : Stop(c) \/ StopInstance(c)
    \/ \E c \in Closer : CloseInstance(c)
    \/ CloseRuntime \/ CloseRuntimeStep

Spec == Init /\ [][Next]_vars

\* Threads that have begun go on, a lock that stays free is taken, and the hooks
\* return.  Nothing makes the application call anything.
Fairness ==
    /\ \A i \in Instance : /\ WF_vars(Create(i))
                           /\ WF_vars(Rename(i))
                           /\ WF_vars(\E s \in Status : UserHookEnds(i, s))
    /\ \A c \in Closer : WF_vars(CloseInstance(c))
    /\ \A c \in Stopper : WF_vars(StopInstance(c))
    /\ WF_vars(CloseRuntimeStep)
FairSpec == Spec /\ Fairness

-----------------------------------------------------------------------------
\* Every variable holds a value the code could hold.
TypeOK ==
    /\ runtime \in {"RUNNING", "CLOSED"}
    /\ known \in {"no", "yes", "closed"}
    /\ map \in [IID -> Instance \cup {Nobody}]
    /\ iid \in [Instance -> IID]
    /\ status \in [Instance -> Status]
    /\ owner \in [Instance -> Instance \cup Closer \cup {"user", Nobody}]
    /\ creator \in [Instance -> {"idle", "bind", "add", "added", "open", "opened",
                                 "done", "failed", "crashed"}]
    /\ user \in [Instance -> {"idle"} \cup DOMAIN Hook]
    /\ calls \in 0..MaxCalls
    /\ renamer \in [Instance -> {"idle", "unbind", "bind", "done"}]
    /\ caller \in [Closer -> {"idle", "unbind", "begin", "sweep", "close", "closing", "done"}]
    /\ target \in [Closer -> Instance \cup {Nobody}]
    /\ at \in IID \cup {Nobody}
    /\ visited \subseteq IID
    /\ expected \subseteq IID
    /\ torn \in BOOLEAN
    /\ closes \in [Instance -> Nat]
    /\ settled \subseteq Instance

(* close_i runs at most once for an instance, whoever stops it, closes the     *)
(* runtime or faults it in between, and nothing reopens an instance after it.  *)
TeardownOnce ==
    \A i \in Instance :
        /\ closes[i] <= 1
        /\ closes[i] = 1 => status[i] \in {"CLOSING", "CLOSED"}

(* The table is faithful: what is bound to a key has that key as its IID, and  *)
(* an instance whose creation has returned is found under its IID unless a     *)
(* stopper has taken it or changeIIDOfService is between its two steps.        *)
Findable ==
    /\ \A k \in IID : map[k] # Nobody => iid[map[k]] = k
    /\ \A i \in Instance :
        creator[i] = "done" /\ renamer[i] # "bind" /\ (\A c \in Stopper : target[c] # i)
            => map[iid[i]] = i

(* When SthenoCore::close has returned, every instance that no thread was      *)
(* creating, renaming or stopping when it began has been closed, or is in the  *)
(* hands of a stopper, unless the iterator's entry was unbound under it.       *)
CloseSettles ==
    caller["runtime"] = "done" /\ ~torn =>
        \A i \in settled : \/ status[i] \in {"CLOSING", "CLOSED"}
                           \/ \E c \in Stopper : target[c] = i

(* The state table in the comment of ServiceAbstract.h, as an action property: *)
(* whatever the hooks do, an instance moves along it.                          *)
DocumentedTable == [NOT_INIT   |-> {"STARTING"},
                    STARTING   |-> {"RUNNING", "FAULT", "CLOSING"},
                    RUNNING    |-> {"SUSPENDING", "FAULT", "CLOSING"},
                    FAULT      |-> {"RECOVERING", "CLOSING"},
                    RECOVERING |-> {"RUNNING", "CLOSING"},
                    CLOSING    |-> {"CLOSED"},
                    CLOSED     |-> {},
                    SUSPENDING |-> {"SUSPENDED", "CLOSING"},
                    SUSPENDED  |-> {"STARTING", "CLOSING"}]
FollowsTable ==
    [][\A i \in Instance : status'[i] # status[i] => status'[i] \in DocumentedTable[status[i]]]_vars

(* A close of the runtime that has begun returns, and so does a stop: the      *)
(* closers, openers and users of an instance never block each other for good.  *)
CloseReturns == \A c \in Closer : caller[c] \notin {"idle", "done"} ~> caller[c] = "done"

-----------------------------------------------------------------------------
(* The inductive invariant behind the safety properties                    *)

Taken(i) == \E c \in Stopper : target[c] = i
Down(i)  == status[i] \in {"CLOSING", "CLOSED"}

\* A thread in a hook has the lock, and nobody moves the state meanwhile.
HookInv(i) ==
    /\ creator[i] = "open" => owner[i] = i /\ status[i] = "STARTING"
    /\ user[i] # "idle" => owner[i] = "user" /\ status[i] = user[i]

CloserInv(c) ==
    /\ caller[c] \in {"close", "closing"} => target[c] \in Instance
    /\ caller[c] = "closing" => owner[target[c]] = c /\ status[target[c]] = "CLOSING"
    /\ caller[c] = "unbind" => c \in Stopper
    /\ caller[c] \in {"begin", "sweep"} => c = "runtime"
    /\ c \in Stopper /\ caller[c] \in {"idle", "unbind"} => target[c] = Nobody

LifeInv(i) ==
    /\ closes[i] = IF Down(i) THEN 1 ELSE 0
    /\ status[i] # "RECOVERING"
    /\ creator[i] \in {"idle", "bind", "add", "added"} => status[i] = "NOT_INIT"
    /\ creator[i] \in {"opened", "done"} => status[i] # "NOT_INIT"

\* Where an instance may be bound, and where it must be.
KeyInv(i) ==
    /\ iid[i] \in {<<i, "own">>, <<i, "group">>}
    /\ renamer[i] # "done" => iid[i] = <<i, "own">>
    /\ renamer[i] # "idle" => creator[i] = "done"
    /\ \A k \in IID : map[k] = i => /\ k = iid[i]
                                   /\ creator[i] \notin {"idle", "bind", "add"}
                                   /\ renamer[i] # "bind"
    /\ creator[i] \in {"added", "open", "opened", "done"} /\ renamer[i] # "bind"
           => map[iid[i]] = i \/ Taken(i)
    /\ creator[i] \in {"add", "added", "open", "opened", "done"} => known # "no"

\* How far the sweep of SthenoCore::close is with an instance it must close.
SweepInv(i) ==
    i \in settled =>
        /\ creator[i] = "done" /\ renamer[i] \in {"idle", "done"}
        /\ caller["runtime"] # "begin" => iid[i] \in expected \/ Taken(i)
        /\ iid[i] \in visited
               => Down(i) \/ Taken(i) \/ (target["runtime"] = i /\ caller["runtime"] = "close")
        /\ caller["runtime"] = "done" /\ ~torn => Down(i) \/ Taken(i)

RuntimeInv ==
    /\ runtime = "CLOSED" <=> caller["runtime"] # "idle"
    /\ known = "closed" <=> caller["runtime"] = "done"
    /\ caller["runtime"] = "idle" => settled = {}
    /\ caller["runtime"] \in {"idle", "begin"} => visited = {}

IInv ==
    /\ TypeOK
    /\ RuntimeInv
    /\ \A i \in Instance : HookInv(i) /\ LifeInv(i) /\ KeyInv(i) /\ SweepInv(i)
    /\ \A c \in Closer : CloserInv(c)
=============================================================================
