------------------------------- MODULE Medusa -------------------------------
(***************************************************************************)
(* CPU reservations.  The runtimes of a machine ask a daemon, medusad, for *)
(* a control group (a directory under /cgroup/cpu) and for their threads   *)
(* to be put into it.  MedusaClientHandler is the runtimes' side of the    *)
(* connection, MedusadCore with its service handlers the daemon's, and     *)
(* CPUCgroup works on the directories.  The daemon has one thread.         *)
(*                                                                         *)
(* Cgroup::PARTITIONING is a constant of the build: with it a runtime's    *)
(* domain exists once in every partition, without it (as in the source)    *)
(* once, beside the partition BE.  Packets are whole: MedusaFraming is     *)
(* about their bytes.                                                      *)
(***************************************************************************)
EXTENDS Integers, Sequences, FiniteSets

CONSTANTS
    Runtimes, NoRuntime,
    Workers,       \* the other threads of a runtime that make calls
    Partitioning,  \* Cgroup::PARTITIONING
    Orderly,       \* a runtime is stopped only when it is open, and its threads have
                   \* left their groups when its connection closes
    MaxCalls,      \* bound: calls of the workers of a runtime
    MaxFaults,     \* bound: control groups the system refuses to make
    MaxRestarts    \* bound: restarts of the daemon

\* "main" opens the runtime, "reader" is the thread of MedusaClient.
Threads == Runtimes \X ({"main", "reader"} \cup Workers)

\* A directory: the partition, "" for none, and the runtime it is for.
Root == <<"", NoRuntime>>
Gone == <<"gone", NoRuntime>>   \* a working directory that has been removed
Nowhere == <<"dead", NoRuntime>> \* the group of a thread that has ended
Partition(name) == <<name, NoRuntime>>
Presets == IF Partitioning THEN {Partition("BE"), Partition("HRT")}
           ELSE {Partition("BE")}
Paths == {"", "BE", "HRT"} \X (Runtimes \cup {NoRuntime})

VARIABLES
    daemon,    \* "up" or "down"
    dirs,      \* the directories below the root
    cwd,       \* the daemon's working directory
    at,        \* the group of every thread
    conn,      \* the daemon's handler: "none", "accepted", "known" or "closed"
    requests,  \* what a runtime has sent and the daemon has not read
    output,    \* output_queue_ of the handler
    replies,   \* what the daemon has sent and the runtime has not read
    mode,      \* "off", "connecting", "opening", "running" or "ended"
    seq,       \* m_sequenceID
    pending,   \* m_pendingRequests, with the thread whose future it points to
    call,      \* what a thread is doing
    told,      \* the thread was told that it is in its runtime's domain
    calls, faults, restarts

daemonVars == <<daemon, dirs, cwd, conn, requests, output>>
clientVars == <<mode, seq, pending, call, told, calls>>
vars == <<daemon, dirs, cwd, at, conn, requests, output, replies,
          mode, seq, pending, call, told, calls, faults, restarts>>

Idle == [state |-> "idle", op |-> "none", id |-> 0, task |-> "none"]

Init ==
    /\ daemon = "up"
    /\ dirs = Presets
    /\ cwd = Root
    /\ at = [t \in Threads |-> Root]
    /\ conn = [r \in Runtimes |-> "none"]
    /\ requests = [r \in Runtimes |-> <<>>]
    /\ output = [r \in Runtimes |-> <<>>]
    /\ replies = [r \in Runtimes |-> <<>>]
    /\ mode = [r \in Runtimes |-> "off"]
    /\ seq = [r \in Runtimes |-> 0]
    /\ pending = [r \in Runtimes |-> {}]
    /\ call = [t \in Threads |-> Idle]
    /\ told = [t \in Threads |-> FALSE]
    /\ calls = [r \in Runtimes |-> 0]
    /\ faults = 0
    /\ restarts = 0

-----------------------------------------------------------------------------
(* The runtimes. *)

\* MedusaClient::open: the connection is made.
Connect(r) ==
    /\ mode[r] = "off" /\ daemon = "up"
    /\ mode' = [mode EXCEPT ![r] = "connecting"]
    /\ conn' = [conn EXCEPT ![r] = "accepted"]
    /\ UNCHANGED <<daemon, dirs, cwd, at, requests, output, replies, seq,
                   pending, call, told, calls, faults, restarts>>

\* There is no daemon: the runtime does not start.
ConnectFails(r) ==
    /\ mode[r] = "off" /\ daemon = "down"
    /\ mode' = [mode EXCEPT ![r] = "ended"]
    /\ UNCHANGED <<daemonVars, at, replies, seq, pending, call, told, calls,
                   faults, restarts>>

\* A packet without an identifier takes the next one.
SendInit(r) ==
    /\ mode[r] = "connecting" /\ conn[r] # "closed"
    /\ mode' = [mode EXCEPT ![r] = "opening"]
    /\ seq' = [seq EXCEPT ![r] = @ + 1]
    /\ requests' = [requests EXCEPT ![r] =
                       Append(@, [op |-> "init", id |-> seq[r] + 1, thread |-> <<r, "main">>])]
    /\ UNCHANGED <<daemon, dirs, cwd, at, conn, output, replies, pending, call,
                   told, calls, faults, restarts>>

\* Mutant: the identifier is the number of pending requests, not a new one.
CallReused(t, op, task) ==
    LET r == t[1]
        id == Cardinality(pending[r]) + 2
    IN  /\ call[t].state = "idle"
        /\ call' = [call EXCEPT ![t] = [state |-> "ready", op |-> op, id |-> id,
                                           task |-> <<r, task>>]]
        /\ seq' = [seq EXCEPT ![r] = id]
        /\ pending' = [pending EXCEPT ![r] = @ \cup {[id |-> id, thread |-> t]}]

\* Under the lock: the next identifier, and the future under it.
Call(t, op, task) ==
    LET r == t[1]
        id == seq[r] + 1
    IN  /\ call[t].state = "idle"
        /\ call' = [call EXCEPT ![t] = [state |-> "ready", op |-> op, id |-> id,
                                           task |-> <<r, task>>]]
        /\ seq' = [seq EXCEPT ![r] = id]
        /\ pending' = [pending EXCEPT ![r] = @ \cup {[id |-> id, thread |-> t]}]

CreateRuntimeCPUReserve(t) == Call(t, "reserve", t[2])
SetTaskInCPUPartition(t, task) == Call(t, "place", task)
GetCPUPartitionList(t) == Call(t, "list", t[2])

\* QoSManager::open, in the thread that opens the runtime and holds its lock.
OpenStep(r) ==
    /\ mode[r] = "opening"
    /\ CASE calls[r] = 0 -> CreateRuntimeCPUReserve(<<r, "main">>)
         [] calls[r] = 1 -> SetTaskInCPUPartition(<<r, "main">>, "main")
         [] calls[r] = 2 -> SetTaskInCPUPartition(<<r, "main">>, "reader")
    /\ UNCHANGED <<daemonVars, at, replies, mode, told, calls, faults, restarts>>

\* Another thread of an open runtime: Task::setQoS, or a list of partitions.
WorkerCall(t) ==
    /\ mode[t[1]] = "running" /\ t[2] \in Workers
    /\ calls[t[1]] < MaxCalls + 3
    /\ SetTaskInCPUPartition(t, t[2]) \/ GetCPUPartitionList(t)
    /\ calls' = [calls EXCEPT ![t[1]] = @ + 1]
    /\ UNCHANGED <<daemonVars, at, replies, mode, told, faults, restarts>>

\* The call is over.  The opening thread goes on to the next, or is done and
\* releases the runtime's lock.
Returned(t) ==
    LET r == t[1] IN
    /\ call' = [call EXCEPT ![t] = Idle]
    /\ IF t[2] = "main"
       THEN /\ calls' = [calls EXCEPT ![r] = @ + 1]
            /\ mode' = [mode EXCEPT ![r] = IF calls[r] = 2 THEN "running" ELSE @]
       ELSE UNCHANGED <<calls, mode>>

\* A send that fails returns, and leaves the future among the pending ones.
Send(t) ==
    LET r == t[1] IN
    /\ call[t].state = "ready"
    /\ IF conn[r] = "closed"
       THEN Returned(t) /\ UNCHANGED requests
       ELSE /\ requests' = [requests EXCEPT ![r] =
                   Append(@, [op |-> call[t].op, id |-> call[t].id, thread |-> call[t].task])]
            /\ call' = [call EXCEPT ![t].state = "waiting"]
            /\ UNCHANGED <<mode, calls>>
    /\ UNCHANGED <<daemon, dirs, cwd, at, conn, output, replies, seq, pending,
                   told, faults, restarts>>

\* The reader finds the future by the identifier and sets it; the thread wakes.
HandlePacket(r) ==
    /\ mode[r] \in {"opening", "running"}
    /\ replies[r] # <<>>
    /\ LET id == Head(replies[r])
           found == {e \in pending[r] : e.id = id}
       IN  /\ replies' = [replies EXCEPT ![r] = Tail(@)]
           /\ pending' = [pending EXCEPT ![r] = @ \ found]
           /\ IF found = {} THEN UNCHANGED <<call, told, calls, mode>>
              ELSE \E e \in found :
                      /\ Returned(e.thread)
                      /\ told' = [told EXCEPT ![call[e.thread].task] =
                                     @ \/ call[e.thread].op = "place"]
    /\ UNCHANGED <<daemonVars, at, seq, faults, restarts>>

\* The process ends: its connection is closed, and its threads are in their
\* groups until the kernel is done with them.
ProcessEnds(r) ==
    /\ mode' = [mode EXCEPT ![r] = "ended"]
    /\ call' = [t \in Threads |-> IF t[1] = r THEN Idle ELSE call[t]]
    /\ told' = [t \in Threads |-> told[t] /\ t[1] # r]
    /\ at' = IF Orderly THEN [t \in Threads |-> IF t[1] = r THEN Nowhere ELSE at[t]]
             ELSE at
    /\ pending' = [pending EXCEPT ![r] = {}]
    /\ replies' = [replies EXCEPT ![r] = <<>>]
    /\ UNCHANGED <<daemonVars, seq, calls, faults, restarts>>

\* The runtime is stopped, or crashes.
End(r) ==
    /\ mode[r] \in IF Orderly THEN {"running"} ELSE {"connecting", "opening", "running"}
    /\ ProcessEnds(r)

\* The daemon is gone.  The reader closes the runtime, which takes the lock
\* that is held until the runtime is open, and exits.
RuntimeError(r) ==
    /\ mode[r] = "running" /\ conn[r] = "closed" /\ replies[r] = <<>>
    /\ ProcessEnds(r)

\* The daemon has gone since the connection was made: the first packet cannot be sent,
\* open throws, and the runtime does not start.
SendInitFails(r) ==
    /\ mode[r] = "connecting" /\ conn[r] = "closed"
    /\ ProcessEnds(r)

Reap(t) ==
    /\ mode[t[1]] = "ended" /\ at[t] # Nowhere
    /\ at' = [at EXCEPT ![t] = Nowhere]
    /\ UNCHANGED <<daemonVars, replies, clientVars, faults, restarts>>

-----------------------------------------------------------------------------
(* The daemon. *)

\* An exception nobody catches, or a null pointer: the process ends.
DaemonEnds ==
    /\ daemon' = "down"
    /\ conn' = [r \in Runtimes |-> IF conn[r] = "none" THEN "none" ELSE "closed"]
    /\ requests' = [r \in Runtimes |-> <<>>]
    /\ output' = [r \in Runtimes |-> <<>>]

Reply(r, m) ==
    /\ requests' = [requests EXCEPT ![r] = Tail(@)]
    /\ output' = [output EXCEPT ![r] = Append(@, m.id)]

\* The packet of MedusaClientHandler::open names the runtime.
HandleInit(r, m) ==
    /\ m.op = "init"
    /\ conn' = [conn EXCEPT ![r] = "known"]
    /\ requests' = [requests EXCEPT ![r] = Tail(@)]
    /\ UNCHANGED <<daemon, dirs, cwd, at, output, faults>>

\* readChildrenDirectories changes to the root.
HandleList(r, m) ==
    /\ m.op = "list"
    /\ cwd' = Root
    /\ Reply(r, m)
    /\ UNCHANGED <<daemon, dirs, at, conn, faults>>

Domain(r) == <<IF Partitioning THEN "HRT" ELSE "", r>>

\* Mutant: a failed write is not answered.
HandlePlaceSilent(r, m) ==
    /\ m.op = "place"
    /\ IF Domain(r) \in dirs
       THEN at' = [at EXCEPT ![m.thread] = Domain(r)] /\ Reply(r, m)
       ELSE /\ requests' = [requests EXCEPT ![r] = Tail(@)]
            /\ UNCHANGED <<at, output>>
    /\ UNCHANGED <<daemon, dirs, cwd, conn, faults>>

\* writeFile only logs that there is no such file, so the answer is always 0.
HandlePlace(r, m) ==
    /\ m.op = "place"
    /\ at' = IF Domain(r) \in dirs /\ mode[r] # "ended"
             THEN [at EXCEPT ![m.thread] = Domain(r)] ELSE at
    /\ Reply(r, m)
    /\ UNCHANGED <<daemon, dirs, cwd, conn, faults>>

\* With partitions: the directories the daemon finds below the root.
Parents == IF Partitioning THEN {d \in dirs : d[2] = NoRuntime} ELSE {Root}

\* getCPUReservationGroup changes to every parent in turn.
HandleReserve(r, m) ==
    LET made == {<<p[1], r>> : p \in Parents} IN
    /\ m.op = "reserve"
    /\ \/ /\ made \cap dirs = {}
          /\ dirs' = dirs \cup made
          /\ cwd' \in IF Parents = {} THEN {Root} ELSE Parents
          /\ Reply(r, m)
          /\ UNCHANGED <<daemon, at, conn, faults>>
       \/ \* mkdir or a setting fails: thrown by value, caught by pointer
          /\ made \cap dirs # {} \/ faults < MaxFaults
          /\ faults' = faults + 1
          /\ \E some \in SUBSET made : dirs' = dirs \cup some
          /\ cwd' \in IF Parents = {} THEN {Root} ELSE Parents
          /\ DaemonEnds
          /\ UNCHANGED at

HandleInput(r) ==
    /\ daemon = "up" /\ requests[r] # <<>>
    /\ LET m == Head(requests[r])
       IN  \/ HandleInit(r, m)
           \/ HandleList(r, m)
           \/ HandlePlace(r, m)
           \/ HandleReserve(r, m)
    /\ UNCHANGED <<replies, clientVars, restarts>>

HandleOutput(r) ==
    /\ daemon = "up" /\ output[r] # <<>>
    /\ output' = [output EXCEPT ![r] = Tail(@)]
    /\ replies' = IF mode[r] = "ended" THEN replies
                  ELSE [replies EXCEPT ![r] = Append(@, Head(output[r]))]
    /\ UNCHANGED <<daemon, dirs, cwd, at, conn, requests, clientVars, faults, restarts>>

-----------------------------------------------------------------------------
Below(d, base) ==
    \/ base = Root
    \/ base[1] = d[1] /\ base[2] = NoRuntime /\ d[2] # NoRuntime

\* Threads the kernel no longer moves.
Dying == {t \in Threads : mode[t[1]] = "ended" /\ at[t] # Nowhere}

\* Which live threads are behind one of them in the list that is migrated.
Stuck == IF Dying = {} THEN {{}}
         ELSE SUBSET {t \in Threads \ Dying : at[t] \notin {Root, Nowhere}}

\* reset_i gathers the tasks of a directory and of all below it.
Listed(s, base) ==
    {t \in Threads : \/ s.at[t] = base
                     \/ (s.at[t] \in s.dirs /\ Below(s.at[t], base))}

\* The tasks are written to the root's file through one stream, which takes
\* nothing more after the first one that is refused.
MigrateTasks(s, tasks, stuck) ==
    LET kept == IF tasks \cap Dying = {} THEN {} ELSE Dying \cup stuck
    IN  [s EXCEPT !.at = [t \in Threads |-> IF t \in tasks \ kept THEN Root ELSE s.at[t]]]

\* A directory that still has a task cannot be removed: that is thrown.
RemoveTree(s, base) ==
    LET tree == {d \in s.dirs : Below(d, base)}
        busy == {d \in tree : \E t \in Threads : s.at[t] = d}
    IN  IF busy = {} THEN [s EXCEPT !.dirs = @ \ tree] ELSE [s EXCEPT !.ok = FALSE]

\* Mutant: nothing is done for a directory that does not exist.
RemoveSubDomainChecked(s, dir, stuck) ==
    IF dir \notin s.dirs THEN s
    ELSE LET done == RemoveTree(MigrateTasks(s, Listed(s, dir), stuck), dir)
         IN  [done EXCEPT !.dirs = @ \ {dir}, !.cwd = Gone]

\* chdir fails for a directory that does not exist, which is only logged: the
\* rest is done to the working directory.
RemoveSubDomain(s, dir, stuck) ==
    LET base == IF dir \in s.dirs THEN dir ELSE s.cwd
        done == RemoveTree(MigrateTasks(s, Listed(s, base), stuck), base)
        empty == \A t \in Threads : done.at[t] # dir
    IN  IF ~done.ok THEN [done EXCEPT !.cwd = base]
        ELSE IF dir \in done.dirs /\ empty
        THEN [done EXCEPT !.dirs = @ \ {dir}, !.cwd = Gone]
        ELSE [done EXCEPT !.cwd = base]

OnCloseHandle(r, stuck) ==
    LET s == RemoveSubDomain([dirs |-> dirs, at |-> at, cwd |-> cwd, ok |-> TRUE],
                             <<"HRT", r>>, stuck)
    IN  IF s.ok THEN RemoveSubDomain(s, <<"BE", r>>, stuck) ELSE s

\* The end of the stream, behind all that the runtime has sent.  A handler that
\* does not know its runtime yet uses a null UUID.
HandleClose(r) ==
    /\ daemon = "up" /\ mode[r] = "ended"
    /\ conn[r] \in {"accepted", "known"}
    /\ requests[r] = <<>>
    /\ IF conn[r] = "accepted"
       THEN DaemonEnds /\ UNCHANGED <<dirs, at, cwd>>
       ELSE \E stuck \in Stuck :
              LET s == OnCloseHandle(r, stuck)
              IN  /\ dirs' = s.dirs /\ at' = s.at /\ cwd' = s.cwd
                  /\ IF s.ok
                     THEN /\ conn' = [conn EXCEPT ![r] = "closed"]
                          /\ output' = [output EXCEPT ![r] = <<>>]
                          /\ UNCHANGED <<daemon, requests>>
                     ELSE DaemonEnds
    /\ UNCHANGED <<replies, clientVars, faults, restarts>>

Reset(stuck) ==
    LET s == [dirs |-> dirs, at |-> at, cwd |-> Root, ok |-> TRUE]
    IN  RemoveTree(MigrateTasks(s, Listed(s, Root), stuck), Root)

\* A new daemon empties the root and makes the partitions; it does not come up
\* when a directory cannot be removed.
Restart ==
    /\ daemon = "down" /\ restarts < MaxRestarts
    /\ restarts' = restarts + 1
    /\ \E stuck \in Stuck :
          LET s == Reset(stuck)
          IN  /\ at' = s.at
              /\ cwd' = Root
              /\ dirs' = IF s.ok THEN Presets ELSE s.dirs
              /\ daemon' = IF s.ok THEN "up" ELSE "down"
    /\ UNCHANGED <<conn, requests, output, replies, clientVars, faults>>

Next ==
    \/ \E r \in Runtimes :
          \/ Connect(r) \/ ConnectFails(r) \/ SendInit(r) \/ OpenStep(r)
          \/ HandlePacket(r) \/ End(r) \/ RuntimeError(r) \/ SendInitFails(r)
          \/ HandleInput(r) \/ HandleOutput(r) \/ HandleClose(r)
    \/ \E t \in Threads : WorkerCall(t) \/ Send(t) \/ Reap(t)
    \/ Restart

\* The threads of both sides run, and the daemon's reactor serves every handler.
\* Nothing makes a runtime start, call or end, or the daemon come back.  No
\* behaviour goes on for ever, so what one thread can do it does in the end.
Progress ==
    \/ \E r \in Runtimes :
          \/ SendInit(r) \/ SendInitFails(r)
          \/ OpenStep(r) \/ HandlePacket(r) \/ RuntimeError(r)
          \/ HandleInput(r) \/ HandleOutput(r)
    \/ \E t \in Threads : Send(t)

Fairness == WF_vars(Progress)

Spec == Init /\ [][Next]_vars /\ Fairness

-----------------------------------------------------------------------------
(***************************************************************************)
(* The types: in particular every directory is one the daemon makes, and   *)
(* the working directory exists or has been removed.                       *)
(***************************************************************************)
TypeOK ==
    /\ daemon \in {"up", "down"}
    /\ dirs \subseteq Paths \ {Root}
    /\ cwd \in dirs \cup {Root, Gone}
    /\ \A t \in Threads : at[t] \in dirs \cup {Root, Nowhere}
    /\ conn \in [Runtimes -> {"none", "accepted", "known", "closed"}]
    /\ mode \in [Runtimes -> {"off", "connecting", "opening", "running", "ended"}]
    /\ \A r \in Runtimes : \A e \in pending[r] : e.id \in 2..seq[r] /\ e.thread[1] = r
    /\ \A t \in Threads : told[t] \in BOOLEAN

\* The calls of a runtime that are on their way, at the daemon, or answered.
UnderWay(r) ==
    {replies[r][i] : i \in DOMAIN replies[r]} \cup {output[r][i] : i \in DOMAIN output[r]}
    \cup {requests[r][i].id : i \in {j \in DOMAIN requests[r] : requests[r][j].op # "init"}}

(***************************************************************************)
(* An answer finds its caller: the future under the identifier of a        *)
(* request on its way, at the daemon, or answered, is that of the thread   *)
(* that sent it and still waits.  The future is on the caller's stack, so  *)
(* an answer to one that has returned would write into a dead frame.       *)
(***************************************************************************)
AnswersFindTheirCaller ==
    \A r \in Runtimes : mode[r] \in {"opening", "running"} =>
        \A id \in UnderWay(r) : \E e \in pending[r] :
            /\ e.id = id /\ \A f \in pending[r] : f.id = id => f = e
            /\ call[e.thread].state = "waiting" /\ call[e.thread].id = id

(***************************************************************************)
(* When the daemon has closed a runtime's connection, nothing of the       *)
(* runtime is left: no directory, and no thread in one.                    *)
(***************************************************************************)
CleanedUp ==
    daemon = "up" =>
        \A r \in Runtimes : conn[r] = "closed" => \A d \in dirs : d[2] # r

(***************************************************************************)
(* A thread that was told it is in the domain of its runtime is there, as  *)
(* long as the daemon and the connection are (setTaskInCPUPartition        *)
(* returned and threw nothing).                                            *)
(***************************************************************************)
Placed ==
    \A t \in Threads :
        (told[t] /\ daemon = "up" /\ conn[t[1]] = "known") => at[t] = Domain(t[1])

(***************************************************************************)
(* A call returns, or the runtime ends: no thread waits for ever on its    *)
(* future, which has no timeout.                                           *)
(***************************************************************************)
AllReturned == \A t \in Threads : call[t].state = "idle"
=============================================================================
