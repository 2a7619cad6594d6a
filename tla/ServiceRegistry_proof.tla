------------------------ MODULE ServiceRegistry_proof ------------------------
(* Proofs about ServiceRegistry, for any sets of instances and stoppers.     *)
EXTENDS ServiceRegistry, TLAPS

-----------------------------------------------------------------------------
(* The keys and the state table                                            *)

\* The keys of an instance are its own.
LEMMA Keys ==
    /\ \A i \in Instance : <<i, "own">> \in IID /\ <<i, "group">> \in IID
    /\ \A i, j : <<i, "own">> # <<j, "group">>
    /\ \A i, j : <<i, "own">> = <<j, "own">> => i = j
    /\ \A i, j : <<i, "group">> = <<j, "group">> => i = j
    /\ Nobody \notin IID
  BY RegistryAssumption DEF IID

\* What the state table says of closing, starting and the rest.
LEMMA Table ==
    ASSUME NEW s \in Status
    PROVE  /\ "CLOSING" \in Accepts(s) <=> s \notin {"NOT_INIT", "CLOSING", "CLOSED"}
           /\ "STARTING" \in Accepts(s) <=> s \in {"NOT_INIT", "SUSPENDED", "RECOVERING"}
           /\ "SUSPENDING" \in Accepts(s) <=> s = "RUNNING"
           /\ "FAULT" \in Accepts(s) <=> s \in {"STARTING", "RUNNING", "FAULT"}
  BY DEF Accepts, Status

\* The hooks of the application.
LEMMA Hooks ==
    /\ DOMAIN Hook = {"SUSPENDING", "STARTING", "FAULT"}
    /\ Hook["SUSPENDING"] = "SUSPENDED" /\ Hook["STARTING"] = "RUNNING" /\ Hook["FAULT"] = "FAULT"
  BY DEF Hook

\* Two instances that share a key are one.
LEMMA OneKey ==
    ASSUME NEW i \in Instance, NEW j \in Instance, KeyInv(i), KeyInv(j), iid[i] = iid[j]
    PROVE  i = j
  BY Keys DEF KeyInv

\* The threads are told apart.
LEMMA Threads ==
    /\ \A i \in Instance : i # Nobody /\ i # "user" /\ i \notin Closer
    /\ \A c \in Closer : c # Nobody /\ c # "user"
    /\ "user" # Nobody
    /\ "runtime" \in Closer /\ "runtime" \notin Stopper /\ Stopper \subseteq Closer
  BY RegistryAssumption DEF Closer

-----------------------------------------------------------------------------
(* One lemma for each step                                                 *)

\* FindService preserves the invariant.
LEMMA FindServiceInv ==
    ASSUME IInv, NEW i \in Instance, FindService(i)
    PROVE  IInv'
  <1> USE DEF tableVars, svcVars, userVars, sweepVars, At, Goes
  <1>1. TypeOK /\ RuntimeInv
    BY DEF IInv
  <1>2. \A j \in Instance : HookInv(j) /\ LifeInv(j) /\ KeyInv(j) /\ SweepInv(j)
    BY DEF IInv
  <1>3. \A d \in Closer : CloserInv(d)
    BY DEF IInv
  <1>4. TypeOK'
    BY <1>1, <1>2, <1>3, Keys, Hooks, Threads DEF FindService, TypeOK, Status, CloserInv
  <1>5. RuntimeInv'
    BY <1>1, <1>3, Threads DEF FindService, RuntimeInv, CloserInv, TypeOK
  <1>6. ASSUME NEW j \in Instance PROVE HookInv(j)'
    BY <1>1, <1>2, <1>3, Threads, Hooks DEF FindService, HookInv, CloserInv, TypeOK
  <1>7. ASSUME NEW j \in Instance PROVE LifeInv(j)'
    BY <1>1, <1>2, <1>3, Threads, Table, Hooks DEF FindService, HookInv, LifeInv, CloserInv, Down, TypeOK
  <1>8. ASSUME NEW j \in Instance PROVE KeyInv(j)'
    BY <1>1, <1>2, <1>3, Keys, Threads DEF FindService, KeyInv, CloserInv, TypeOK, Taken
  <1>9. ASSUME NEW j \in Instance PROVE SweepInv(j)'
    BY <1>1, <1>2, <1>3, Threads, Table, Hooks DEF FindService, SweepInv, KeyInv, RuntimeInv, CloserInv, TypeOK, Taken, Down, HookInv, LifeInv, Status
  <1>10. ASSUME NEW d \in Closer PROVE CloserInv(d)'
    BY <1>1, <1>2, <1>3, Threads, Hooks DEF FindService, CloserInv, HookInv, TypeOK
  <1> QED
    BY <1>4, <1>5, <1>6, <1>7, <1>8, <1>9, <1>10 DEF IInv

\* BindService preserves the invariant.
LEMMA BindServiceInv ==
    ASSUME IInv, NEW i \in Instance, BindService(i)
    PROVE  IInv'
  <1> USE DEF tableVars, svcVars, userVars, sweepVars, At, Goes
  <1>1. TypeOK /\ RuntimeInv
    BY DEF IInv
  <1>2. \A j \in Instance : HookInv(j) /\ LifeInv(j) /\ KeyInv(j) /\ SweepInv(j)
    BY DEF IInv
  <1>3. \A d \in Closer : CloserInv(d)
    BY DEF IInv
  <1>4. TypeOK'
    BY <1>1, <1>2, <1>3, Keys, Hooks, Threads DEF BindService, TypeOK, Status, CloserInv
  <1>5. RuntimeInv'
    BY <1>1, <1>3, Threads DEF BindService, RuntimeInv, CloserInv, TypeOK
  <1>6. ASSUME NEW j \in Instance PROVE HookInv(j)'
    BY <1>1, <1>2, <1>3, Threads, Hooks DEF BindService, HookInv, CloserInv, TypeOK
  <1>7. ASSUME NEW j \in Instance PROVE LifeInv(j)'
    BY <1>1, <1>2, <1>3, Threads, Table, Hooks DEF BindService, HookInv, LifeInv, CloserInv, Down, TypeOK
  <1>8. ASSUME NEW j \in Instance PROVE KeyInv(j)'
    BY <1>1, <1>2, <1>3, Keys, Threads DEF BindService, KeyInv, CloserInv, TypeOK, Taken
  <1>9. ASSUME NEW j \in Instance PROVE SweepInv(j)'
    BY <1>1, <1>2, <1>3, Threads, Table, Hooks DEF BindService, SweepInv, KeyInv, RuntimeInv, CloserInv, TypeOK, Taken, Down, HookInv, LifeInv, Status
  <1>10. ASSUME NEW d \in Closer PROVE CloserInv(d)'
    BY <1>1, <1>2, <1>3, Threads, Hooks DEF BindService, CloserInv, HookInv, TypeOK
  <1> QED
    BY <1>4, <1>5, <1>6, <1>7, <1>8, <1>9, <1>10 DEF IInv

\* AddServiceInstance preserves the invariant.
LEMMA AddServiceInstanceInv ==
    ASSUME IInv, NEW i \in Instance, AddServiceInstance(i)
    PROVE  IInv'
  <1> USE DEF tableVars, svcVars, userVars, sweepVars, At, Goes
  <1>1. TypeOK /\ RuntimeInv
    BY DEF IInv
  <1>2. \A j \in Instance : HookInv(j) /\ LifeInv(j) /\ KeyInv(j) /\ SweepInv(j)
    BY DEF IInv
  <1>3. \A d \in Closer : CloserInv(d)
    BY DEF IInv
  <1>4. TypeOK'
    BY <1>1, <1>2, <1>3, Keys, Hooks, Threads DEF AddServiceInstance, TypeOK, Status, CloserInv
  <1>5. RuntimeInv'
    BY <1>1, <1>3, Threads DEF AddServiceInstance, RuntimeInv, CloserInv, TypeOK
  <1>6. ASSUME NEW j \in Instance PROVE HookInv(j)'
    BY <1>1, <1>2, <1>3, Threads, Hooks DEF AddServiceInstance, HookInv, CloserInv, TypeOK
  <1>7. ASSUME NEW j \in Instance PROVE LifeInv(j)'
    BY <1>1, <1>2, <1>3, Threads, Table, Hooks DEF AddServiceInstance, HookInv, LifeInv, CloserInv, Down, TypeOK
  <1>8. ASSUME NEW j \in Instance PROVE KeyInv(j)'
    BY <1>1, <1>2, <1>3, Keys, Threads DEF AddServiceInstance, KeyInv, CloserInv, TypeOK, Taken
  <1>9. ASSUME NEW j \in Instance PROVE SweepInv(j)'
    BY <1>1, <1>2, <1>3, Threads, Table, Hooks DEF AddServiceInstance, SweepInv, KeyInv, RuntimeInv, CloserInv, TypeOK, Taken, Down, HookInv, LifeInv, Status
  <1>10. ASSUME NEW d \in Closer PROVE CloserInv(d)'
    BY <1>1, <1>2, <1>3, Threads, Hooks DEF AddServiceInstance, CloserInv, HookInv, TypeOK
  <1> QED
    BY <1>4, <1>5, <1>6, <1>7, <1>8, <1>9, <1>10 DEF IInv

\* GroupFails preserves the invariant.
LEMMA GroupFailsInv ==
    ASSUME IInv, NEW i \in Instance, GroupFails(i)
    PROVE  IInv'
  <1> USE DEF tableVars, svcVars, userVars, sweepVars, At, Goes
  <1>1. TypeOK /\ RuntimeInv
    BY DEF IInv
  <1>2. \A j \in Instance : HookInv(j) /\ LifeInv(j) /\ KeyInv(j) /\ SweepInv(j)
    BY DEF IInv
  <1>3. \A d \in Closer : CloserInv(d)
    BY DEF IInv
  <1>4. TypeOK'
    BY <1>1, <1>2, <1>3, Keys, Hooks, Threads DEF GroupFails, TypeOK, Status, CloserInv
  <1>5. RuntimeInv'
    BY <1>1, <1>3, Threads DEF GroupFails, RuntimeInv, CloserInv, TypeOK
  <1>6. ASSUME NEW j \in Instance PROVE HookInv(j)'
    BY <1>1, <1>2, <1>3, Threads, Hooks DEF GroupFails, HookInv, CloserInv, TypeOK
  <1>7. ASSUME NEW j \in Instance PROVE LifeInv(j)'
    BY <1>1, <1>2, <1>3, Threads, Table, Hooks DEF GroupFails, HookInv, LifeInv, CloserInv, Down, TypeOK
  <1>8. ASSUME NEW j \in Instance PROVE KeyInv(j)'
    BY <1>1, <1>2, <1>3, Keys, Threads DEF GroupFails, KeyInv, CloserInv, TypeOK, Taken
  <1>9. ASSUME NEW j \in Instance PROVE SweepInv(j)'
    BY <1>1, <1>2, <1>3, Threads, Table, Hooks DEF GroupFails, SweepInv, KeyInv, RuntimeInv, CloserInv, TypeOK, Taken, Down, HookInv, LifeInv, Status
  <1>10. ASSUME NEW d \in Closer PROVE CloserInv(d)'
    BY <1>1, <1>2, <1>3, Threads, Hooks DEF GroupFails, CloserInv, HookInv, TypeOK
  <1> QED
    BY <1>4, <1>5, <1>6, <1>7, <1>8, <1>9, <1>10 DEF IInv

\* Open preserves the invariant.
LEMMA OpenInv ==
    ASSUME IInv, NEW i \in Instance, Open(i)
    PROVE  IInv'
  <1> USE DEF tableVars, svcVars, userVars, sweepVars, At, Goes
  <1>1. TypeOK /\ RuntimeInv
    BY DEF IInv
  <1>2. \A j \in Instance : HookInv(j) /\ LifeInv(j) /\ KeyInv(j) /\ SweepInv(j)
    BY DEF IInv
  <1>3. \A d \in Closer : CloserInv(d)
    BY DEF IInv
  <1>0. user[i] = "idle"
    BY <1>2, Threads DEF Open, Locks, HookInv
  <1>4. TypeOK'
    BY <1>1, <1>2, <1>3, <1>0, Keys, Hooks, Threads DEF Open, Locks, ChangeState, TypeOK, Status, CloserInv
  <1>5. RuntimeInv'
    BY <1>1, <1>3, <1>0, Threads DEF Open, Locks, ChangeState, RuntimeInv, CloserInv, TypeOK
  <1>6. ASSUME NEW j \in Instance PROVE HookInv(j)'
    BY <1>1, <1>2, <1>3, <1>0, Threads, Hooks DEF Open, Locks, ChangeState, HookInv, CloserInv, TypeOK
  <1>7. ASSUME NEW j \in Instance PROVE LifeInv(j)'
    BY <1>1, <1>2, <1>3, <1>0, Threads, Table, Hooks DEF Open, Locks, ChangeState, HookInv, LifeInv, CloserInv, Down, TypeOK
  <1>8. ASSUME NEW j \in Instance PROVE KeyInv(j)'
    BY <1>1, <1>2, <1>3, <1>0, Keys, Threads DEF Open, Locks, ChangeState, KeyInv, CloserInv, TypeOK, Taken
  <1>9. ASSUME NEW j \in Instance PROVE SweepInv(j)'
    BY <1>1, <1>2, <1>3, <1>0, Threads, Table, Hooks DEF Open, Locks, ChangeState, SweepInv, KeyInv, RuntimeInv, CloserInv, TypeOK, Taken, Down, HookInv, LifeInv, Status
  <1>10. ASSUME NEW d \in Closer PROVE CloserInv(d)'
    BY <1>1, <1>2, <1>3, <1>0, Threads, Hooks DEF Open, Locks, ChangeState, CloserInv, HookInv, TypeOK
  <1> QED
    BY <1>4, <1>5, <1>6, <1>7, <1>8, <1>9, <1>10 DEF IInv

\* OpenReturns preserves the invariant.
LEMMA OpenReturnsInv ==
    ASSUME IInv, NEW i \in Instance, OpenReturns(i)
    PROVE  IInv'
  <1> USE DEF tableVars, svcVars, userVars, sweepVars, At, Goes
  <1>1. TypeOK /\ RuntimeInv
    BY DEF IInv
  <1>2. \A j \in Instance : HookInv(j) /\ LifeInv(j) /\ KeyInv(j) /\ SweepInv(j)
    BY DEF IInv
  <1>3. \A d \in Closer : CloserInv(d)
    BY DEF IInv
  <1>4. TypeOK'
    BY <1>1, <1>2, <1>3, Keys, Hooks, Threads DEF OpenReturns, Leaves, Unlocked, TypeOK, Status, CloserInv
  <1>5. RuntimeInv'
    BY <1>1, <1>3, Threads DEF OpenReturns, Leaves, Unlocked, RuntimeInv, CloserInv, TypeOK
  <1>6. ASSUME NEW j \in Instance PROVE HookInv(j)'
    BY <1>1, <1>2, <1>3, Threads, Hooks DEF OpenReturns, Leaves, Unlocked, HookInv, CloserInv, TypeOK
  <1>7. ASSUME NEW j \in Instance PROVE LifeInv(j)'
    BY <1>1, <1>2, <1>3, Threads, Table, Hooks DEF OpenReturns, Leaves, Unlocked, HookInv, LifeInv, CloserInv, Down, TypeOK
  <1>8. ASSUME NEW j \in Instance PROVE KeyInv(j)'
    BY <1>1, <1>2, <1>3, Keys, Threads DEF OpenReturns, Leaves, Unlocked, KeyInv, CloserInv, TypeOK, Taken
  <1>9. ASSUME NEW j \in Instance PROVE SweepInv(j)'
    BY <1>1, <1>2, <1>3, Threads, Table, Hooks DEF OpenReturns, Leaves, Unlocked, SweepInv, KeyInv, RuntimeInv, CloserInv, TypeOK, Taken, Down, HookInv, LifeInv, Status
  <1>10. ASSUME NEW d \in Closer PROVE CloserInv(d)'
    BY <1>1, <1>2, <1>3, Threads, Hooks DEF OpenReturns, Leaves, Unlocked, CloserInv, HookInv, TypeOK
  <1> QED
    BY <1>4, <1>5, <1>6, <1>7, <1>8, <1>9, <1>10 DEF IInv

\* OpenThrows preserves the invariant.
LEMMA OpenThrowsInv ==
    ASSUME IInv, NEW i \in Instance, OpenThrows(i)
    PROVE  IInv'
  <1> USE DEF tableVars, svcVars, userVars, sweepVars, At, Goes
  <1>1. TypeOK /\ RuntimeInv
    BY DEF IInv
  <1>2. \A j \in Instance : HookInv(j) /\ LifeInv(j) /\ KeyInv(j) /\ SweepInv(j)
    BY DEF IInv
  <1>3. \A d \in Closer : CloserInv(d)
    BY DEF IInv
  <1>4. TypeOK'
    BY <1>1, <1>2, <1>3, Keys, Hooks, Threads DEF OpenThrows, Leaves, Unlocked, TypeOK, Status, CloserInv
  <1>5. RuntimeInv'
    BY <1>1, <1>3, Threads DEF OpenThrows, Leaves, Unlocked, RuntimeInv, CloserInv, TypeOK
  <1>6. ASSUME NEW j \in Instance PROVE HookInv(j)'
    BY <1>1, <1>2, <1>3, Threads, Hooks DEF OpenThrows, Leaves, Unlocked, HookInv, CloserInv, TypeOK
  <1>7. ASSUME NEW j \in Instance PROVE LifeInv(j)'
    BY <1>1, <1>2, <1>3, Threads, Table, Hooks DEF OpenThrows, Leaves, Unlocked, HookInv, LifeInv, CloserInv, Down, TypeOK
  <1>8. ASSUME NEW j \in Instance PROVE KeyInv(j)'
    BY <1>1, <1>2, <1>3, Keys, Threads DEF OpenThrows, Leaves, Unlocked, KeyInv, CloserInv, TypeOK, Taken
  <1>9. ASSUME NEW j \in Instance PROVE SweepInv(j)'
    BY <1>1, <1>2, <1>3, Threads, Table, Hooks DEF OpenThrows, Leaves, Unlocked, SweepInv, KeyInv, RuntimeInv, CloserInv, TypeOK, Taken, Down, HookInv, LifeInv, Status
  <1>10. ASSUME NEW d \in Closer PROVE CloserInv(d)'
    BY <1>1, <1>2, <1>3, Threads, Hooks DEF OpenThrows, Leaves, Unlocked, CloserInv, HookInv, TypeOK
  <1> QED
    BY <1>4, <1>5, <1>6, <1>7, <1>8, <1>9, <1>10 DEF IInv

\* Advertise preserves the invariant.
LEMMA AdvertiseInv ==
    ASSUME IInv, NEW i \in Instance, Advertise(i)
    PROVE  IInv'
  <1> USE DEF tableVars, svcVars, userVars, sweepVars, At, Goes
  <1>1. TypeOK /\ RuntimeInv
    BY DEF IInv
  <1>2. \A j \in Instance : HookInv(j) /\ LifeInv(j) /\ KeyInv(j) /\ SweepInv(j)
    BY DEF IInv
  <1>3. \A d \in Closer : CloserInv(d)
    BY DEF IInv
  <1>4. TypeOK'
    BY <1>1, <1>2, <1>3, Keys, Hooks, Threads DEF Advertise, TypeOK, Status, CloserInv
  <1>5. RuntimeInv'
    BY <1>1, <1>3, Threads DEF Advertise, RuntimeInv, CloserInv, TypeOK
  <1>6. ASSUME NEW j \in Instance PROVE HookInv(j)'
    BY <1>1, <1>2, <1>3, Threads, Hooks DEF Advertise, HookInv, CloserInv, TypeOK
  <1>7. ASSUME NEW j \in Instance PROVE LifeInv(j)'
    BY <1>1, <1>2, <1>3, Threads, Table, Hooks DEF Advertise, HookInv, LifeInv, CloserInv, Down, TypeOK
  <1>8. ASSUME NEW j \in Instance PROVE KeyInv(j)'
    BY <1>1, <1>2, <1>3, Keys, Threads DEF Advertise, KeyInv, CloserInv, TypeOK, Taken
  <1>9. ASSUME NEW j \in Instance PROVE SweepInv(j)'
    BY <1>1, <1>2, <1>3, Threads, Table, Hooks DEF Advertise, SweepInv, KeyInv, RuntimeInv, CloserInv, TypeOK, Taken, Down, HookInv, LifeInv, Status
  <1>10. ASSUME NEW d \in Closer PROVE CloserInv(d)'
    BY <1>1, <1>2, <1>3, Threads, Hooks DEF Advertise, CloserInv, HookInv, TypeOK
  <1> QED
    BY <1>4, <1>5, <1>6, <1>7, <1>8, <1>9, <1>10 DEF IInv

\* Stop preserves the invariant.
LEMMA StopInv ==
    ASSUME IInv, NEW c \in Closer, Stop(c)
    PROVE  IInv'
  <1> USE DEF tableVars, svcVars, userVars, sweepVars, At, Goes
  <1>1. TypeOK /\ RuntimeInv
    BY DEF IInv
  <1>2. \A j \in Instance : HookInv(j) /\ LifeInv(j) /\ KeyInv(j) /\ SweepInv(j)
    BY DEF IInv
  <1>3. \A d \in Closer : CloserInv(d)
    BY DEF IInv
  <1>4. TypeOK'
    BY <1>1, <1>2, <1>3, Keys, Hooks, Threads DEF Stop, TypeOK, Status, CloserInv
  <1>5. RuntimeInv'
    BY <1>1, <1>3, Threads DEF Stop, RuntimeInv, CloserInv, TypeOK
  <1>6. ASSUME NEW j \in Instance PROVE HookInv(j)'
    BY <1>1, <1>2, <1>3, Threads, Hooks DEF Stop, HookInv, CloserInv, TypeOK
  <1>7. ASSUME NEW j \in Instance PROVE LifeInv(j)'
    BY <1>1, <1>2, <1>3, Threads, Table, Hooks DEF Stop, HookInv, LifeInv, CloserInv, Down, TypeOK
  <1>8. ASSUME NEW j \in Instance PROVE KeyInv(j)'
    BY <1>1, <1>2, <1>3, Keys, Threads DEF Stop, KeyInv, CloserInv, TypeOK, Taken
  <1>9. ASSUME NEW j \in Instance PROVE SweepInv(j)'
    BY <1>1, <1>2, <1>3, Threads, Table, Hooks DEF Stop, SweepInv, KeyInv, RuntimeInv, CloserInv, TypeOK, Taken, Down, HookInv, LifeInv, Status
  <1>10. ASSUME NEW d \in Closer PROVE CloserInv(d)'
    BY <1>1, <1>2, <1>3, Threads, Hooks DEF Stop, CloserInv, HookInv, TypeOK
  <1> QED
    BY <1>4, <1>5, <1>6, <1>7, <1>8, <1>9, <1>10 DEF IInv

\* RemoveServiceInstance preserves the invariant.
LEMMA RemoveServiceInstanceInv ==
    ASSUME IInv, NEW c \in Closer, NEW k \in IID, RemoveServiceInstance(c, k)
    PROVE  IInv'
  <1> USE DEF tableVars, svcVars, userVars, sweepVars, At, Goes
  <1>1. TypeOK /\ RuntimeInv
    BY DEF IInv
  <1>2. \A j \in Instance : HookInv(j) /\ LifeInv(j) /\ KeyInv(j) /\ SweepInv(j)
    BY DEF IInv
  <1>3. \A d \in Closer : CloserInv(d)
    BY DEF IInv
  <1>p. PICK p \in Instance : p = map[k]
    BY <1>1 DEF RemoveServiceInstance, Unbind, TypeOK
  <1>0. iid[p] = k /\ Taken(p)' /\ \A j \in Instance : Taken(j) => Taken(j)'
    <2>1. c \in Stopper /\ target[c] = Nobody /\ iid[p] = k
      BY <1>1, <1>2, <1>3, <1>p DEF RemoveServiceInstance, Unbind, CloserInv, KeyInv, TypeOK
    <2>2. target'[c] = p /\ \A d \in Stopper : d # c => target'[d] = target[d]
      BY <1>1, <1>p, <2>1, Threads DEF RemoveServiceInstance, Unbind, TypeOK
    <2>3. \A j \in Instance : j # Nobody
      BY Threads
    <2> QED
      BY <2>1, <2>2, <2>3 DEF Taken
  <1>4. TypeOK'
    BY <1>1, <1>2, <1>3, <1>0, Keys, Hooks, Threads DEF RemoveServiceInstance, Unbind, TypeOK, Status, CloserInv
  <1>5. RuntimeInv'
    BY <1>1, <1>3, <1>0, Threads DEF RemoveServiceInstance, Unbind, RuntimeInv, CloserInv, TypeOK
  <1>6. ASSUME NEW j \in Instance PROVE HookInv(j)'
    BY <1>1, <1>2, <1>3, <1>0, Threads, Hooks DEF RemoveServiceInstance, Unbind, HookInv, CloserInv, TypeOK
  <1>7. ASSUME NEW j \in Instance PROVE LifeInv(j)'
    BY <1>1, <1>2, <1>3, <1>0, Threads, Table, Hooks DEF RemoveServiceInstance, Unbind, HookInv, LifeInv, CloserInv, Down, TypeOK
  <1>8. ASSUME NEW j \in Instance PROVE KeyInv(j)'
    <2>1. \A l \in IID : map'[l] = IF l = k THEN Nobody ELSE map[l]
      BY <1>1 DEF RemoveServiceInstance, Unbind, TypeOK
    <2>2. iid' = iid /\ creator' = creator /\ renamer' = renamer /\ known' = known
      BY DEF RemoveServiceInstance, Unbind
    <2>3. KeyInv(j) /\ j # Nobody /\ iid[j] \in IID /\ (Taken(j) => Taken(j)')
      BY <1>0, <1>1, <1>2, Threads DEF TypeOK
    <2>4. \A l \in IID : map'[l] = j => map[l] = j
      BY <2>1, <2>3
    <2>5. map[iid[j]] = j => map'[iid[j]] = j \/ Taken(j)'
      BY <1>0, <1>p, <2>1, <2>3
    <2> QED
      BY <2>2, <2>3, <2>4, <2>5 DEF KeyInv
  <1>9. ASSUME NEW j \in Instance PROVE SweepInv(j)'
    BY <1>0, <1>1, <1>2, <1>3, Threads DEF RemoveServiceInstance, Unbind, SweepInv, CloserInv, TypeOK, Down
  <1>10. ASSUME NEW d \in Closer PROVE CloserInv(d)'
    BY <1>1, <1>2, <1>3, <1>0, Threads, Hooks DEF RemoveServiceInstance, Unbind, CloserInv, HookInv, TypeOK
  <1> QED
    BY <1>4, <1>5, <1>6, <1>7, <1>8, <1>9, <1>10 DEF IInv

\* RemoveUnknown preserves the invariant.
LEMMA RemoveUnknownInv ==
    ASSUME IInv, NEW c \in Closer, NEW k \in IID, RemoveUnknown(c, k)
    PROVE  IInv'
  <1> USE DEF tableVars, svcVars, userVars, sweepVars, At, Goes
  <1>1. TypeOK /\ RuntimeInv
    BY DEF IInv
  <1>2. \A j \in Instance : HookInv(j) /\ LifeInv(j) /\ KeyInv(j) /\ SweepInv(j)
    BY DEF IInv
  <1>3. \A d \in Closer : CloserInv(d)
    BY DEF IInv
  <1>4. TypeOK'
    BY <1>1, <1>2, <1>3, Keys, Hooks, Threads DEF RemoveUnknown, TypeOK, Status, CloserInv
  <1>5. RuntimeInv'
    BY <1>1, <1>3, Threads DEF RemoveUnknown, RuntimeInv, CloserInv, TypeOK
  <1>6. ASSUME NEW j \in Instance PROVE HookInv(j)'
    BY <1>1, <1>2, <1>3, Threads, Hooks DEF RemoveUnknown, HookInv, CloserInv, TypeOK
  <1>7. ASSUME NEW j \in Instance PROVE LifeInv(j)'
    BY <1>1, <1>2, <1>3, Threads, Table, Hooks DEF RemoveUnknown, HookInv, LifeInv, CloserInv, Down, TypeOK
  <1>8. ASSUME NEW j \in Instance PROVE KeyInv(j)'
    BY <1>1, <1>2, <1>3, Keys, Threads DEF RemoveUnknown, KeyInv, CloserInv, TypeOK, Taken
  <1>9. ASSUME NEW j \in Instance PROVE SweepInv(j)'
    BY <1>1, <1>2, <1>3, Threads, Table, Hooks DEF RemoveUnknown, SweepInv, KeyInv, RuntimeInv, CloserInv, TypeOK, Taken, Down, HookInv, LifeInv, Status
  <1>10. ASSUME NEW d \in Closer PROVE CloserInv(d)'
    BY <1>1, <1>2, <1>3, Threads, Hooks DEF RemoveUnknown, CloserInv, HookInv, TypeOK
  <1> QED
    BY <1>4, <1>5, <1>6, <1>7, <1>8, <1>9, <1>10 DEF IInv

\* Close preserves the invariant.
LEMMA CloseInv ==
    ASSUME IInv, NEW c \in Closer, Close(c)
    PROVE  IInv'
  <1> USE DEF tableVars, svcVars, userVars, sweepVars, At, Goes
  <1>1. TypeOK /\ RuntimeInv
    BY DEF IInv
  <1>2. \A j \in Instance : HookInv(j) /\ LifeInv(j) /\ KeyInv(j) /\ SweepInv(j)
    BY DEF IInv
  <1>3. \A d \in Closer : CloserInv(d)
    BY DEF IInv
  <1>0. target[c] \in Instance /\ user[target[c]] = "idle" /\ creator[target[c]] # "open"
    BY <1>2, <1>3, Threads DEF Close, Locks, HookInv, CloserInv
  <1>4. TypeOK'
    BY <1>1, <1>2, <1>3, <1>0, Keys, Hooks, Threads DEF Close, Locks, ChangeState, TypeOK, Status, CloserInv
  <1>5. RuntimeInv'
    BY <1>1, <1>3, <1>0, Threads DEF Close, Locks, ChangeState, RuntimeInv, CloserInv, TypeOK
  <1>6. ASSUME NEW j \in Instance PROVE HookInv(j)'
    BY <1>1, <1>2, <1>3, <1>0, Threads, Hooks DEF Close, Locks, ChangeState, HookInv, CloserInv, TypeOK
  <1>7. ASSUME NEW j \in Instance PROVE LifeInv(j)'
    BY <1>1, <1>2, <1>3, <1>0, Threads, Table, Hooks DEF Close, Locks, ChangeState, HookInv, LifeInv, CloserInv, Down, TypeOK
  <1>8. ASSUME NEW j \in Instance PROVE KeyInv(j)'
    BY <1>1, <1>2, <1>3, <1>0, Keys, Threads DEF Close, Locks, ChangeState, KeyInv, CloserInv, TypeOK, Taken
  <1>9. ASSUME NEW j \in Instance PROVE SweepInv(j)'
    BY <1>1, <1>2, <1>3, <1>0, Threads, Table, Hooks DEF Close, Locks, ChangeState, SweepInv, KeyInv, RuntimeInv, CloserInv, TypeOK, Taken, Down, HookInv, LifeInv, Status
  <1>10. ASSUME NEW d \in Closer PROVE CloserInv(d)'
    BY <1>1, <1>2, <1>3, <1>0, Threads, Hooks DEF Close, Locks, ChangeState, CloserInv, HookInv, TypeOK
  <1> QED
    BY <1>4, <1>5, <1>6, <1>7, <1>8, <1>9, <1>10 DEF IInv

\* CloseRefused preserves the invariant.
LEMMA CloseRefusedInv ==
    ASSUME IInv, NEW c \in Closer, CloseRefused(c)
    PROVE  IInv'
  <1> USE DEF tableVars, svcVars, userVars, sweepVars, At, Goes
  <1>1. TypeOK /\ RuntimeInv
    BY DEF IInv
  <1>2. \A j \in Instance : HookInv(j) /\ LifeInv(j) /\ KeyInv(j) /\ SweepInv(j)
    BY DEF IInv
  <1>3. \A d \in Closer : CloserInv(d)
    BY DEF IInv
  <1>4. TypeOK'
    BY <1>1, <1>2, <1>3, Keys, Hooks, Threads DEF CloseRefused, Throws, ChangeState, After, TypeOK, Status, CloserInv
  <1>5. RuntimeInv'
    BY <1>1, <1>3, Threads DEF CloseRefused, Throws, ChangeState, After, RuntimeInv, CloserInv, TypeOK
  <1>6. ASSUME NEW j \in Instance PROVE HookInv(j)'
    BY <1>1, <1>2, <1>3, Threads, Hooks DEF CloseRefused, Throws, ChangeState, After, HookInv, CloserInv, TypeOK
  <1>7. ASSUME NEW j \in Instance PROVE LifeInv(j)'
    BY <1>1, <1>2, <1>3, Threads, Table, Hooks DEF CloseRefused, Throws, ChangeState, After, HookInv, LifeInv, CloserInv, Down, TypeOK
  <1>8. ASSUME NEW j \in Instance PROVE KeyInv(j)'
    BY <1>1, <1>2, <1>3, Keys, Threads DEF CloseRefused, Throws, ChangeState, After, KeyInv, CloserInv, TypeOK, Taken
  <1>9. ASSUME NEW j \in Instance PROVE SweepInv(j)'
    BY <1>1, <1>2, <1>3, Threads, Table, Hooks DEF CloseRefused, Throws, ChangeState, After, SweepInv, KeyInv, RuntimeInv, CloserInv, TypeOK, Taken, Down, HookInv, LifeInv, Status
  <1>10. ASSUME NEW d \in Closer PROVE CloserInv(d)'
    BY <1>1, <1>2, <1>3, Threads, Hooks DEF CloseRefused, Throws, ChangeState, After, CloserInv, HookInv, TypeOK
  <1> QED
    BY <1>4, <1>5, <1>6, <1>7, <1>8, <1>9, <1>10 DEF IInv

\* CloseEnds preserves the invariant.
LEMMA CloseEndsInv ==
    ASSUME IInv, NEW c \in Closer, NEW s \in {"CLOSING", "CLOSED"}, CloseEnds(c, s)
    PROVE  IInv'
  <1> USE DEF tableVars, svcVars, userVars, sweepVars, At, Goes
  <1>1. TypeOK /\ RuntimeInv
    BY DEF IInv
  <1>2. \A j \in Instance : HookInv(j) /\ LifeInv(j) /\ KeyInv(j) /\ SweepInv(j)
    BY DEF IInv
  <1>3. \A d \in Closer : CloserInv(d)
    BY DEF IInv
  <1>4. TypeOK'
    BY <1>1, <1>2, <1>3, Keys, Hooks, Threads DEF CloseEnds, Leaves, Unlocked, After, TypeOK, Status, CloserInv
  <1>5. RuntimeInv'
    BY <1>1, <1>3, Threads DEF CloseEnds, Leaves, Unlocked, After, RuntimeInv, CloserInv, TypeOK
  <1>6. ASSUME NEW j \in Instance PROVE HookInv(j)'
    BY <1>1, <1>2, <1>3, Threads, Hooks DEF CloseEnds, Leaves, Unlocked, After, HookInv, CloserInv, TypeOK
  <1>7. ASSUME NEW j \in Instance PROVE LifeInv(j)'
    BY <1>1, <1>2, <1>3, Threads, Table, Hooks DEF CloseEnds, Leaves, Unlocked, After, HookInv, LifeInv, CloserInv, Down, TypeOK
  <1>8. ASSUME NEW j \in Instance PROVE KeyInv(j)'
    BY <1>1, <1>2, <1>3, Keys, Threads DEF CloseEnds, Leaves, Unlocked, After, KeyInv, CloserInv, TypeOK, Taken
  <1>9. ASSUME NEW j \in Instance PROVE SweepInv(j)'
    BY <1>1, <1>2, <1>3, Threads, Table, Hooks DEF CloseEnds, Leaves, Unlocked, After, SweepInv, KeyInv, RuntimeInv, CloserInv, TypeOK, Taken, Down, HookInv, LifeInv, Status
  <1>10. ASSUME NEW d \in Closer PROVE CloserInv(d)'
    BY <1>1, <1>2, <1>3, Threads, Hooks DEF CloseEnds, Leaves, Unlocked, After, CloserInv, HookInv, TypeOK
  <1> QED
    BY <1>4, <1>5, <1>6, <1>7, <1>8, <1>9, <1>10 DEF IInv

\* CloseRuntime preserves the invariant.
LEMMA CloseRuntimeInv ==
    ASSUME IInv, CloseRuntime
    PROVE  IInv'
  <1> USE DEF tableVars, svcVars, userVars, sweepVars, At, Goes
  <1>1. TypeOK /\ RuntimeInv
    BY DEF IInv
  <1>2. \A j \in Instance : HookInv(j) /\ LifeInv(j) /\ KeyInv(j) /\ SweepInv(j)
    BY DEF IInv
  <1>3. \A d \in Closer : CloserInv(d)
    BY DEF IInv
  <1>4. TypeOK'
    BY <1>1, <1>2, <1>3, Keys, Hooks, Threads DEF CloseRuntime, TypeOK, Status, CloserInv
  <1>5. RuntimeInv'
    BY <1>1, <1>3, Threads DEF CloseRuntime, RuntimeInv, CloserInv, TypeOK
  <1>6. ASSUME NEW j \in Instance PROVE HookInv(j)'
    BY <1>1, <1>2, <1>3, Threads, Hooks DEF CloseRuntime, HookInv, CloserInv, TypeOK
  <1>7. ASSUME NEW j \in Instance PROVE LifeInv(j)'
    BY <1>1, <1>2, <1>3, Threads, Table, Hooks DEF CloseRuntime, HookInv, LifeInv, CloserInv, Down, TypeOK
  <1>8. ASSUME NEW j \in Instance PROVE KeyInv(j)'
    BY <1>1, <1>2, <1>3, Keys, Threads DEF CloseRuntime, KeyInv, CloserInv, TypeOK, Taken
  <1>9. ASSUME NEW j \in Instance PROVE SweepInv(j)'
    BY <1>1, <1>2, <1>3, Threads, Table, Hooks DEF CloseRuntime, SweepInv, KeyInv, RuntimeInv, CloserInv, TypeOK, Taken, Down, HookInv, LifeInv, Status
  <1>10. ASSUME NEW d \in Closer PROVE CloserInv(d)'
    BY <1>1, <1>2, <1>3, Threads, Hooks DEF CloseRuntime, CloserInv, HookInv, TypeOK
  <1> QED
    BY <1>4, <1>5, <1>6, <1>7, <1>8, <1>9, <1>10 DEF IInv

\* SweepBegin preserves the invariant.
LEMMA SweepBeginInv ==
    ASSUME IInv, SweepBegin
    PROVE  IInv'
  <1> USE DEF tableVars, svcVars, userVars, sweepVars, At, Goes
  <1>1. TypeOK /\ RuntimeInv
    BY DEF IInv
  <1>2. \A j \in Instance : HookInv(j) /\ LifeInv(j) /\ KeyInv(j) /\ SweepInv(j)
    BY DEF IInv
  <1>3. \A d \in Closer : CloserInv(d)
    BY DEF IInv
  <1>4. TypeOK'
    BY <1>1, <1>2, <1>3, Keys, Hooks, Threads DEF SweepBegin, TypeOK, Status, CloserInv
  <1>5. RuntimeInv'
    BY <1>1, <1>3, Threads DEF SweepBegin, RuntimeInv, CloserInv, TypeOK
  <1>6. ASSUME NEW j \in Instance PROVE HookInv(j)'
    BY <1>1, <1>2, <1>3, Threads, Hooks DEF SweepBegin, HookInv, CloserInv, TypeOK
  <1>7. ASSUME NEW j \in Instance PROVE LifeInv(j)'
    BY <1>1, <1>2, <1>3, Threads, Table, Hooks DEF SweepBegin, HookInv, LifeInv, CloserInv, Down, TypeOK
  <1>8. ASSUME NEW j \in Instance PROVE KeyInv(j)'
    BY <1>1, <1>2, <1>3, Keys, Threads DEF SweepBegin, KeyInv, CloserInv, TypeOK, Taken
  <1>9. ASSUME NEW j \in Instance PROVE SweepInv(j)'
    BY <1>1, <1>2, <1>3, Threads, Table, Hooks DEF SweepBegin, SweepInv, KeyInv, RuntimeInv, CloserInv, TypeOK, Taken, Down, HookInv, LifeInv, Status
  <1>10. ASSUME NEW d \in Closer PROVE CloserInv(d)'
    BY <1>1, <1>2, <1>3, Threads, Hooks DEF SweepBegin, CloserInv, HookInv, TypeOK
  <1> QED
    BY <1>4, <1>5, <1>6, <1>7, <1>8, <1>9, <1>10 DEF IInv

\* SweepNext preserves the invariant.
LEMMA SweepNextInv ==
    ASSUME IInv, NEW k \in IID, SweepNext(k)
    PROVE  IInv'
  <1> USE DEF tableVars, svcVars, userVars, sweepVars, At, Goes
  <1>1. TypeOK /\ RuntimeInv
    BY DEF IInv
  <1>2. \A j \in Instance : HookInv(j) /\ LifeInv(j) /\ KeyInv(j) /\ SweepInv(j)
    BY DEF IInv
  <1>3. \A d \in Closer : CloserInv(d)
    BY DEF IInv
  <1>4. TypeOK'
    BY <1>1, <1>2, <1>3, Keys, Hooks, Threads DEF SweepNext, TypeOK, Status, CloserInv
  <1>5. RuntimeInv'
    BY <1>1, <1>3, Threads DEF SweepNext, RuntimeInv, CloserInv, TypeOK
  <1>6. ASSUME NEW j \in Instance PROVE HookInv(j)'
    BY <1>1, <1>2, <1>3, Threads, Hooks DEF SweepNext, HookInv, CloserInv, TypeOK
  <1>7. ASSUME NEW j \in Instance PROVE LifeInv(j)'
    BY <1>1, <1>2, <1>3, Threads, Table, Hooks DEF SweepNext, HookInv, LifeInv, CloserInv, Down, TypeOK
  <1>8. ASSUME NEW j \in Instance PROVE KeyInv(j)'
    BY <1>1, <1>2, <1>3, Keys, Threads DEF SweepNext, KeyInv, CloserInv, TypeOK, Taken
  <1>9. ASSUME NEW j \in Instance PROVE SweepInv(j)'
    BY <1>1, <1>2, <1>3, Threads, Table, Hooks DEF SweepNext, SweepInv, KeyInv, RuntimeInv, CloserInv, TypeOK, Taken, Down, HookInv, LifeInv, Status
  <1>10. ASSUME NEW d \in Closer PROVE CloserInv(d)'
    BY <1>1, <1>2, <1>3, Threads, Hooks DEF SweepNext, CloserInv, HookInv, TypeOK
  <1> QED
    BY <1>4, <1>5, <1>6, <1>7, <1>8, <1>9, <1>10 DEF IInv

\* SweepEnd preserves the invariant.
LEMMA SweepEndInv ==
    ASSUME IInv, SweepEnd
    PROVE  IInv'
  <1> USE DEF tableVars, svcVars, userVars, sweepVars, At, Goes
  <1>1. TypeOK /\ RuntimeInv
    BY DEF IInv
  <1>2. \A j \in Instance : HookInv(j) /\ LifeInv(j) /\ KeyInv(j) /\ SweepInv(j)
    BY DEF IInv
  <1>3. \A d \in Closer : CloserInv(d)
    BY DEF IInv
  <1>4. TypeOK'
    BY <1>1, <1>2, <1>3, Keys, Hooks, Threads DEF SweepEnd, TypeOK, Status, CloserInv
  <1>5. RuntimeInv'
    BY <1>1, <1>3, Threads DEF SweepEnd, RuntimeInv, CloserInv, TypeOK
  <1>6. ASSUME NEW j \in Instance PROVE HookInv(j)'
    BY <1>1, <1>2, <1>3, Threads, Hooks DEF SweepEnd, HookInv, CloserInv, TypeOK
  <1>7. ASSUME NEW j \in Instance PROVE LifeInv(j)'
    BY <1>1, <1>2, <1>3, Threads, Table, Hooks DEF SweepEnd, HookInv, LifeInv, CloserInv, Down, TypeOK
  <1>8. ASSUME NEW j \in Instance PROVE KeyInv(j)'
    BY <1>1, <1>2, <1>3, Keys, Threads DEF SweepEnd, KeyInv, CloserInv, TypeOK, Taken
  <1>9. ASSUME NEW j \in Instance PROVE SweepInv(j)'
    BY <1>1, <1>2, <1>3, Threads, Table, Hooks DEF SweepEnd, SweepInv, KeyInv, RuntimeInv, CloserInv, TypeOK, Taken, Down, HookInv, LifeInv, Status
  <1>10. ASSUME NEW d \in Closer PROVE CloserInv(d)'
    BY <1>1, <1>2, <1>3, Threads, Hooks DEF SweepEnd, CloserInv, HookInv, TypeOK
  <1> QED
    BY <1>4, <1>5, <1>6, <1>7, <1>8, <1>9, <1>10 DEF IInv

\* ChangeIIDOfService preserves the invariant.
LEMMA ChangeIIDOfServiceInv ==
    ASSUME IInv, NEW i \in Instance, ChangeIIDOfService(i)
    PROVE  IInv'
  <1> USE DEF tableVars, svcVars, userVars, sweepVars, At, Goes
  <1>1. TypeOK /\ RuntimeInv
    BY DEF IInv
  <1>2. \A j \in Instance : HookInv(j) /\ LifeInv(j) /\ KeyInv(j) /\ SweepInv(j)
    BY DEF IInv
  <1>3. \A d \in Closer : CloserInv(d)
    BY DEF IInv
  <1>4. TypeOK'
    BY <1>1, <1>2, <1>3, Keys, Hooks, Threads DEF ChangeIIDOfService, TypeOK, Status, CloserInv
  <1>5. RuntimeInv'
    BY <1>1, <1>3, Threads DEF ChangeIIDOfService, RuntimeInv, CloserInv, TypeOK
  <1>6. ASSUME NEW j \in Instance PROVE HookInv(j)'
    BY <1>1, <1>2, <1>3, Threads, Hooks DEF ChangeIIDOfService, HookInv, CloserInv, TypeOK
  <1>7. ASSUME NEW j \in Instance PROVE LifeInv(j)'
    BY <1>1, <1>2, <1>3, Threads, Table, Hooks DEF ChangeIIDOfService, HookInv, LifeInv, CloserInv, Down, TypeOK
  <1>8. ASSUME NEW j \in Instance PROVE KeyInv(j)'
    BY <1>1, <1>2, <1>3, Keys, Threads DEF ChangeIIDOfService, KeyInv, CloserInv, TypeOK, Taken
  <1>9. ASSUME NEW j \in Instance PROVE SweepInv(j)'
    BY <1>1, <1>2, <1>3, Threads, Table, Hooks DEF ChangeIIDOfService, SweepInv, KeyInv, RuntimeInv, CloserInv, TypeOK, Taken, Down, HookInv, LifeInv, Status
  <1>10. ASSUME NEW d \in Closer PROVE CloserInv(d)'
    BY <1>1, <1>2, <1>3, Threads, Hooks DEF ChangeIIDOfService, CloserInv, HookInv, TypeOK
  <1> QED
    BY <1>4, <1>5, <1>6, <1>7, <1>8, <1>9, <1>10 DEF IInv

\* SetIIDUnbind preserves the invariant.
LEMMA SetIIDUnbindInv ==
    ASSUME IInv, NEW i \in Instance, SetIIDUnbind(i)
    PROVE  IInv'
  <1> USE DEF tableVars, svcVars, userVars, sweepVars, At, Goes
  <1>1. TypeOK /\ RuntimeInv
    BY DEF IInv
  <1>2. \A j \in Instance : HookInv(j) /\ LifeInv(j) /\ KeyInv(j) /\ SweepInv(j)
    BY DEF IInv
  <1>3. \A d \in Closer : CloserInv(d)
    BY DEF IInv
  <1>4. TypeOK'
    BY <1>1, <1>2, <1>3, Keys, Hooks, Threads DEF SetIIDUnbind, Unbind, TypeOK, Status, CloserInv
  <1>5. RuntimeInv'
    BY <1>1, <1>3, Threads DEF SetIIDUnbind, Unbind, RuntimeInv, CloserInv, TypeOK
  <1>6. ASSUME NEW j \in Instance PROVE HookInv(j)'
    BY <1>1, <1>2, <1>3, Threads, Hooks DEF SetIIDUnbind, Unbind, HookInv, CloserInv, TypeOK
  <1>7. ASSUME NEW j \in Instance PROVE LifeInv(j)'
    BY <1>1, <1>2, <1>3, Threads, Table, Hooks DEF SetIIDUnbind, Unbind, HookInv, LifeInv, CloserInv, Down, TypeOK
  <1>8. ASSUME NEW j \in Instance PROVE KeyInv(j)'
    BY <1>1, <1>2, <1>3, Keys, Threads DEF SetIIDUnbind, Unbind, KeyInv, CloserInv, TypeOK, Taken
  <1>9. ASSUME NEW j \in Instance PROVE SweepInv(j)'
    BY <1>1, <1>2, <1>3, Threads, Table, Hooks DEF SetIIDUnbind, Unbind, SweepInv, KeyInv, RuntimeInv, CloserInv, TypeOK, Taken, Down, HookInv, LifeInv, Status
  <1>10. ASSUME NEW d \in Closer PROVE CloserInv(d)'
    BY <1>1, <1>2, <1>3, Threads, Hooks DEF SetIIDUnbind, Unbind, CloserInv, HookInv, TypeOK
  <1> QED
    BY <1>4, <1>5, <1>6, <1>7, <1>8, <1>9, <1>10 DEF IInv

\* SetIIDUnknown preserves the invariant.
LEMMA SetIIDUnknownInv ==
    ASSUME IInv, NEW i \in Instance, SetIIDUnknown(i)
    PROVE  IInv'
  <1> USE DEF tableVars, svcVars, userVars, sweepVars, At, Goes
  <1>1. TypeOK /\ RuntimeInv
    BY DEF IInv
  <1>2. \A j \in Instance : HookInv(j) /\ LifeInv(j) /\ KeyInv(j) /\ SweepInv(j)
    BY DEF IInv
  <1>3. \A d \in Closer : CloserInv(d)
    BY DEF IInv
  <1>4. TypeOK'
    BY <1>1, <1>2, <1>3, Keys, Hooks, Threads DEF SetIIDUnknown, TypeOK, Status, CloserInv
  <1>5. RuntimeInv'
    BY <1>1, <1>3, Threads DEF SetIIDUnknown, RuntimeInv, CloserInv, TypeOK
  <1>6. ASSUME NEW j \in Instance PROVE HookInv(j)'
    BY <1>1, <1>2, <1>3, Threads, Hooks DEF SetIIDUnknown, HookInv, CloserInv, TypeOK
  <1>7. ASSUME NEW j \in Instance PROVE LifeInv(j)'
    BY <1>1, <1>2, <1>3, Threads, Table, Hooks DEF SetIIDUnknown, HookInv, LifeInv, CloserInv, Down, TypeOK
  <1>8. ASSUME NEW j \in Instance PROVE KeyInv(j)'
    BY <1>1, <1>2, <1>3, Keys, Threads DEF SetIIDUnknown, KeyInv, CloserInv, TypeOK, Taken
  <1>9. ASSUME NEW j \in Instance PROVE SweepInv(j)'
    BY <1>1, <1>2, <1>3, Threads, Table, Hooks DEF SetIIDUnknown, SweepInv, KeyInv, RuntimeInv, CloserInv, TypeOK, Taken, Down, HookInv, LifeInv, Status
  <1>10. ASSUME NEW d \in Closer PROVE CloserInv(d)'
    BY <1>1, <1>2, <1>3, Threads, Hooks DEF SetIIDUnknown, CloserInv, HookInv, TypeOK
  <1> QED
    BY <1>4, <1>5, <1>6, <1>7, <1>8, <1>9, <1>10 DEF IInv

\* SetIIDBind preserves the invariant.
LEMMA SetIIDBindInv ==
    ASSUME IInv, NEW i \in Instance, SetIIDBind(i)
    PROVE  IInv'
  <1> USE DEF tableVars, svcVars, userVars, sweepVars, At, Goes
  <1>1. TypeOK /\ RuntimeInv
    BY DEF IInv
  <1>2. \A j \in Instance : HookInv(j) /\ LifeInv(j) /\ KeyInv(j) /\ SweepInv(j)
    BY DEF IInv
  <1>3. \A d \in Closer : CloserInv(d)
    BY DEF IInv
  <1>4. TypeOK'
    BY <1>1, <1>2, <1>3, Keys, Hooks, Threads DEF SetIIDBind, NewKey, TypeOK, Status, CloserInv
  <1>5. RuntimeInv'
    BY <1>1, <1>3, Threads DEF SetIIDBind, NewKey, RuntimeInv, CloserInv, TypeOK
  <1>6. ASSUME NEW j \in Instance PROVE HookInv(j)'
    BY <1>1, <1>2, <1>3, Threads, Hooks DEF SetIIDBind, NewKey, HookInv, CloserInv, TypeOK
  <1>7. ASSUME NEW j \in Instance PROVE LifeInv(j)'
    BY <1>1, <1>2, <1>3, Threads, Table, Hooks DEF SetIIDBind, NewKey, HookInv, LifeInv, CloserInv, Down, TypeOK
  <1>8. ASSUME NEW j \in Instance PROVE KeyInv(j)'
    BY <1>1, <1>2, <1>3, Keys, Threads DEF SetIIDBind, NewKey, KeyInv, CloserInv, TypeOK, Taken
  <1>9. ASSUME NEW j \in Instance PROVE SweepInv(j)'
    BY <1>1, <1>2, <1>3, Threads, Table, Hooks DEF SetIIDBind, NewKey, SweepInv, KeyInv, RuntimeInv, CloserInv, TypeOK, Taken, Down, HookInv, LifeInv, Status
  <1>10. ASSUME NEW d \in Closer PROVE CloserInv(d)'
    BY <1>1, <1>2, <1>3, Threads, Hooks DEF SetIIDBind, NewKey, CloserInv, HookInv, TypeOK
  <1> QED
    BY <1>4, <1>5, <1>6, <1>7, <1>8, <1>9, <1>10 DEF IInv

\* UserCall preserves the invariant.
LEMMA UserCallInv ==
    ASSUME IInv, NEW i \in Instance, NEW s \in DOMAIN Hook, UserCall(i, s)
    PROVE  IInv'
  <1> USE DEF tableVars, svcVars, userVars, sweepVars, At, Goes
  <1>1. TypeOK /\ RuntimeInv
    BY DEF IInv
  <1>2. \A j \in Instance : HookInv(j) /\ LifeInv(j) /\ KeyInv(j) /\ SweepInv(j)
    BY DEF IInv
  <1>3. \A d \in Closer : CloserInv(d)
    BY DEF IInv
  <1>4. TypeOK'
    BY <1>1, Hooks, Threads, RegistryAssumption DEF UserCall, Locks, ChangeState, TypeOK, Status
  <1>5. RuntimeInv'
    BY <1>1, <1>3, Threads DEF UserCall, Locks, ChangeState, RuntimeInv, CloserInv, TypeOK
  <1>6. ASSUME NEW j \in Instance PROVE HookInv(j)'
    BY <1>1, <1>2, <1>3, Threads, Hooks DEF UserCall, Locks, ChangeState, HookInv, CloserInv, TypeOK
  <1>7. ASSUME NEW j \in Instance PROVE LifeInv(j)'
    BY <1>1, <1>2, <1>3, Threads, Table, Hooks DEF UserCall, Locks, ChangeState, HookInv, LifeInv, CloserInv, Down, TypeOK
  <1>8. ASSUME NEW j \in Instance PROVE KeyInv(j)'
    BY <1>1, <1>2, <1>3, Keys, Threads DEF UserCall, Locks, ChangeState, KeyInv, CloserInv, TypeOK, Taken
  <1>9. ASSUME NEW j \in Instance PROVE SweepInv(j)'
    BY <1>1, <1>2, <1>3, Threads, Table, Hooks DEF UserCall, Locks, ChangeState, SweepInv, KeyInv, RuntimeInv, CloserInv, TypeOK, Taken, Down, HookInv, LifeInv, Status
  <1>10. ASSUME NEW d \in Closer PROVE CloserInv(d)'
    BY <1>1, <1>2, <1>3, Threads, Hooks DEF UserCall, Locks, ChangeState, CloserInv, HookInv, TypeOK
  <1> QED
    BY <1>4, <1>5, <1>6, <1>7, <1>8, <1>9, <1>10 DEF IInv

\* UserHookEnds preserves the invariant.
LEMMA UserHookEndsInv ==
    ASSUME IInv, NEW i \in Instance, NEW s \in Status, UserHookEnds(i, s)
    PROVE  IInv'
  <1> USE DEF tableVars, svcVars, userVars, sweepVars, At, Goes
  <1>1. TypeOK /\ RuntimeInv
    BY DEF IInv
  <1>2. \A j \in Instance : HookInv(j) /\ LifeInv(j) /\ KeyInv(j) /\ SweepInv(j)
    BY DEF IInv
  <1>3. \A d \in Closer : CloserInv(d)
    BY DEF IInv
  <1>4. TypeOK'
    BY <1>1, <1>2, <1>3, Keys, Hooks, Threads DEF UserHookEnds, Leaves, Unlocked, TypeOK, Status, CloserInv
  <1>5. RuntimeInv'
    BY <1>1, <1>3, Threads DEF UserHookEnds, Leaves, Unlocked, RuntimeInv, CloserInv, TypeOK
  <1>6. ASSUME NEW j \in Instance PROVE HookInv(j)'
    BY <1>1, <1>2, <1>3, Threads, Hooks DEF UserHookEnds, Leaves, Unlocked, HookInv, CloserInv, TypeOK
  <1>7. ASSUME NEW j \in Instance PROVE LifeInv(j)'
    BY <1>1, <1>2, <1>3, Threads, Table, Hooks DEF UserHookEnds, Leaves, Unlocked, HookInv, LifeInv, CloserInv, Down, TypeOK
  <1>8. ASSUME NEW j \in Instance PROVE KeyInv(j)'
    BY <1>1, <1>2, <1>3, Keys, Threads DEF UserHookEnds, Leaves, Unlocked, KeyInv, CloserInv, TypeOK, Taken
  <1>9. ASSUME NEW j \in Instance PROVE SweepInv(j)'
    BY <1>1, <1>2, <1>3, Threads, Table, Hooks DEF UserHookEnds, Leaves, Unlocked, SweepInv, KeyInv, RuntimeInv, CloserInv, TypeOK, Taken, Down, HookInv, LifeInv, Status
  <1>10. ASSUME NEW d \in Closer PROVE CloserInv(d)'
    BY <1>1, <1>2, <1>3, Threads, Hooks DEF UserHookEnds, Leaves, Unlocked, CloserInv, HookInv, TypeOK
  <1> QED
    BY <1>4, <1>5, <1>6, <1>7, <1>8, <1>9, <1>10 DEF IInv

-----------------------------------------------------------------------------
(* The theorems                                                            *)

\* IInv is an invariant of the specification.
LEMMA IInvHolds == Spec => []IInv
  <1>1. Init => IInv
    <2> SUFFICES ASSUME Init PROVE IInv
      OBVIOUS
    <2>1. TypeOK
      <3>1. map \in [IID -> Instance \cup {Nobody}] /\ iid \in [Instance -> IID]
        BY Keys DEF Init
      <3>2. /\ owner \in [Instance -> Instance \cup Closer \cup {"user", Nobody}]
            /\ target \in [Closer -> Instance \cup {Nobody}]
            /\ closes \in [Instance -> Nat] /\ calls \in 0..MaxCalls
        BY RegistryAssumption DEF Init
      <3>3. /\ runtime = "RUNNING" /\ known = "no" /\ at = Nobody /\ torn = FALSE
            /\ visited = {} /\ expected = {} /\ settled = {}
        BY DEF Init
      <3>4. /\ status \in [Instance -> Status]
            /\ creator \in [Instance -> {"idle"}] /\ user \in [Instance -> {"idle"}]
            /\ renamer \in [Instance -> {"idle"}] /\ caller \in [Closer -> {"idle"}]
        BY DEF Init, Status
      <3> QED
        BY <3>1, <3>2, <3>3, <3>4 DEF TypeOK
    <2>5. RuntimeInv
      BY Threads DEF Init, RuntimeInv
    <2>2. ASSUME NEW i \in Instance PROVE HookInv(i) /\ LifeInv(i) /\ SweepInv(i)
      BY DEF Init, HookInv, LifeInv, SweepInv, Down
    <2>3. ASSUME NEW i \in Instance PROVE KeyInv(i)
      BY Threads DEF Init, KeyInv
    <2>4. ASSUME NEW c \in Closer PROVE CloserInv(c)
      BY DEF Init, CloserInv, Closer
    <2> QED
      BY <2>1, <2>2, <2>3, <2>4, <2>5 DEF IInv
  <1>2. IInv /\ [Next]_vars => IInv'
    <2> SUFFICES ASSUME IInv, [Next]_vars
                 PROVE  IInv'
      OBVIOUS
    <2>1. ASSUME NEW i \in Instance, Create(i) \/ ChangeIIDOfService(i) \/ Rename(i) PROVE IInv'
      BY <2>1, FindServiceInv, BindServiceInv, AddServiceInstanceInv, GroupFailsInv, OpenInv,
         OpenReturnsInv, OpenThrowsInv, AdvertiseInv, ChangeIIDOfServiceInv, SetIIDUnbindInv,
         SetIIDUnknownInv, SetIIDBindInv DEF Create, Rename
    <2>2. ASSUME NEW i \in Instance, NEW s \in DOMAIN Hook, UserCall(i, s) PROVE IInv'
      BY <2>2, UserCallInv
    <2>3. ASSUME NEW i \in Instance, NEW s \in Status, UserHookEnds(i, s) PROVE IInv'
      BY <2>3, UserHookEndsInv
    <2>4. ASSUME NEW c \in Stopper, Stop(c) \/ StopInstance(c) PROVE IInv'
      BY <2>4, StopInv, RemoveServiceInstanceInv, RemoveUnknownInv DEF StopInstance, Closer
    <2>5. ASSUME NEW c \in Closer, CloseInstance(c) PROVE IInv'
      BY <2>5, CloseInv, CloseRefusedInv, CloseEndsInv DEF CloseInstance
    <2>6. ASSUME CloseRuntime \/ CloseRuntimeStep PROVE IInv'
      BY <2>6, CloseRuntimeInv, SweepBeginInv, SweepEndInv, SweepNextInv DEF CloseRuntimeStep
    <2>7. CASE UNCHANGED vars
      BY <2>7 DEF vars, tableVars, svcVars, userVars, sweepVars, IInv, TypeOK, RuntimeInv, HookInv,
         LifeInv, KeyInv, SweepInv, CloserInv, Down, Taken
    <2> QED
      BY <2>1, <2>2, <2>3, <2>4, <2>5, <2>6, <2>7 DEF Next
  <1> QED
    BY <1>1, <1>2, PTL DEF Spec

\* close_i runs at most once for an instance, and nothing reopens it after that
\* (ServiceAbstract::changeState under the threads of the runtime).
THEOREM ClosedOnce == Spec => []TeardownOnce
  <1>1. IInv => TeardownOnce
    BY DEF IInv, TypeOK, LifeInv, Down, TeardownOnce
  <1> QED
    BY <1>1, IInvHolds, PTL

\* The table of the runtime finds an instance under its IID, through renames and
\* stops (LocalService::setIID, removeServiceInstance).
THEOREM AlwaysFindable == Spec => []Findable
  <1>1. IInv => Findable
    BY Threads DEF IInv, TypeOK, KeyInv, Findable, Taken
  <1> QED
    BY <1>1, IInvHolds, PTL

\* Closing the runtime closes every instance nobody was busy with
\* (SthenoCore::close, LocalService::close).
THEOREM RuntimeClosesAll == Spec => []CloseSettles
  <1>1. IInv => CloseSettles
    BY DEF IInv, TypeOK, SweepInv, CloseSettles, Taken, Down
  <1> QED
    BY <1>1, IInvHolds, PTL

\* Every step of an instance is in the table documented in ServiceAbstract.h.
THEOREM TableFollowed == Spec => FollowsTable
  <1> DEFINE Follows == \A i \in Instance : status'[i] # status[i] => status'[i] \in DocumentedTable[status[i]]
  <1>1. IInv /\ [Next]_vars => [Follows]_vars
    <2> SUFFICES ASSUME IInv, Next
                 PROVE  Follows
      OBVIOUS
    <2> USE Hooks, Threads DEF tableVars, svcVars, userVars, sweepVars, At, Goes
    <2>1. TypeOK /\ (\A j \in Instance : HookInv(j) /\ LifeInv(j)) /\ \A d \in Closer : CloserInv(d)
      BY DEF IInv
    <2>2. ASSUME NEW i \in Instance, Create(i) \/ ChangeIIDOfService(i) \/ Rename(i) PROVE Follows
      <3>1. CASE Open(i)
        BY <2>1, <3>1, Table DEF Open, Locks, ChangeState, TypeOK, LifeInv, DocumentedTable
      <3>2. CASE OpenReturns(i) \/ OpenThrows(i)
        BY <2>1, <3>2 DEF OpenReturns, OpenThrows, Leaves, TypeOK, HookInv, DocumentedTable
      <3> QED
        BY <2>2, <3>1, <3>2 DEF Create, Rename, FindService, BindService, AddServiceInstance, GroupFails,
           Advertise, ChangeIIDOfService, SetIIDUnbind, SetIIDUnknown, SetIIDBind
    <2>3. ASSUME NEW i \in Instance, NEW s \in DOMAIN Hook, UserCall(i, s) PROVE Follows
      BY <2>1, <2>3, Table DEF UserCall, Locks, ChangeState, TypeOK, LifeInv, DocumentedTable
    <2>4. ASSUME NEW i \in Instance, NEW s \in Status, UserHookEnds(i, s) PROVE Follows
      BY <2>1, <2>4 DEF UserHookEnds, Leaves, TypeOK, HookInv, DocumentedTable
    <2>5. ASSUME NEW c \in Stopper, Stop(c) \/ StopInstance(c) PROVE Follows
      BY <2>5 DEF Stop, StopInstance, RemoveServiceInstance, RemoveUnknown
    <2>6. ASSUME NEW c \in Closer, Close(c) PROVE Follows
      BY <2>1, <2>6, Table DEF Close, Locks, ChangeState, TypeOK, CloserInv, LifeInv, Status, DocumentedTable
    <2>7. ASSUME NEW c \in Closer, CloseRefused(c) PROVE Follows
      BY <2>7 DEF CloseRefused
    <2>8. ASSUME NEW c \in Closer, NEW s \in {"CLOSING", "CLOSED"}, CloseEnds(c, s) PROVE Follows
      BY <2>1, <2>8 DEF CloseEnds, Leaves, TypeOK, CloserInv, DocumentedTable
    <2>9. ASSUME CloseRuntime \/ CloseRuntimeStep PROVE Follows
      BY <2>9 DEF CloseRuntime, CloseRuntimeStep, SweepBegin, SweepNext, SweepEnd
    <2> QED
      BY <2>2, <2>3, <2>4, <2>5, <2>6, <2>7, <2>8, <2>9 DEF Next, CloseInstance
  <1> QED
    BY <1>1, IInvHolds, PTL DEF Spec, FollowsTable
=============================================================================
