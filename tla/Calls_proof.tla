---------------------------- MODULE Calls_proof ----------------------------
(***************************************************************************)
(* Proofs about the threads that wait for an answer from another process:  *)
(* the announcement, which waits for all of a group of requests            *)
(* (RequestGroup), and the calls to the daemon of the CPU reservations,    *)
(* with what the daemon does for them (Reservations, and there M, an       *)
(* instance of Medusa).  The two share no state.  RequestGroup is for any  *)
(* finite set of channels, Medusa for any runtimes, threads and bounds.    *)
(***************************************************************************)
EXTENDS RequestGroup, Reservations, FiniteSetTheorems, SequenceTheorems, TLAPS

-----------------------------------------------------------------------------
(* Counting                                                                *)

\* A set of channels is finite and no larger than Channel.
LEMMA ChannelsFinite ==
    ASSUME NEW S \in SUBSET Channel
    PROVE  /\ IsFiniteSet(S)
           /\ Cardinality(S) \in Nat
           /\ Cardinality(S) <= Cardinality(Channel)
           /\ Cardinality(Channel) \in Nat
  BY ChannelAssumption, FS_Subset, FS_CardinalityType

\* One more channel is one more in the count.
LEMMA CountOneMore ==
    ASSUME NEW S \in SUBSET Channel, NEW T \in SUBSET Channel, NEW c \in Channel,
           c \notin S, T = S \cup {c}
    PROVE  Cardinality(T) = Cardinality(S) + 1
  BY ChannelsFinite, FS_AddElement

\* When as many requests are counted as were added, each of them is counted.
LEMMA AllCounted ==
    ASSUME TypeOK, NEW S \in SUBSET members, Cardinality(S) = Cardinality(members)
    PROVE  S = members
  <1>1. IsFiniteSet(members)
    BY ChannelsFinite DEF TypeOK
  <1> QED
    BY <1>1, FS_Subset

-----------------------------------------------------------------------------
(* One lemma for each step                                                 *)

\* Send preserves the invariant.
LEMMA SendInv ==
    ASSUME NEW c \in Channel, IInv, Send(c)
    PROVE  IInv'
  <1> USE DEF envVars, reqVars, groupVars, waitVars
  <1>1. TypeOK /\ RequestInv /\ ListenInv /\ CountInv
    BY DEF IInv
  <1>2. finished' \in 0..Cardinality(Channel)
    BY <1>1 DEF Send, TypeOK
  <1>3. TypeOK'
    BY <1>1, <1>2 DEF Send, TypeOK, Final
  <1>4. RequestInv'
    BY <1>1 DEF Send, RequestInv, ListenInv, TypeOK, Firing, RequestLocked, EngineLocked, Final
  <1>5. ListenInv'
    BY <1>1 DEF Send, ListenInv, RequestInv, TypeOK, Final, Firing, GroupLocked
  <1>6. CountInv'
    BY DEF Send, CountInv
  <1>7. group' = "success" => \A o \in members' : state'[o] \in Final /\ ~Firing(o)'
    BY <1>1 DEF IInv, Send, ListenInv, RequestInv, TypeOK, Firing, Final
  <1> QED
    BY <1>3, <1>4, <1>5, <1>6, <1>7 DEF IInv

\* SendFails preserves the invariant.
LEMMA SendFailsInv ==
    ASSUME NEW c \in Channel, IInv, SendFails(c)
    PROVE  IInv'
  <1> USE DEF envVars, reqVars, groupVars, waitVars
  <1>1. TypeOK /\ RequestInv /\ ListenInv /\ CountInv
    BY DEF IInv
  <1>2. finished' \in 0..Cardinality(Channel)
    BY <1>1 DEF SendFails, TypeOK
  <1>3. TypeOK'
    BY <1>1, <1>2 DEF SendFails, TypeOK, Final
  <1>4. RequestInv'
    BY <1>1 DEF SendFails, RequestInv, ListenInv, TypeOK, Firing, RequestLocked, EngineLocked, Final
  <1>5. ListenInv'
    BY <1>1 DEF SendFails, ListenInv, RequestInv, TypeOK, Final, Firing, GroupLocked
  <1>6. CountInv'
    BY DEF SendFails, CountInv
  <1>7. group' = "success" => \A o \in members' : state'[o] \in Final /\ ~Firing(o)'
    BY <1>1 DEF IInv, SendFails, ListenInv, RequestInv, TypeOK, Firing, Final
  <1> QED
    BY <1>3, <1>4, <1>5, <1>6, <1>7 DEF IInv

\* open starts with nothing counted.
LEMMA OpenInv ==
    ASSUME IInv, Open
    PROVE  IInv'
  <1> USE DEF envVars, reqVars, groupVars, waitVars
  <1>1. TypeOK /\ RequestInv /\ ListenInv /\ CountInv
    BY DEF IInv
  <1>2. TypeOK'
    BY <1>1 DEF Open, TypeOK
  <1>3. RequestInv'
    BY <1>1 DEF Open, RequestInv, Firing, RequestLocked
  <1>4. ListenInv'
    BY <1>1 DEF Open, ListenInv
  <1>5. CountInv'
    <2>1. Counted' = {} /\ finished' = 0
      BY <1>1 DEF Open, Counted, ListenInv
    <2> QED
      BY <2>1, FS_EmptySet DEF CountInv
  <1>6. group' = "success" => \A o \in members' : state'[o] \in Final /\ ~Firing(o)'
    BY DEF IInv, Open, Firing
  <1> QED
    BY <1>2, <1>3, <1>4, <1>5, <1>6 DEF IInv

\* OpenFinished preserves the invariant.
LEMMA OpenFinishedInv ==
    ASSUME NEW c \in Channel, IInv, OpenFinished(c)
    PROVE  IInv'
  <1> USE DEF envVars, reqVars, groupVars, waitVars
  <1>1. TypeOK /\ RequestInv /\ ListenInv /\ CountInv
    BY DEF IInv
  <1>0. /\ waiter \in {"open", "listen", "wait", "blocked"}
        /\ c \in members /\ c \notin Counted /\ Counted' = Counted \cup {c}
        /\ Counted \in SUBSET Channel /\ Counted' \in SUBSET members
    <2>1. /\ waiter \in {"open", "listen", "wait", "blocked"}
          /\ c \in members /\ c \notin Counted
      BY <1>1 DEF OpenFinished, IterNext, Counted, RequestInv, ListenInv, Firing, GroupLocked, TypeOK
    <2>2. Counted' = Counted \cup {c}
      BY <1>1, <2>1 DEF OpenFinished, IterNext, Counted, RequestInv, ListenInv, Firing, TypeOK
    <2> QED
      BY <1>1, <2>1, <2>2 DEF TypeOK, Counted
  <1>c. Cardinality(Counted') = finished + 1 /\ finished' = finished + 1
    BY <1>0, <1>1, CountOneMore DEF OpenFinished, IterNext, CountInv, TypeOK
  <1>2. finished' \in 0..Cardinality(Channel)
    BY <1>0, <1>1, <1>c, ChannelsFinite DEF TypeOK
  <1>3. TypeOK'
    BY <1>1, <1>2 DEF OpenFinished, IterNext, TypeOK, Final
  <1>4. RequestInv'
    BY <1>1 DEF OpenFinished, IterNext, RequestInv, ListenInv, TypeOK, Firing, RequestLocked, EngineLocked, Final
  <1>5. ListenInv'
    BY <1>1, <1>0 DEF OpenFinished, IterNext, ListenInv, RequestInv, TypeOK, Final, Firing, GroupLocked
  <1>6. CountInv'
    BY <1>c DEF CountInv
  <1>7. group' = "success" => \A o \in members' : state'[o] \in Final /\ ~Firing(o)'
    BY <1>1, <1>0 DEF IInv, OpenFinished, IterNext, ListenInv, RequestInv, TypeOK, Firing, Final
  <1> QED
    BY <1>3, <1>4, <1>5, <1>6, <1>7 DEF IInv

\* OpenPending preserves the invariant.
LEMMA OpenPendingInv ==
    ASSUME NEW c \in Channel, IInv, OpenPending(c)
    PROVE  IInv'
  <1> USE DEF envVars, reqVars, groupVars, waitVars
  <1>1. TypeOK /\ RequestInv /\ ListenInv /\ CountInv
    BY DEF IInv
  <1>2. finished' \in 0..Cardinality(Channel)
    BY <1>1 DEF OpenPending, TypeOK
  <1>3. TypeOK'
    BY <1>1, <1>2 DEF OpenPending, TypeOK, Final
  <1>4. RequestInv'
    BY <1>1 DEF OpenPending, RequestInv, ListenInv, TypeOK, Firing, RequestLocked, EngineLocked, Final
  <1>5. ListenInv'
    BY <1>1 DEF OpenPending, ListenInv, RequestInv, TypeOK, Final, Firing, GroupLocked
  <1>6. CountInv'
    <2>1. Counted' = Counted
      BY <1>1 DEF OpenPending, Counted, Firing, RequestInv, ListenInv, TypeOK, Final
    <2> QED
      BY <1>1, <2>1 DEF OpenPending, CountInv, ListenInv
  <1>7. group' = "success" => \A o \in members' : state'[o] \in Final /\ ~Firing(o)'
    BY <1>1 DEF IInv, OpenPending, ListenInv, RequestInv, TypeOK, Firing, Final
  <1> QED
    BY <1>3, <1>4, <1>5, <1>6, <1>7 DEF IInv

\* setListener counts a request that has become final; else its reader will.
LEMMA SetListenerInv ==
    ASSUME NEW c \in Channel, IInv, SetListener(c)
    PROVE  IInv'
  <1> USE DEF envVars, reqVars, groupVars, waitVars
  <1>1. TypeOK /\ RequestInv /\ ListenInv /\ CountInv
    BY DEF IInv
  <1>2. /\ UNCHANGED <<members, state, reader>> /\ todo' = todo \ {c} /\ waiter' = "open"
        /\ c \in members /\ c \in todo /\ c \notin Counted /\ ~Firing(c)
        /\ listening' = listening \cup {c} /\ setting' = {}
        /\ finished = Cardinality(Counted)
        /\ Counted \in SUBSET Channel /\ Counted' \in SUBSET members
    BY <1>1 DEF SetListener, IterNext, ListenInv, TypeOK, Counted, Firing, RequestLocked, CountInv
  <1>3. CASE state[c] \in Final
    <2>1. Counted' = Counted \cup {c}
      BY <1>1, <1>2, <1>3 DEF Counted, Firing
    <2>2. finished' = finished + 1 /\ finished' = Cardinality(Counted')
      BY <1>1, <1>2, <1>3, <2>1, CountOneMore DEF SetListener, FireIfFinal, OnEvent, TypeOK
    <2>3. finished' \in 0..Cardinality(Channel)
      BY <1>1, <1>2, <2>2, ChannelsFinite DEF TypeOK
    <2>4. group' = "success" => \A o \in members' : state'[o] \in Final /\ ~Firing(o)'
      <3>1. CASE finished' = Cardinality(members)
        <4>1. Counted' = members
          BY <1>1, <1>2, <2>2, <3>1, AllCounted
        <4> QED
          BY <1>2, <4>1 DEF Counted
      <3>2. CASE finished' # Cardinality(members)
        BY <1>2, <1>3, <3>2 DEF SetListener, FireIfFinal, OnEvent, IsAllEventFinal, IInv, Firing
      <3> QED
        BY <3>1, <3>2
    <2>5. TypeOK'
      BY <1>1, <2>3 DEF SetListener, FireIfFinal, OnEvent, IterNext, TypeOK, Final
    <2>6. RequestInv'
      BY <1>1 DEF SetListener, RequestInv, Firing, RequestLocked
    <2>7. ListenInv'
      BY <1>1, <1>2, <1>3 DEF SetListener, FireIfFinal, OnEvent, ListenInv
    <2> QED
      BY <2>2, <2>4, <2>5, <2>6, <2>7 DEF IInv, CountInv
  <1>4. CASE state[c] \notin Final
    <2>1. Counted' = Counted
      BY <1>1, <1>2, <1>4 DEF Counted, Firing
    <2>2. finished' = finished /\ group' = group
      BY <1>4 DEF SetListener, FireIfFinal
    <2>3. TypeOK'
      BY <1>1, <2>2 DEF SetListener, IterNext, TypeOK
    <2>4. RequestInv'
      BY <1>1 DEF SetListener, RequestInv, Firing, RequestLocked
    <2>5. ListenInv'
      BY <1>1, <1>2, <2>2 DEF SetListener, ListenInv
    <2>6. group' = "success" => \A o \in members' : state'[o] \in Final /\ ~Firing(o)'
      BY <1>2, <2>2 DEF IInv, Firing
    <2> QED
      BY <1>2, <2>1, <2>2, <2>3, <2>4, <2>5, <2>6 DEF IInv, CountInv
  <1> QED
    BY <1>3, <1>4

\* OpenEnd preserves the invariant.
LEMMA OpenEndInv ==
    ASSUME IInv, OpenEnd
    PROVE  IInv'
  <1> USE DEF envVars, reqVars, groupVars, waitVars
  <1>1. TypeOK /\ RequestInv /\ ListenInv /\ CountInv
    BY DEF IInv
  <1>2. finished' \in 0..Cardinality(Channel)
    BY <1>1 DEF OpenEnd, TypeOK
  <1>3. TypeOK'
    BY <1>1, <1>2 DEF OpenEnd, TypeOK, Final
  <1>4. RequestInv'
    BY <1>1 DEF OpenEnd, RequestInv, ListenInv, TypeOK, Firing, RequestLocked, EngineLocked, Final
  <1>5. ListenInv'
    BY <1>1 DEF OpenEnd, ListenInv, RequestInv, TypeOK, Final, Firing, GroupLocked
  <1>6. CountInv'
    <2>1. Counted' = Counted
      BY <1>1 DEF OpenEnd, Counted, Firing, RequestInv, ListenInv, TypeOK, Final
    <2> QED
      BY <1>1, <2>1 DEF OpenEnd, CountInv, ListenInv
  <1>7. group' = "success" => \A o \in members' : state'[o] \in Final /\ ~Firing(o)'
    BY <1>1 DEF IInv, OpenEnd, ListenInv, RequestInv, TypeOK, Firing, Final
  <1> QED
    BY <1>3, <1>4, <1>5, <1>6, <1>7 DEF IInv

\* waitFuture succeeds at once only when all requests are counted.
LEMMA WaitFutureInv ==
    ASSUME IInv, WaitFuture
    PROVE  IInv'
  <1> USE DEF envVars, reqVars, groupVars, waitVars
  <1>1. TypeOK /\ RequestInv /\ ListenInv /\ CountInv
    BY DEF IInv
  <1>2. TypeOK'
    BY <1>1 DEF WaitFuture, TypeOK, Final
  <1>3. RequestInv'
    BY <1>1 DEF WaitFuture, RequestInv, Firing, RequestLocked
  <1>4. ListenInv'
    BY <1>1 DEF WaitFuture, ListenInv, TypeOK, Final
  <1>5. CountInv'
    <2>1. CASE waiter' = "blocked"
      BY <1>1, <2>1 DEF WaitFuture, CountInv, Counted, Firing
    <2> QED
      BY <2>1 DEF WaitFuture, CountInv
  <1>6. group' = "success" => \A o \in members' : state'[o] \in Final /\ ~Firing(o)'
    <2>1. CASE finished = Cardinality(members)
      <3>1. Counted = members
        BY <1>1, <2>1, AllCounted DEF WaitFuture, CountInv, Counted
      <3> QED
        BY <3>1 DEF WaitFuture, Counted, Firing
    <2>2. CASE finished # Cardinality(members)
      BY <2>2 DEF WaitFuture, IsAllEventFinal, IInv, Firing
    <2> QED
      BY <2>1, <2>2
  <1> QED
    BY <1>2, <1>3, <1>4, <1>5, <1>6 DEF IInv

\* Wake preserves the invariant.
LEMMA WakeInv ==
    ASSUME IInv, Wake
    PROVE  IInv'
  <1> USE DEF envVars, reqVars, groupVars, waitVars
  <1>1. TypeOK /\ RequestInv /\ ListenInv /\ CountInv
    BY DEF IInv
  <1>2. finished' \in 0..Cardinality(Channel)
    BY <1>1 DEF Wake, TypeOK
  <1>3. TypeOK'
    BY <1>1, <1>2 DEF Wake, TypeOK, Final
  <1>4. RequestInv'
    BY <1>1 DEF Wake, RequestInv, ListenInv, TypeOK, Firing, RequestLocked, EngineLocked, Final
  <1>5. ListenInv'
    BY <1>1 DEF Wake, ListenInv, RequestInv, TypeOK, Final, Firing, GroupLocked
  <1>6. CountInv'
    BY DEF Wake, CountInv
  <1>7. group' = "success" => \A o \in members' : state'[o] \in Final /\ ~Firing(o)'
    BY <1>1 DEF IInv, Wake, ListenInv, RequestInv, TypeOK, Firing, Final
  <1> QED
    BY <1>3, <1>4, <1>5, <1>6, <1>7 DEF IInv

\* Detach preserves the invariant.
LEMMA DetachInv ==
    ASSUME NEW c \in Channel, IInv, Detach(c)
    PROVE  IInv'
  <1> USE DEF envVars, reqVars, groupVars, waitVars
  <1>1. TypeOK /\ RequestInv /\ ListenInv /\ CountInv
    BY DEF IInv
  <1>2. finished' \in 0..Cardinality(Channel)
    BY <1>1 DEF Detach, TypeOK
  <1>3. TypeOK'
    BY <1>1, <1>2 DEF Detach, TypeOK, Final
  <1>4. RequestInv'
    BY <1>1 DEF Detach, RequestInv, ListenInv, TypeOK, Firing, RequestLocked, EngineLocked, Final
  <1>5. ListenInv'
    BY <1>1 DEF Detach, ListenInv, RequestInv, TypeOK, Final, Firing, GroupLocked
  <1>6. CountInv'
    BY DEF Detach, CountInv
  <1>7. group' = "success" => \A o \in members' : state'[o] \in Final /\ ~Firing(o)'
    BY <1>1 DEF IInv, Detach, ListenInv, RequestInv, TypeOK, Firing, Final
  <1> QED
    BY <1>3, <1>4, <1>5, <1>6, <1>7 DEF IInv

\* Return preserves the invariant.
LEMMA ReturnInv ==
    ASSUME IInv, Return
    PROVE  IInv'
  <1> USE DEF envVars, reqVars, groupVars, waitVars
  <1>1. TypeOK /\ RequestInv /\ ListenInv /\ CountInv
    BY DEF IInv
  <1>2. finished' \in 0..Cardinality(Channel)
    BY <1>1 DEF Return, TypeOK
  <1>3. TypeOK'
    BY <1>1, <1>2 DEF Return, TypeOK, Final
  <1>4. RequestInv'
    BY <1>1 DEF Return, RequestInv, ListenInv, TypeOK, Firing, RequestLocked, EngineLocked, Final
  <1>5. ListenInv'
    BY <1>1 DEF Return, ListenInv, RequestInv, TypeOK, Final, Firing, GroupLocked
  <1>6. CountInv'
    BY DEF Return, CountInv
  <1>7. group' = "success" => \A o \in members' : state'[o] \in Final /\ ~Firing(o)'
    BY <1>1 DEF IInv, Return, ListenInv, RequestInv, TypeOK, Firing, Final
  <1> QED
    BY <1>3, <1>4, <1>5, <1>6, <1>7 DEF IInv

\* ReadReply preserves the invariant.
LEMMA ReadReplyInv ==
    ASSUME NEW c \in Channel, IInv, ReadReply(c)
    PROVE  IInv'
  <1> USE DEF envVars, reqVars, groupVars, waitVars
  <1>1. TypeOK /\ RequestInv /\ ListenInv /\ CountInv
    BY DEF IInv
  <1>2. finished' \in 0..Cardinality(Channel)
    BY <1>1 DEF ReadReply, TypeOK
  <1>3. TypeOK'
    BY <1>1, <1>2 DEF ReadReply, TypeOK, Final
  <1>4. RequestInv'
    BY <1>1 DEF ReadReply, RequestInv, ListenInv, TypeOK, Firing, RequestLocked, EngineLocked, Final
  <1>5. ListenInv'
    BY <1>1 DEF ReadReply, ListenInv, RequestInv, TypeOK, Final, Firing, GroupLocked
  <1>6. CountInv'
    <2>1. Counted' = Counted
      BY <1>1 DEF ReadReply, Counted, Firing, RequestInv, ListenInv, TypeOK, Final
    <2> QED
      BY <1>1, <2>1 DEF ReadReply, CountInv, ListenInv
  <1>7. group' = "success" => \A o \in members' : state'[o] \in Final /\ ~Firing(o)'
    BY <1>1 DEF IInv, ReadReply, ListenInv, RequestInv, TypeOK, Firing, Final
  <1> QED
    BY <1>3, <1>4, <1>5, <1>6, <1>7 DEF IInv

\* SetFuture preserves the invariant.
LEMMA SetFutureInv ==
    ASSUME NEW c \in Channel, IInv, SetFuture(c)
    PROVE  IInv'
  <1> USE DEF envVars, reqVars, groupVars, waitVars
  <1>1. TypeOK /\ RequestInv /\ ListenInv /\ CountInv
    BY DEF IInv
  <1>0. c \in bound => state[c] = "idle" /\ c \notin Counted /\ (group = "success" => c \notin members)
    BY <1>1 DEF SetFuture, EngineForgotten, Fires, IInv, RequestInv, RequestLocked, Counted, Final
  <1>2. finished' \in 0..Cardinality(Channel)
    BY <1>1 DEF SetFuture, EngineForgotten, Fires, TypeOK
  <1>3. TypeOK'
    BY <1>1, <1>2 DEF SetFuture, EngineForgotten, Fires, TypeOK, Final
  <1>4. RequestInv'
    BY <1>1 DEF SetFuture, EngineForgotten, Fires, RequestInv, ListenInv, TypeOK, Firing, RequestLocked, EngineLocked, Final
  <1>5. ListenInv'
    BY <1>1, <1>0 DEF SetFuture, EngineForgotten, Fires, ListenInv, RequestInv, TypeOK, Final, Firing, GroupLocked
  <1>6. CountInv'
    <2>1. CASE waiter \in {"open", "listen", "wait", "blocked"}
      <3>1. c \in bound => c \notin members \ todo \/ c \in listening
        BY <1>0, <1>1, <2>1 DEF ListenInv, Final
      <3>2. \A o \in Channel : o \in Counted' <=> o \in Counted
        BY <1>0, <1>1, <3>1 DEF SetFuture, EngineForgotten, Fires, Counted, Firing, RequestInv, TypeOK
      <3>3. Counted' = Counted
        BY <1>1, <3>2 DEF SetFuture, EngineForgotten, Fires, Counted, TypeOK
      <3> QED
        BY <1>1, <3>3 DEF SetFuture, EngineForgotten, Fires, CountInv
    <2> QED
      BY <2>1 DEF SetFuture, EngineForgotten, Fires, CountInv
  <1>7. group' = "success" => \A o \in members' : state'[o] \in Final /\ ~Firing(o)'
    BY <1>1, <1>0 DEF IInv, SetFuture, EngineForgotten, Fires, ListenInv, RequestInv, TypeOK, Firing, Final
  <1> QED
    BY <1>3, <1>4, <1>5, <1>6, <1>7 DEF IInv

\* Notify preserves the invariant.
LEMMA NotifyInv ==
    ASSUME NEW c \in Channel, IInv, Notify(c)
    PROVE  IInv'
  <1> USE DEF envVars, reqVars, groupVars, waitVars
  <1>1. TypeOK /\ RequestInv /\ ListenInv /\ CountInv
    BY DEF IInv
  <1>0. /\ waiter \in {"open", "listen", "wait", "blocked"}
        /\ c \in members /\ c \notin Counted /\ Counted' = Counted \cup {c}
        /\ Counted \in SUBSET Channel /\ Counted' \in SUBSET members
    <2>1. /\ waiter \in {"open", "listen", "wait", "blocked"}
          /\ c \in members /\ c \notin Counted
      BY <1>1 DEF Notify, OnEvent, Counted, RequestInv, ListenInv, Firing, GroupLocked, TypeOK
    <2>2. Counted' = Counted \cup {c}
      BY <1>1, <2>1 DEF Notify, OnEvent, Counted, RequestInv, ListenInv, Firing, TypeOK
    <2> QED
      BY <1>1, <2>1, <2>2 DEF TypeOK, Counted
  <1>c. Cardinality(Counted') = finished + 1 /\ finished' = finished + 1
    BY <1>0, <1>1, CountOneMore DEF Notify, OnEvent, CountInv, TypeOK
  <1>2. finished' \in 0..Cardinality(Channel)
    BY <1>0, <1>1, <1>c, ChannelsFinite DEF TypeOK
  <1>3. TypeOK'
    BY <1>1, <1>2 DEF Notify, OnEvent, TypeOK, Final
  <1>4. RequestInv'
    BY <1>1 DEF Notify, OnEvent, RequestInv, ListenInv, TypeOK, Firing, RequestLocked, EngineLocked, Final
  <1>5. ListenInv'
    BY <1>1, <1>0 DEF Notify, OnEvent, ListenInv, RequestInv, TypeOK, Final, Firing, GroupLocked
  <1>6. CountInv'
    BY <1>c DEF CountInv
  <1>7. group' = "success" => \A o \in members' : state'[o] \in Final /\ ~Firing(o)'
    <2>1. CASE group = "success"
      BY <1>0, <1>1, <2>1 DEF IInv, Notify, Firing
    <2>2. CASE group' = "success" /\ finished + 1 = Cardinality(members)
      <3>1. Counted' = members
        BY <1>0, <1>1, <1>c, <2>2, AllCounted
      <3> QED
        BY <3>1 DEF Counted, Notify
    <2> QED
      BY <1>c, <2>1, <2>2 DEF Notify, OnEvent, IsAllEventFinal
  <1> QED
    BY <1>3, <1>4, <1>5, <1>6, <1>7 DEF IInv

\* ReplySet preserves the invariant.
LEMMA ReplySetInv ==
    ASSUME NEW c \in Channel, IInv, ReplySet(c)
    PROVE  IInv'
  <1> USE DEF envVars, reqVars, groupVars, waitVars
  <1>1. TypeOK /\ RequestInv /\ ListenInv /\ CountInv
    BY DEF IInv
  <1>2. finished' \in 0..Cardinality(Channel)
    BY <1>1 DEF ReplySet, TypeOK
  <1>3. TypeOK'
    BY <1>1, <1>2 DEF ReplySet, TypeOK, Final
  <1>4. RequestInv'
    BY <1>1 DEF ReplySet, RequestInv, ListenInv, TypeOK, Firing, RequestLocked, EngineLocked, Final
  <1>5. ListenInv'
    BY <1>1 DEF ReplySet, ListenInv, RequestInv, TypeOK, Final, Firing, GroupLocked
  <1>6. CountInv'
    <2>1. Counted' = Counted
      BY <1>1 DEF ReplySet, Counted, Firing, RequestInv, ListenInv, TypeOK, Final
    <2> QED
      BY <1>1, <2>1 DEF ReplySet, CountInv, ListenInv
  <1>7. group' = "success" => \A o \in members' : state'[o] \in Final /\ ~Firing(o)'
    BY <1>1 DEF IInv, ReplySet, ListenInv, RequestInv, TypeOK, Firing, Final
  <1> QED
    BY <1>3, <1>4, <1>5, <1>6, <1>7 DEF IInv

\* ReadEnd preserves the invariant.
LEMMA ReadEndInv ==
    ASSUME NEW c \in Channel, IInv, ReadEnd(c)
    PROVE  IInv'
  <1> USE DEF envVars, reqVars, groupVars, waitVars
  <1>1. TypeOK /\ RequestInv /\ ListenInv /\ CountInv
    BY DEF IInv
  <1>2. finished' \in 0..Cardinality(Channel)
    BY <1>1 DEF ReadEnd, TypeOK
  <1>3. TypeOK'
    BY <1>1, <1>2 DEF ReadEnd, TypeOK, Final
  <1>4. RequestInv'
    BY <1>1 DEF ReadEnd, RequestInv, ListenInv, TypeOK, Firing, RequestLocked, EngineLocked, Final
  <1>5. ListenInv'
    BY <1>1 DEF ReadEnd, ListenInv, RequestInv, TypeOK, Final, Firing, GroupLocked
  <1>6. CountInv'
    <2>1. Counted' = Counted
      BY <1>1 DEF ReadEnd, Counted, Firing, RequestInv, ListenInv, TypeOK, Final
    <2> QED
      BY <1>1, <2>1 DEF ReadEnd, CountInv, ListenInv
  <1>7. group' = "success" => \A o \in members' : state'[o] \in Final /\ ~Firing(o)'
    BY <1>1 DEF IInv, ReadEnd, ListenInv, RequestInv, TypeOK, Firing, Final
  <1> QED
    BY <1>3, <1>4, <1>5, <1>6, <1>7 DEF IInv

\* CancelRequest preserves the invariant.
LEMMA CancelRequestInv ==
    ASSUME NEW c \in Channel, IInv, CancelRequest(c)
    PROVE  IInv'
  <1> USE DEF envVars, reqVars, groupVars, waitVars
  <1>1. TypeOK /\ RequestInv /\ ListenInv /\ CountInv
    BY DEF IInv
  <1>0. c \in bound => state[c] = "idle" /\ c \notin Counted /\ (group = "success" => c \notin members)
    BY <1>1 DEF CancelRequest, Fires, IInv, RequestInv, RequestLocked, Counted, Final
  <1>2. finished' \in 0..Cardinality(Channel)
    BY <1>1 DEF CancelRequest, Fires, TypeOK
  <1>3. TypeOK'
    BY <1>1, <1>2 DEF CancelRequest, Fires, TypeOK, Final
  <1>4. RequestInv'
    BY <1>1 DEF CancelRequest, Fires, RequestInv, ListenInv, TypeOK, Firing, RequestLocked, EngineLocked, Final
  <1>5. ListenInv'
    BY <1>1, <1>0 DEF CancelRequest, Fires, ListenInv, RequestInv, TypeOK, Final, Firing, GroupLocked
  <1>6. CountInv'
    <2>1. CASE waiter \in {"open", "listen", "wait", "blocked"}
      <3>1. c \in bound => c \notin members \ todo \/ c \in listening
        BY <1>0, <1>1, <2>1 DEF ListenInv, Final
      <3>2. \A o \in Channel : o \in Counted' <=> o \in Counted
        BY <1>0, <1>1, <3>1 DEF CancelRequest, Fires, Counted, Firing, RequestInv, TypeOK
      <3>3. Counted' = Counted
        BY <1>1, <3>2 DEF CancelRequest, Fires, Counted, TypeOK
      <3> QED
        BY <1>1, <3>3 DEF CancelRequest, Fires, CountInv
    <2> QED
      BY <2>1 DEF CancelRequest, Fires, CountInv
  <1>7. group' = "success" => \A o \in members' : state'[o] \in Final /\ ~Firing(o)'
    BY <1>1, <1>0 DEF IInv, CancelRequest, Fires, ListenInv, RequestInv, TypeOK, Firing, Final
  <1> QED
    BY <1>3, <1>4, <1>5, <1>6, <1>7 DEF IInv

\* ClearAllEnd preserves the invariant.
LEMMA ClearAllEndInv ==
    ASSUME NEW c \in Channel, IInv, ClearAllEnd(c)
    PROVE  IInv'
  <1> USE DEF envVars, reqVars, groupVars, waitVars
  <1>1. TypeOK /\ RequestInv /\ ListenInv /\ CountInv
    BY DEF IInv
  <1>2. finished' \in 0..Cardinality(Channel)
    BY <1>1 DEF ClearAllEnd, TypeOK
  <1>3. TypeOK'
    BY <1>1, <1>2 DEF ClearAllEnd, TypeOK, Final
  <1>4. RequestInv'
    BY <1>1 DEF ClearAllEnd, RequestInv, ListenInv, TypeOK, Firing, RequestLocked, EngineLocked, Final
  <1>5. ListenInv'
    BY <1>1 DEF ClearAllEnd, ListenInv, RequestInv, TypeOK, Final, Firing, GroupLocked
  <1>6. CountInv'
    <2>1. Counted' = Counted
      BY <1>1 DEF ClearAllEnd, Counted, Firing, RequestInv, ListenInv, TypeOK, Final
    <2> QED
      BY <1>1, <2>1 DEF ClearAllEnd, CountInv, ListenInv
  <1>7. group' = "success" => \A o \in members' : state'[o] \in Final /\ ~Firing(o)'
    BY <1>1 DEF IInv, ClearAllEnd, ListenInv, RequestInv, TypeOK, Firing, Final
  <1> QED
    BY <1>3, <1>4, <1>5, <1>6, <1>7 DEF IInv

\* SetClose preserves the invariant.
LEMMA SetCloseInv ==
    ASSUME NEW c \in Channel, IInv, SetClose(c)
    PROVE  IInv'
  <1> USE DEF envVars, reqVars, groupVars, waitVars
  <1>1. TypeOK /\ RequestInv /\ ListenInv /\ CountInv
    BY DEF IInv
  <1>2. finished' \in 0..Cardinality(Channel)
    BY <1>1 DEF SetClose, TypeOK
  <1>3. TypeOK'
    BY <1>1, <1>2 DEF SetClose, TypeOK, Final
  <1>4. RequestInv'
    BY <1>1 DEF SetClose, RequestInv, ListenInv, TypeOK, Firing, RequestLocked, EngineLocked, Final
  <1>5. ListenInv'
    BY <1>1 DEF SetClose, ListenInv, RequestInv, TypeOK, Final, Firing, GroupLocked
  <1>6. CountInv'
    <2>1. Counted' = Counted
      BY <1>1 DEF SetClose, Counted, Firing, RequestInv, ListenInv, TypeOK, Final
    <2> QED
      BY <1>1, <2>1 DEF SetClose, CountInv, ListenInv
  <1>7. group' = "success" => \A o \in members' : state'[o] \in Final /\ ~Firing(o)'
    BY <1>1 DEF IInv, SetClose, ListenInv, RequestInv, TypeOK, Firing, Final
  <1> QED
    BY <1>3, <1>4, <1>5, <1>6, <1>7 DEF IInv

\* PeerReplies preserves the invariant.
LEMMA PeerRepliesInv ==
    ASSUME NEW c \in Channel, IInv, PeerReplies(c)
    PROVE  IInv'
  <1> USE DEF envVars, reqVars, groupVars, waitVars
  <1>1. TypeOK /\ RequestInv /\ ListenInv /\ CountInv
    BY DEF IInv
  <1>2. finished' \in 0..Cardinality(Channel)
    BY <1>1 DEF PeerReplies, TypeOK
  <1>3. TypeOK'
    BY <1>1, <1>2 DEF PeerReplies, TypeOK, Final
  <1>4. RequestInv'
    BY <1>1 DEF PeerReplies, RequestInv, ListenInv, TypeOK, Firing, RequestLocked, EngineLocked, Final
  <1>5. ListenInv'
    BY <1>1 DEF PeerReplies, ListenInv, RequestInv, TypeOK, Final, Firing, GroupLocked
  <1>6. CountInv'
    <2>1. Counted' = Counted
      BY <1>1 DEF PeerReplies, Counted, Firing, RequestInv, ListenInv, TypeOK, Final
    <2> QED
      BY <1>1, <2>1 DEF PeerReplies, CountInv, ListenInv
  <1>7. group' = "success" => \A o \in members' : state'[o] \in Final /\ ~Firing(o)'
    BY <1>1 DEF IInv, PeerReplies, ListenInv, RequestInv, TypeOK, Firing, Final
  <1> QED
    BY <1>3, <1>4, <1>5, <1>6, <1>7 DEF IInv

\* PeerDies preserves the invariant.
LEMMA PeerDiesInv ==
    ASSUME NEW c \in Channel, IInv, PeerDies(c)
    PROVE  IInv'
  <1> USE DEF envVars, reqVars, groupVars, waitVars
  <1>1. TypeOK /\ RequestInv /\ ListenInv /\ CountInv
    BY DEF IInv
  <1>2. finished' \in 0..Cardinality(Channel)
    BY <1>1 DEF PeerDies, TypeOK
  <1>3. TypeOK'
    BY <1>1, <1>2 DEF PeerDies, TypeOK, Final
  <1>4. RequestInv'
    BY <1>1 DEF PeerDies, RequestInv, ListenInv, TypeOK, Firing, RequestLocked, EngineLocked, Final
  <1>5. ListenInv'
    BY <1>1 DEF PeerDies, ListenInv, RequestInv, TypeOK, Final, Firing, GroupLocked
  <1>6. CountInv'
    <2>1. Counted' = Counted
      BY <1>1 DEF PeerDies, Counted, Firing, RequestInv, ListenInv, TypeOK, Final
    <2> QED
      BY <1>1, <2>1 DEF PeerDies, CountInv, ListenInv
  <1>7. group' = "success" => \A o \in members' : state'[o] \in Final /\ ~Firing(o)'
    BY <1>1 DEF IInv, PeerDies, ListenInv, RequestInv, TypeOK, Firing, Final
  <1> QED
    BY <1>3, <1>4, <1>5, <1>6, <1>7 DEF IInv

-----------------------------------------------------------------------------
(* The theorems                                                            *)

\* The announcement starts with an empty group.
LEMMA InitIInv == Init => IInv
  BY ChannelsFinite DEF Init, IInv, TypeOK, RequestInv, ListenInv, CountInv, Firing,
                        RequestLocked, Final

\* IInv is inductive.
LEMMA NextIInv == IInv /\ [Next]_vars => IInv'
  <1> SUFFICES ASSUME IInv, [Next]_vars PROVE IInv'
    OBVIOUS
  <1>1. CASE Waiter
    BY <1>1, SendInv, SendFailsInv, OpenInv, OpenFinishedInv, OpenPendingInv, SetListenerInv,
       OpenEndInv, WaitFutureInv, WakeInv, DetachInv, ReturnInv DEF Waiter
  <1>2. ASSUME NEW c \in Channel, Reader(c) PROVE IInv'
    BY <1>2, ReadReplyInv, SetFutureInv, NotifyInv, ReplySetInv, ReadEndInv,
       CancelRequestInv, ClearAllEndInv, SetCloseInv DEF Reader
  <1>3. ASSUME NEW c \in Channel, PeerReplies(c) \/ PeerDies(c) PROVE IInv'
    BY <1>3, PeerRepliesInv, PeerDiesInv
  <1>4. CASE UNCHANGED vars
    <2> USE <1>4 DEF vars, envVars, reqVars, groupVars, waitVars
    <2>1. TypeOK' /\ RequestInv' /\ ListenInv'
      BY DEF IInv, TypeOK, RequestInv, ListenInv, Firing, RequestLocked
    <2>2. CountInv'
      BY DEF IInv, CountInv, Counted, Firing
    <2> QED
      BY <2>1, <2>2 DEF IInv, Firing
  <1> QED
    BY <1>1, <1>2, <1>3, <1>4 DEF Next

\* IInv is an invariant of the specification.
LEMMA IInvHolds == Spec => []IInv
  BY InitIInv, NextIInv, PTL DEF Spec

\* The group succeeds only when each request is answered or cancelled.
THEOREM Complete == Spec => []GroupComplete
  <1>1. IInv => GroupComplete
    BY DEF IInv, GroupComplete
  <1> QED
    BY <1>1, IInvHolds, PTL

\* The waiter never waits for an engine with the group and a request locked.
THEOREM InversionFree == Spec => []NoLockInversion
  <1>1. IInv => NoLockInversion
    <2> SUFFICES ASSUME IInv, waiter = "detach", NEW c \in todo, c \in attached
                 PROVE  FALSE
      BY DEF NoLockInversion
    <2>1. c \in members /\ group = "success" /\ c \in Channel
      BY DEF IInv, ListenInv, TypeOK
    <2>2. state[c] \in Final /\ state[c] = "idle"
      BY <2>1 DEF IInv, RequestInv
    <2> QED
      BY <2>2 DEF Final
  <1> QED
    BY <1>1, IInvHolds, PTL

-----------------------------------------------------------------------------
(* Queues of packets                                                       *)

\* What a queue of packets holds.
Elems(s) == {s[i] : i \in DOMAIN s}

\* No element is twice in s.
Once(s) == \A i, j \in DOMAIN s : s[i] = s[j] => i = j

\* A packet is put at the end of a queue.
LEMMA Appended ==
    ASSUME NEW S, NEW s \in Seq(S), NEW e \in S
    PROVE  /\ Append(s, e) \in Seq(S)
           /\ Elems(Append(s, e)) = Elems(s) \cup {e}
           /\ Once(s) /\ e \notin Elems(s) => Once(Append(s, e))
  <1> DEFINE t == Append(s, e)
  <1>1. /\ t \in Seq(S) /\ Len(s) \in Nat /\ Len(t) = Len(s) + 1 /\ t[Len(s) + 1] = e
        /\ \A i \in 1..Len(s) : t[i] = s[i]
        /\ DOMAIN s = 1..Len(s) /\ DOMAIN t = 1..Len(t)
    OBVIOUS
  <1> HIDE DEF t
  <1>2. ASSUME NEW x \in Elems(t) PROVE x \in Elems(s) \cup {e}
    <2>1. PICK i \in 1..Len(t) : x = t[i]
      BY <1>1 DEF Elems
    <2>2. i \in 1..Len(s) \/ i = Len(s) + 1
      BY <1>1, <2>1
    <2> QED
      BY <1>1, <2>1, <2>2 DEF Elems
  <1>3. ASSUME NEW x \in Elems(s) \cup {e} PROVE x \in Elems(t)
    <2>1. CASE x = e
      <3>1. Len(s) + 1 \in 1..Len(t)
        BY <1>1
      <3> QED
        BY <1>1, <2>1, <3>1 DEF Elems
    <2>2. CASE x \in Elems(s)
      <3>1. PICK i \in 1..Len(s) : x = s[i]
        BY <1>1, <2>2 DEF Elems
      <3>2. i \in 1..Len(t)
        BY <1>1
      <3> QED
        BY <1>1, <3>1, <3>2 DEF Elems
    <2> QED
      BY <1>3, <2>1, <2>2
  <1>4. ASSUME Once(s), e \notin Elems(s) PROVE Once(t)
    <2>1. \A i \in 1..Len(s) : s[i] # e
      BY <1>1, <1>4 DEF Elems
    <2>2. \A i, j \in 1..Len(s) : s[i] = s[j] => i = j
      BY <1>1, <1>4 DEF Once
    <2>3. ASSUME NEW i \in 1..Len(t), NEW j \in 1..Len(t), t[i] = t[j]
          PROVE  i = j
      <3>1. i \in 1..Len(s) \/ i = Len(s) + 1
        BY <1>1
      <3>2. j \in 1..Len(s) \/ j = Len(s) + 1
        BY <1>1
      <3> QED
        BY <1>1, <2>1, <2>2, <2>3, <3>1, <3>2
    <2> QED
      BY <1>1, <2>3 DEF Once
  <1> QED
    BY <1>1, <1>2, <1>3, <1>4 DEF t

\* The first packet of a queue is taken.
LEMMA Removed ==
    ASSUME NEW S, NEW s \in Seq(S), s # <<>>
    PROVE  /\ Tail(s) \in Seq(S) /\ Head(s) \in Elems(s) /\ Head(s) \in S
           /\ Elems(Tail(s)) \subseteq Elems(s)
           /\ Once(s) => Once(Tail(s)) /\ Elems(Tail(s)) = Elems(s) \ {Head(s)}
  <1> DEFINE t == Tail(s)
  <1>1. /\ t \in Seq(S) /\ Len(s) \in Nat /\ Len(s) >= 1
        /\ Len(t) = Len(s) - 1 /\ Head(s) = s[1] /\ 1 \in 1..Len(s) /\ s[1] \in S
        /\ \A i \in 1..Len(t) : t[i] = s[i + 1] /\ i + 1 \in 1..Len(s) /\ i + 1 # 1
        /\ DOMAIN s = 1..Len(s) /\ DOMAIN t = 1..Len(t)
    OBVIOUS
  <1> HIDE DEF t
  <1>2. Elems(t) \subseteq Elems(s)
    <2>1. ASSUME NEW x \in Elems(t) PROVE x \in Elems(s)
      <3>1. PICK i \in 1..Len(t) : x = t[i]
        BY <1>1, <2>1 DEF Elems
      <3> QED
        BY <1>1, <3>1 DEF Elems
    <2> QED
      BY <2>1
  <1>3. ASSUME Once(s) PROVE Once(t) /\ Elems(t) = Elems(s) \ {Head(s)}
    <2>1. \A i, j \in 1..Len(s) : s[i] = s[j] => i = j
      BY <1>1, <1>3 DEF Once
    <2>2. ASSUME NEW i \in 1..Len(t), NEW j \in 1..Len(t), t[i] = t[j]
          PROVE  i = j
      <3>1. i + 1 = j + 1
        BY <1>1, <2>1, <2>2
      <3> QED
        BY <1>1, <3>1
    <2>3. ASSUME NEW x \in Elems(t) PROVE x # Head(s)
      <3>1. PICK i \in 1..Len(t) : x = t[i]
        BY <1>1, <2>3 DEF Elems
      <3> QED
        BY <1>1, <2>1, <3>1
    <2>4. ASSUME NEW x \in Elems(s), x # Head(s)
          PROVE  x \in Elems(t)
      <3>1. PICK i \in 1..Len(s) : x = s[i]
        BY <1>1, <2>4 DEF Elems
      <3>2. i # 1
        BY <1>1, <2>4, <3>1
      <3>3. i - 1 \in 1..Len(t) /\ (i - 1) + 1 = i
        BY <1>1, <3>1, <3>2
      <3> QED
        BY <1>1, <3>1, <3>3 DEF Elems
    <2> QED
      BY <1>1, <1>2, <2>2, <2>3, <2>4 DEF Once
  <1>4. Head(s) \in Elems(s)
    BY <1>1 DEF Elems
  <1> QED
    BY <1>1, <1>2, <1>3, <1>4 DEF t

\* A queue of packets of a kind holds only such packets.
LEMMA ElemsIn ==
    ASSUME NEW S, NEW s \in Seq(S)
    PROVE  Elems(s) \subseteq S
  BY DEF Elems

\* An empty queue holds nothing.
LEMMA Empty == Elems(<<>>) = {} /\ Once(<<>>) /\ \A S : <<>> \in Seq(S)
  BY DEF Elems, Once

-----------------------------------------------------------------------------
(* The calls of a runtime                                                  *)

\* The modes in which the threads of a runtime make calls.
Active == {"opening", "running"}

\* The modes of a runtime.
Modes == {"off", "connecting", "opening", "running", "ended"}

\* The calls a thread makes; "init" is the packet of open.
Ops == {"reserve", "place", "list"}

\* A packet to the daemon.
Message == [op : {"init"} \cup Ops, id : Nat, thread : M!Threads]

\* A call that is under way.
Under == [state : {"ready", "waiting"}, op : Ops, id : Nat, task : M!Threads]

\* The types of what the calls are about.
CallTypes ==
    /\ mode \in [Runtimes -> Modes]
    /\ seq \in [Runtimes -> Nat]
    /\ calls \in [Runtimes -> Nat]
    /\ pending \in [Runtimes -> SUBSET [id : Nat, thread : M!Threads]]
    /\ call \in [M!Threads -> {M!Idle} \cup Under]
    /\ requests \in [Runtimes -> Seq(Message)]
    /\ output \in [Runtimes -> Seq(Nat)]
    /\ answers \in [Runtimes -> Seq(Nat)]
    /\ told \in [M!Threads -> BOOLEAN]

\* The threads of the runtime r.
Of(r) == {t \in M!Threads : t[1] = r}

\* The thread t waits for the answer to m.
Asks(t, m) ==
    call[t] = [state |-> "waiting", op |-> m.op, id |-> m.id, task |-> m.thread]

\* The thread t waits for the answer with this identifier.
Waits(t, id) == call[t].state = "waiting" /\ call[t].id = id

\* The identifiers the daemon has answered and the reader has not read.
Answered(r) == Elems(output[r]) \cup Elems(answers[r])

\* m_pendingRequests: identifiers are given once, and a call that is under way
\* has its future there.
FutureInv(r) ==
    /\ \A e \in pending[r] : e.id \in 2..seq[r] /\ e.thread[1] = r
    /\ \A e, f \in pending[r] : e.id = f.id => e = f
    /\ \A t \in Of(r) : call[t].state # "idle" =>
          /\ mode[r] \in Active
          /\ [id |-> call[t].id, thread |-> t] \in pending[r]
          /\ call[t].task[1] = r

\* Nothing is on its way before the runtime opens, and the opening thread has
\* three calls to make.
StartInv(r) ==
    /\ mode[r] \in {"off", "connecting"} =>
          requests[r] = <<>> /\ output[r] = <<>> /\ answers[r] = <<>> /\ calls[r] = 0
    /\ mode[r] = "opening" => calls[r] \in 0..2
    /\ mode[r] \in Active => seq[r] >= 1

\* On its way: no request and no answer is there twice, a request is not
\* answered yet, and of both the caller waits.
FlowInv(r) ==
    /\ Once(requests[r]) /\ Once(output[r]) /\ Once(answers[r])
    /\ Elems(output[r]) \cap Elems(answers[r]) = {}
    /\ \A m \in Elems(requests[r]) : m.op # "init" =>
          /\ m.id \notin Answered(r)
          /\ \E t \in Of(r) : Asks(t, m)
    /\ \A id \in Answered(r) : \E t \in Of(r) : Waits(t, id)

\* The calls of one runtime; nobody reads the answers to one that has ended.
Link(r) == FutureInv(r) /\ StartInv(r) /\ (mode[r] # "ended" => FlowInv(r))

\* The inductive invariant of the calls.
CallInv == CallTypes /\ \A r \in Runtimes : Link(r)

-----------------------------------------------------------------------------
(* Facts about the calls                                                   *)

\* Every thread is of one runtime.
LEMMA ThreadsOf ==
    /\ \A t \in M!Threads : t[1] \in Runtimes /\ t \in Of(t[1])
    /\ \A r \in Runtimes : <<r, "main">> \in Of(r) /\ <<r, "reader">> \in Of(r)
    /\ \A r : Of(r) \subseteq M!Threads
    /\ \A r, q, t : t \in Of(r) /\ t \in Of(q) => r = q
  BY DEF M!Threads, Of

\* Two calls under way have different identifiers.
LEMMA OneCall ==
    ASSUME CallTypes, NEW r \in Runtimes, FutureInv(r),
           NEW t \in Of(r), NEW u \in Of(r),
           call[t].state # "idle", call[u].state # "idle", call[t].id = call[u].id
    PROVE  t = u
  <1>1. [id |-> call[t].id, thread |-> t] = [id |-> call[u].id, thread |-> u]
    BY DEF FutureInv
  <1> QED
    BY <1>1

\* A step that leaves the calls of a runtime alone, or loses what the daemon
\* holds of them, keeps its part of the invariant.
LEMMA Kept ==
    ASSUME NEW q \in Runtimes, Link(q), CallTypes, 
           mode'[q] = mode[q], seq'[q] = seq[q], pending'[q] = pending[q],
           calls'[q] = calls[q], \A t \in Of(q) : call'[t] = call[t],
           requests'[q] \in {requests[q], <<>>}, output'[q] \in {output[q], <<>>},
           answers'[q] = answers[q]
    PROVE  Link(q)'
  <1>1. FutureInv(q)' /\ StartInv(q)'
    BY DEF Link, FutureInv, StartInv, Of, M!Threads
  <1>2. ASSUME FlowInv(q) PROVE FlowInv(q)'
    <2>1. /\ Elems(requests'[q]) \subseteq Elems(requests[q])
          /\ Elems(output'[q]) \subseteq Elems(output[q])
          /\ Once(requests'[q]) /\ Once(output'[q])
      BY <1>2, Empty DEF FlowInv
    <2> QED
      BY <1>2, <2>1 DEF FlowInv, Answered, Asks, Waits, Of, M!Threads
  <1> QED
    BY <1>1, <1>2 DEF Link

\* Of a runtime that has ended, nothing is claimed.
LEMMA Ended ==
    ASSUME NEW q \in Runtimes, mode'[q] = "ended", pending'[q] = {},
           \A t \in Of(q) : call'[t].state = "idle"
    PROVE  Link(q)'
  BY DEF Link, FutureInv, StartInv, Of, Active, M!Threads

-----------------------------------------------------------------------------
(* The calls, step by step                                                 *)

\* MedusaClient::open keeps the invariant of the calls.
LEMMA ConnectCall ==
    ASSUME CallInv, NEW r \in Runtimes, M!Connect(r) \/ M!ConnectFails(r)
    PROVE  CallInv'
  <1>1. /\ mode[r] = "off" /\ mode' = [mode EXCEPT ![r] = mode'[r]]
        /\ mode'[r] \in {"connecting", "ended"}
        /\ UNCHANGED <<requests, output, answers, M!clientVars>>
           \/ UNCHANGED <<requests, output, answers, seq, pending, call, told, calls>>
    BY DEF CallInv, CallTypes, M!Connect, M!ConnectFails, M!daemonVars
  <1>2. UNCHANGED <<requests, output, answers, seq, pending, call, told, calls>>
    BY <1>1 DEF M!Connect, M!ConnectFails, M!daemonVars
  <1>3. CallTypes'
    BY <1>1, <1>2 DEF CallInv, CallTypes, Modes
  <1>4. ASSUME NEW q \in Runtimes, q # r PROVE Link(q)'
    BY <1>1, <1>2, <1>4, Kept DEF CallInv, CallTypes
  <1>5. Link(r)'
    <2>1. Link(r) /\ mode'[r] \in {"connecting", "ended"}
      BY <1>1 DEF CallInv
    <2>2. FutureInv(r)' /\ StartInv(r)'
      BY <1>1, <1>2, <2>1 DEF Link, FutureInv, StartInv, Of, M!Threads, Active
    <2>3. FlowInv(r)'
      BY <1>1, <1>2, <2>1 DEF Link, FlowInv, Answered, Asks, Waits, Of, M!Threads
    <2> QED
      BY <2>2, <2>3 DEF Link
  <1> QED
    BY <1>3, <1>4, <1>5 DEF CallInv

\* The first packet, with the next identifier, keeps the invariant of the calls.
LEMMA SendInitCall ==
    ASSUME CallInv, NEW r \in Runtimes, M!SendInit(r)
    PROVE  CallInv'
  <1> DEFINE m == [op |-> "init", id |-> seq[r] + 1, thread |-> <<r, "main">>]
  <1>1. /\ mode[r] = "connecting" /\ requests[r] = <<>>
        /\ output[r] = <<>> /\ answers[r] = <<>> /\ calls[r] = 0 /\ seq[r] \in Nat
    BY DEF M!SendInit, CallInv, CallTypes, Link, StartInv
  <1>2. m \in Message /\ m.op = "init"
    BY <1>1 DEF Message, M!Threads
  <1>3. /\ requests'[r] = Append(requests[r], m)
        /\ requests' \in [Runtimes -> Seq(Message)]
        /\ \A q \in Runtimes : q # r => requests'[q] = requests[q]
    <2>1. Append(requests[r], m) \in Seq(Message)
      BY <1>2, Appended DEF CallInv, CallTypes
    <2> HIDE DEF m
    <2>2. requests' = [requests EXCEPT ![r] = Append(requests[r], m)]
      BY DEF M!SendInit, m
    <2> QED
      BY <1>1, <2>1, <2>2 DEF CallInv, CallTypes
  <1>4. UNCHANGED <<output, answers, pending, call, told, calls>>
    BY DEF M!SendInit
  <1>5. /\ mode' = [mode EXCEPT ![r] = "opening"]
        /\ seq' = [seq EXCEPT ![r] = seq[r] + 1]
    BY DEF M!SendInit
  <1>6. CallTypes'
    BY <1>3, <1>4, <1>5 DEF CallInv, CallTypes, Modes
  <1>7. ASSUME NEW q \in Runtimes, q # r PROVE Link(q)'
    BY <1>3, <1>4, <1>5, <1>7, Kept DEF CallInv, CallTypes
  <1>8. Link(r)'
    <2>1. Link(r) /\ mode'[r] = "opening" /\ seq'[r] = seq[r] + 1
      BY <1>5 DEF CallInv, CallTypes
    <2>2. FutureInv(r)' /\ StartInv(r)'
      BY <1>1, <1>4, <2>1 DEF Link, FutureInv, StartInv, Of, M!Threads, Active
    <2>3. Elems(requests'[r]) \subseteq {m} /\ Once(requests'[r])
      <3> HIDE DEF m
      <3>1. requests[r] \in Seq(Message) /\ m \notin Elems(requests[r]) /\ Once(requests[r])
        BY <1>1, Empty DEF CallInv, CallTypes
      <3>2. Elems(Append(requests[r], m)) = Elems(requests[r]) \cup {m}
            /\ Once(Append(requests[r], m))
        BY <1>2, <3>1, Appended
      <3> QED
        BY <1>1, <1>3, <3>2, Empty
    <2>4. FlowInv(r)'
      <3> HIDE DEF m
      <3> QED
        BY <1>1, <1>2, <1>4, <2>3, Empty DEF FlowInv, Answered
    <2> QED
      BY <2>2, <2>4 DEF Link
  <1> QED
    BY <1>6, <1>7, <1>8 DEF CallInv

\* A call takes a new identifier and puts its future under it.
LEMMA CallCall ==
    ASSUME CallInv, NEW t \in M!Threads, NEW op \in Ops, NEW task,
           <<t[1], task>> \in M!Threads, mode[t[1]] \in Active,
           M!Call(t, op, task), UNCHANGED <<requests, output, answers, mode, told>>,
           calls' \in [Runtimes -> Nat],
           \A q \in Runtimes : mode[q] # "running" => calls'[q] = calls[q]
    PROVE  CallInv'
  <1> DEFINE r == t[1]
             id == seq[r] + 1
             e == [id |-> id, thread |-> t]
             c == [state |-> "ready", op |-> op, id |-> id, task |-> <<r, task>>]
  <1>1. /\ r \in Runtimes /\ seq[r] \in Nat /\ seq[r] >= 1 /\ t \in Of(r)
        /\ CallTypes /\ Link(r)
    BY ThreadsOf DEF CallInv, CallTypes, Link, StartInv
  <1>2. /\ call[t].state = "idle"
        /\ call' = [call EXCEPT ![t] = c]
        /\ seq' = [seq EXCEPT ![r] = id]
        /\ pending' = [pending EXCEPT ![r] = @ \cup {e}]
    BY DEF M!Call
  <1>3. c \in Under /\ e \in [id : Nat, thread : M!Threads] /\ id \in Nat
    BY <1>1 DEF Under
  <1>4. CallTypes'
    <2> HIDE DEF c, e, id, r
    <2> QED
      BY <1>1, <1>2, <1>3 DEF CallTypes
  <1>5. ASSUME NEW q \in Runtimes, q # r PROVE Link(q)'
    <2>1. \A u \in Of(q) : u # t /\ u \in M!Threads
      BY <1>1, <1>5, ThreadsOf
    <2>2. CASE mode[q] = "running"
      <3>1. FutureInv(q)'
        <4> HIDE DEF c, e, id, r
        <4> QED
          BY <1>1, <1>2, <1>5, <2>1 DEF CallInv, CallTypes, Link, FutureInv, Of
      <3>2. StartInv(q)'
        <4> HIDE DEF c, e, id, r
        <4> QED
          BY <1>1, <1>2, <1>5, <2>2 DEF CallInv, CallTypes, Link, StartInv
      <3>3. FlowInv(q)'
        <4> HIDE DEF c, e, id, r
        <4>1. FlowInv(q)
          BY <2>2 DEF CallInv, Link
        <4> QED
          BY <1>1, <1>2, <1>5, <2>1, <4>1 DEF CallTypes, FlowInv, Answered, Asks, Waits, Of
      <3> QED
        BY <3>1, <3>2, <3>3 DEF Link
    <2>3. CASE mode[q] # "running"
      <3> HIDE DEF c, e, id, r
      <3> QED
        BY <1>1, <1>2, <1>5, <2>1, <2>3, Kept DEF CallInv, CallTypes
    <2> QED
      BY <2>2, <2>3
  <1>6. Link(r)'
    <2>0. /\ \A f \in pending[r] : f.id <= seq[r] /\ f.id # id /\ f.id \in Nat
          /\ call'[t] = c /\ pending'[r] = pending[r] \cup {e} /\ seq'[r] = id
          /\ \A u \in Of(r) : u # t => call'[u] = call[u]
          /\ e.id = id /\ e.thread = t
          /\ c.id = id /\ c.state = "ready" /\ c.task[1] = r
      BY <1>1, <1>2 DEF CallTypes, Link, FutureInv, Of
    <2>1. FutureInv(r)'
      <3>1. \A f \in pending'[r] : f.id \in 2..seq'[r] /\ f.thread[1] = r
        BY <1>1, <2>0 DEF Link, FutureInv
      <3>2. \A f, g \in pending'[r] : f.id = g.id => f = g
        <4> HIDE DEF c, e, id, r
        <4> QED
          BY <1>1, <2>0 DEF Link, FutureInv
      <3>3. ASSUME NEW u \in Of(r), call'[u].state # "idle"
            PROVE  mode'[r] \in Active /\ call'[u].task[1] = r
                   /\ [id |-> call'[u].id, thread |-> u] \in pending'[r]
        <4>1. CASE u = t
          BY <2>0, <4>1
        <4>2. CASE u # t
          <5> HIDE DEF c, e, id, r
          <5> QED
            BY <1>1, <2>0, <3>3, <4>2 DEF Link, FutureInv
        <4> QED
          BY <4>1, <4>2
      <3> HIDE DEF c, e, id, r
      <3> QED
        BY <3>1, <3>2, <3>3 DEF FutureInv, Of
    <2>2. StartInv(r)'
      BY <1>1, <2>0 DEF Link, StartInv, Active
    <2>3. FlowInv(r)'
      <3>1. FlowInv(r)
        BY <1>1 DEF Link, Active
      <3>2. \A u \in Of(r) : call[u].state = "waiting" => call'[u] = call[u]
        BY <1>2, <2>0
      <3>3. \A u \in Of(r) : \A m : Asks(u, m) => Asks(u, m)'
        BY <3>2 DEF Asks
      <3>4. \A u \in Of(r) : \A i : Waits(u, i) => Waits(u, i)'
        BY <3>2 DEF Waits
      <3>5. Answered(r)' = Answered(r) /\ requests'[r] = requests[r] /\ Of(r)' = Of(r)
        BY DEF Answered, Of, M!Threads
      <3> HIDE DEF c, e, id, r
      <3> QED
        BY <3>1, <3>3, <3>4, <3>5 DEF FlowInv
    <2> QED
      BY <2>1, <2>2, <2>3 DEF Link
  <1> QED
    BY <1>4, <1>5, <1>6 DEF CallInv

\* The three calls of QoSManager::open keep the invariant of the calls.
LEMMA OpenStepCall ==
    ASSUME CallInv, NEW r \in Runtimes, M!OpenStep(r)
    PROVE  CallInv'
  <1>1. /\ mode[r] = "opening" /\ calls[r] \in 0..2
        /\ UNCHANGED <<requests, output, answers, mode, told, calls>>
    BY DEF M!OpenStep, CallInv, Link, StartInv, M!daemonVars
  <1>2. /\ <<r, "main">> \in M!Threads /\ <<r, "reader">> \in M!Threads
        /\ <<r, "main">>[1] = r /\ <<r, "main">>[2] = "main"
    BY DEF M!Threads
  <1>3. \E op \in Ops, task \in {"main", "reader"} : M!Call(<<r, "main">>, op, task)
    <2>1. CASE calls[r] = 0
      BY <1>2, <2>1 DEF M!OpenStep, M!CreateRuntimeCPUReserve, Ops
    <2>2. CASE calls[r] = 1
      BY <1>2, <2>2 DEF M!OpenStep, M!SetTaskInCPUPartition, Ops
    <2>3. CASE calls[r] = 2
      BY <1>2, <2>3 DEF M!OpenStep, M!SetTaskInCPUPartition, Ops
    <2> QED
      BY <1>1, <2>1, <2>2, <2>3
  <1>4. PICK op \in Ops, task \in {"main", "reader"} : M!Call(<<r, "main">>, op, task)
    BY <1>3
  <1> QED
    BY <1>1, <1>2, <1>4, CallCall DEF CallInv, CallTypes, Active

\* A call of another thread keeps the invariant of the calls.
LEMMA WorkerCallCall ==
    ASSUME CallInv, NEW t \in M!Threads, M!WorkerCall(t)
    PROVE  CallInv'
  <1>1. /\ mode[t[1]] = "running" /\ calls' = [calls EXCEPT ![t[1]] = @ + 1]
        /\ UNCHANGED <<requests, output, answers, mode, told>>
        /\ \E op \in Ops : M!Call(t, op, t[2])
    BY DEF M!WorkerCall, M!SetTaskInCPUPartition, M!GetCPUPartitionList, Ops, M!daemonVars
  <1>2. PICK op \in Ops : M!Call(t, op, t[2])
    BY <1>1
  <1>3. <<t[1], t[2]>> \in M!Threads /\ t[1] \in Runtimes
    BY DEF M!Threads
  <1>4. calls' \in [Runtimes -> Nat] /\ \A q \in Runtimes : mode[q] # "running" => calls'[q] = calls[q]
    BY <1>1, <1>3 DEF CallInv, CallTypes
  <1> QED
    BY <1>1, <1>2, <1>3, <1>4, CallCall DEF Active

\* What a call that returns changes.
LEMMA ReturnedStart ==
    ASSUME CallInv, NEW t \in M!Threads, mode[t[1]] \in Active, M!Returned(t)
    PROVE  /\ call' = [call EXCEPT ![t] = M!Idle]
           /\ mode' \in [Runtimes -> Modes] /\ calls' \in [Runtimes -> Nat]
           /\ \A q \in Runtimes : q # t[1] => mode'[q] = mode[q] /\ calls'[q] = calls[q]
           /\ mode'[t[1]] \in Active
           /\ mode'[t[1]] = "opening" => calls'[t[1]] \in 0..2
  <1> DEFINE r == t[1]
  <1>1. /\ r \in Runtimes /\ calls[r] \in Nat /\ mode \in [Runtimes -> Modes]
        /\ calls \in [Runtimes -> Nat]
        /\ mode[r] = "opening" => calls[r] \in 0..2
    BY ThreadsOf DEF CallInv, CallTypes, Link, StartInv
  <1>2. CASE t[2] = "main"
    BY <1>1, <1>2 DEF M!Returned, Active, Modes
  <1>3. CASE t[2] # "main"
    BY <1>1, <1>3 DEF M!Returned
  <1> QED
    BY <1>2, <1>3

\* send, which may fail, keeps the invariant of the calls.
LEMMA SendCall ==
    ASSUME CallInv, NEW t \in M!Threads, M!Send(t)
    PROVE  CallInv'
  <1> DEFINE r == t[1]
  <1>m. PICK m : m = [op |-> call[t].op, id |-> call[t].id, thread |-> call[t].task]
    OBVIOUS
  <1>1. /\ r \in Runtimes /\ t \in Of(r) /\ CallTypes /\ Link(r)
        /\ call[t].state = "ready" /\ call[t] \in Under
    BY ThreadsOf DEF CallInv, CallTypes, M!Send, M!Idle
  <1>2. /\ mode[r] \in Active /\ FutureInv(r) /\ FlowInv(r)
        /\ UNCHANGED <<output, answers, seq, pending, told>>
    BY <1>1 DEF Link, FutureInv, M!Send, Active
  <1>3. CASE conn[r] = "closed"
    <2>1. M!Returned(t) /\ requests' = requests
      BY <1>3 DEF M!Send
    <2>2. /\ call' = [call EXCEPT ![t] = M!Idle]
          /\ mode' \in [Runtimes -> Modes] /\ calls' \in [Runtimes -> Nat]
          /\ \A q \in Runtimes : q # r => mode'[q] = mode[q] /\ calls'[q] = calls[q]
          /\ mode'[r] \in Active
          /\ mode'[r] = "opening" => calls'[r] \in 0..2
      BY <1>2, <2>1, ReturnedStart
    <2>3. CallTypes'
      BY <1>1, <1>2, <2>1, <2>2 DEF CallTypes
    <2>4. ASSUME NEW q \in Runtimes, q # r PROVE Link(q)'
      <3>1. \A u \in Of(q) : call'[u] = call[u]
        BY <1>1, <2>2, <2>4, ThreadsOf DEF CallTypes
      <3> HIDE DEF r
      <3> QED
        BY <1>2, <2>1, <2>2, <2>4, <3>1, Kept DEF CallInv
    <2>5. Link(r)'
      <3>1. \A u \in Of(r) : call'[u].state # "idle" => u # t /\ call'[u] = call[u]
        BY <1>1, <2>2 DEF CallTypes, M!Idle, Of
      <3>2. \A u \in Of(r) : call[u].state = "waiting" => call'[u] = call[u]
        BY <1>1, <2>2 DEF CallTypes, Of
      <3> HIDE DEF r
      <3>3. FutureInv(r)'
        BY <1>2, <2>2, <3>1 DEF FutureInv, Of, M!Threads
      <3>4. StartInv(r)'
        BY <1>1, <1>2, <2>2 DEF StartInv, Link, Active
      <3>5. \A u \in Of(r) : \A k : (Asks(u, k) => Asks(u, k)') /\ (Waits(u, k) => Waits(u, k)')
        BY <3>2 DEF Asks, Waits
      <3>6. Answered(r)' = Answered(r) /\ requests'[r] = requests[r] /\ Of(r)' = Of(r)
        BY <1>2, <2>1 DEF Answered, Of, M!Threads
      <3>7. FlowInv(r)'
        BY <1>2, <3>5, <3>6 DEF FlowInv
      <3> QED
        BY <3>3, <3>4, <3>7 DEF Link
    <2> QED
      BY <2>3, <2>4, <2>5 DEF CallInv
  <1>4. CASE conn[r] # "closed"
    <2>1. /\ requests' = [requests EXCEPT ![r] = Append(@, m)]
          /\ call' = [call EXCEPT ![t].state = "waiting"]
          /\ UNCHANGED <<mode, calls>>
      BY <1>4, <1>m DEF M!Send
    <2>2. m \in Message /\ m.op # "init" /\ m.id = call[t].id /\ m.op = call[t].op
          /\ m.thread = call[t].task
      BY <1>1, <1>m DEF Under, Message, Ops
    <2>3. /\ call'[t] = [state |-> "waiting", op |-> call[t].op, id |-> call[t].id,
                         task |-> call[t].task]
          /\ call'[t] \in Under
          /\ \A u \in M!Threads : u # t => call'[u] = call[u]
      BY <1>1, <2>1 DEF CallTypes, Under
    <2>4. \A u \in Of(r) : call[u].state = "waiting" => u # t /\ call[u].id # call[t].id
      BY <1>1, <1>2, OneCall
    <2>5. \A k \in Answered(r) : k # call[t].id
      BY <1>2, <2>4 DEF FlowInv, Waits
    <2>6. m \notin Elems(requests[r])
      <3>1. SUFFICES ASSUME m \in Elems(requests[r]) PROVE FALSE
        OBVIOUS
      <3>2. PICK u \in Of(r) : Asks(u, m)
        BY <1>2, <2>2, <3>1 DEF FlowInv
      <3>3. call[u].state = "waiting" /\ call[u].id = call[t].id
        BY <2>2, <3>2 DEF Asks
      <3> QED
        BY <2>4, <3>3
    <2>7. /\ Append(requests[r], m) \in Seq(Message)
          /\ Elems(Append(requests[r], m)) = Elems(requests[r]) \cup {m}
          /\ Once(Append(requests[r], m))
      BY <1>1, <1>2, <2>2, <2>6, Appended DEF CallTypes, FlowInv
    <2>8. CallTypes'
      <3>1. requests' \in [Runtimes -> Seq(Message)]
        <4> HIDE DEF r
        <4> QED
          BY <1>1, <2>1, <2>7 DEF CallTypes
      <3>2. call' \in [M!Threads -> {M!Idle} \cup Under]
        BY <1>1, <2>1, <2>3 DEF CallTypes
      <3> QED
        BY <1>1, <1>2, <2>1, <3>1, <3>2 DEF CallTypes
    <2>9. ASSUME NEW q \in Runtimes, q # r PROVE Link(q)'
      <3>1. \A u \in Of(q) : call'[u] = call[u]
        BY <1>1, <2>3, <2>9, ThreadsOf
      <3>2. requests'[q] = requests[q]
        <4> HIDE DEF r
        <4> QED
          BY <1>1, <2>1, <2>9 DEF CallTypes
      <3> HIDE DEF r
      <3> QED
        BY <1>1, <1>2, <2>1, <2>9, <3>1, <3>2, Kept DEF CallInv
    <2>10. Link(r)'
      <3>1. requests'[r] = Append(requests[r], m)
        <4> HIDE DEF r
        <4> QED
          BY <1>1, <2>1 DEF CallTypes
      <3>2. FutureInv(r)'
        BY <1>1, <1>2, <2>1, <2>3 DEF FutureInv, Of, M!Threads
      <3>3. StartInv(r)'
        <4> HIDE DEF r
        <4> QED
          BY <1>1, <1>2, <2>1 DEF StartInv, Link, Active
      <3>4. \A u \in Of(r) : \A k : (Asks(u, k) => Asks(u, k)') /\ (Waits(u, k) => Waits(u, k)')
        BY <2>3, <2>4, ThreadsOf DEF Asks, Waits
      <3>5. Asks(t, m)'
        BY <2>2, <2>3 DEF Asks
      <3>6. Answered(r)' = Answered(r) /\ Of(r)' = Of(r)
        BY <1>2 DEF Answered, Of, M!Threads
      <3>7. FlowInv(r)'
        <4>1. Elems(requests'[r]) = Elems(requests[r]) \cup {m} /\ Once(requests'[r])
          BY <2>7, <3>1
        <4>2. ASSUME NEW k \in Elems(requests'[r]), k.op # "init"
              PROVE  k.id \notin Answered(r) /\ \E u \in Of(r) : Asks(u, k)'
          <5>1. m.id \notin Answered(r) /\ Asks(t, m)' /\ t \in Of(r)
            BY <1>1, <2>2, <2>5, <3>5
          <5> HIDE DEF r
          <5>2. CASE k = m
            BY <5>1, <5>2
          <5>3. CASE k \in Elems(requests[r])
            <6>1. k.id \notin Answered(r) /\ \E u \in Of(r) : Asks(u, k)
              BY <1>2, <4>2, <5>3 DEF FlowInv
            <6> QED
              BY <3>4, <6>1
          <5> QED
            BY <4>1, <4>2, <5>2, <5>3
        <4> HIDE DEF r
        <4> QED
          BY <1>2, <3>4, <3>6, <4>1, <4>2 DEF FlowInv
      <3> QED
        BY <3>2, <3>3, <3>7 DEF Link
    <2> QED
      BY <2>8, <2>9, <2>10 DEF CallInv
  <1> QED
    BY <1>3, <1>4

\* The reader that hands out an answer keeps the invariant of the calls.
LEMMA HandlePacketCall ==
    ASSUME CallInv, NEW r \in Runtimes, M!HandlePacket(r)
    PROVE  CallInv'
  <1> DEFINE id == Head(answers[r])
             found == {e \in pending[r] : e.id = id}
  <1>1. /\ CallTypes /\ Link(r) /\ mode[r] \in Active /\ FutureInv(r) /\ FlowInv(r)
        /\ answers[r] # <<>>
        /\ UNCHANGED <<requests, output, seq>>
    BY DEF CallInv, M!HandlePacket, Link, Active, M!daemonVars
  <1>2. /\ Tail(answers[r]) \in Seq(Nat) /\ id \in Elems(answers[r]) /\ id \in Nat
        /\ Once(Tail(answers[r]))
        /\ Elems(Tail(answers[r])) = Elems(answers[r]) \ {id}
    BY <1>1, Removed DEF CallTypes, FlowInv
  <1>3. PICK t \in Of(r) : Waits(t, id)
    BY <1>1, <1>2 DEF FlowInv, Answered
  <1>4. t \in M!Threads /\ t[1] = r /\ call[t].state = "waiting" /\ call[t].id = id
    BY <1>3 DEF Waits, Of
  <1> DEFINE e0 == [id |-> id, thread |-> t]
  <1>5. e0 \in pending[r] /\ e0.thread = t
    BY <1>1, <1>3, <1>4 DEF FutureInv
  <1>6. found = {e0}
    BY <1>1, <1>5 DEF FutureInv
  <1>7. /\ answers' = [answers EXCEPT ![r] = Tail(@)]
        /\ pending' = [pending EXCEPT ![r] = @ \ {e0}]
        /\ M!Returned(t)
        /\ told' = [told EXCEPT ![call[t].task] = @ \/ call[t].op = "place"]
    <2> HIDE DEF e0
    <2> QED
      BY <1>5, <1>6 DEF M!HandlePacket
  <1>8. /\ call' = [call EXCEPT ![t] = M!Idle]
        /\ mode' \in [Runtimes -> Modes] /\ calls' \in [Runtimes -> Nat]
        /\ \A q \in Runtimes : q # r => mode'[q] = mode[q] /\ calls'[q] = calls[q]
        /\ mode'[r] \in Active
        /\ mode'[r] = "opening" => calls'[r] \in 0..2
    BY <1>1, <1>4, <1>7, ReturnedStart
  <1>9. CallTypes'
    <2>1. told' \in [M!Threads -> BOOLEAN]
      <3>1. told[call[t].task] \in BOOLEAN \/ call[t].task \notin M!Threads
        BY <1>1 DEF CallTypes
      <3> QED
        BY <1>1, <1>7, <3>1 DEF CallTypes
    <2>2. pending' \in [Runtimes -> SUBSET [id : Nat, thread : M!Threads]]
      <3> HIDE DEF e0
      <3> QED
        BY <1>1, <1>7 DEF CallTypes
    <2>3. answers' \in [Runtimes -> Seq(Nat)]
      BY <1>1, <1>2, <1>7 DEF CallTypes
    <2>4. call' \in [M!Threads -> {M!Idle} \cup Under]
      BY <1>1, <1>8 DEF CallTypes
    <2> QED
      BY <1>1, <1>8, <2>1, <2>2, <2>3, <2>4 DEF CallTypes
  <1> HIDE DEF id, found, e0
  <1>10. ASSUME NEW q \in Runtimes, q # r PROVE Link(q)'
    <2>1. \A u \in Of(q) : call'[u] = call[u]
      BY <1>1, <1>4, <1>8, <1>10, ThreadsOf DEF CallTypes
    <2>2. answers'[q] = answers[q] /\ pending'[q] = pending[q]
      BY <1>1, <1>7, <1>10 DEF CallTypes
    <2> QED
      BY <1>1, <1>8, <1>10, <2>1, <2>2, Kept DEF CallInv
  <1>11. Link(r)'
    <2>1. /\ pending'[r] = pending[r] \ {e0}
          /\ answers'[r] = Tail(answers[r])
      BY <1>1, <1>7 DEF CallTypes
    <2>2. \A u \in Of(r) : u # t => call'[u] = call[u]
      BY <1>1, <1>8 DEF CallTypes, Of
    <2>3. call'[t].state = "idle"
      BY <1>1, <1>4, <1>8 DEF CallTypes, M!Idle
    <2>4. FutureInv(r)'
      <3>1. \A u \in Of(r) : u # t => [id |-> call[u].id, thread |-> u] # e0
        BY DEF e0
      <3> QED
        BY <1>1, <1>8, <2>1, <2>2, <2>3, <3>1 DEF FutureInv, Of, M!Threads
    <2>5. StartInv(r)'
      BY <1>1, <1>8 DEF StartInv, Link, Active
    <2>6. \A u \in Of(r), k \in Nat : k # id /\ Waits(u, k) => Waits(u, k)'
      BY <1>4, <2>2 DEF Waits
    <2>7. Answered(r)' = Answered(r) \ {id} /\ Of(r)' = Of(r)
      BY <1>1, <1>2, <2>1 DEF Answered, Of, M!Threads, FlowInv
    <2>8. Answered(r) \subseteq Nat
      BY <1>1 DEF Answered, Elems, CallTypes
    <2>9. ASSUME NEW k \in Elems(requests[r]), k.op # "init"
          PROVE  k.id \notin Answered(r)' /\ \E u \in Of(r) : Asks(u, k)'
      <3>1. k.id \notin Answered(r) /\ id \in Answered(r)
        BY <1>1, <1>2, <2>9 DEF FlowInv, Answered
      <3>2. PICK u \in Of(r) : Asks(u, k)
        BY <1>1, <2>9 DEF FlowInv
      <3>3. u # t
        BY <1>4, <3>1, <3>2 DEF Asks
      <3>4. Asks(u, k)'
        BY <2>2, <3>2, <3>3 DEF Asks
      <3> QED
        BY <2>7, <3>1, <3>4
    <2>10. ASSUME NEW k \in Answered(r)' PROVE \E u \in Of(r) : Waits(u, k)'
      <3>1. k \in Answered(r) /\ k # id /\ k \in Nat
        BY <2>7, <2>8, <2>10
      <3>2. PICK u \in Of(r) : Waits(u, k)
        BY <1>1, <3>1 DEF FlowInv
      <3> QED
        BY <2>6, <3>1, <3>2
    <2>11. FlowInv(r)'
      <3>1. /\ Once(requests'[r]) /\ Once(output'[r]) /\ Once(answers'[r])
            /\ Elems(output'[r]) \cap Elems(answers'[r]) = {}
        BY <1>1, <1>2, <2>1 DEF FlowInv
      <3> QED
        BY <1>1, <2>7, <2>9, <2>10, <3>1 DEF FlowInv
    <2> QED
      BY <2>4, <2>5, <2>11 DEF Link
  <1> QED
    BY <1>9, <1>10, <1>11 DEF CallInv

\* The end of a process keeps the invariant of the calls.
LEMMA ProcessEndsCall ==
    ASSUME CallInv, NEW r \in Runtimes, M!ProcessEnds(r)
    PROVE  CallInv'
  <1>1. /\ CallTypes
        /\ mode' = [mode EXCEPT ![r] = "ended"]
        /\ call' = [t \in M!Threads |-> IF t[1] = r THEN M!Idle ELSE call[t]]
        /\ told' = [t \in M!Threads |-> told[t] /\ t[1] # r]
        /\ pending' = [pending EXCEPT ![r] = {}]
        /\ answers' = [answers EXCEPT ![r] = <<>>]
        /\ UNCHANGED <<requests, output, seq, calls>>
    BY DEF CallInv, M!ProcessEnds, M!daemonVars
  <1>2. CallTypes'
    <2>1. answers' \in [Runtimes -> Seq(Nat)]
      BY <1>1, Empty DEF CallTypes
    <2>2. call' \in [M!Threads -> {M!Idle} \cup Under]
      BY <1>1 DEF CallTypes
    <2>3. told' \in [M!Threads -> BOOLEAN]
      BY <1>1, Zenon DEF CallTypes
    <2> QED
      BY <1>1, <2>1, <2>2, <2>3 DEF CallTypes, Modes
  <1>3. ASSUME NEW q \in Runtimes, q # r PROVE Link(q)'
    <2>1. \A u \in Of(q) : call'[u] = call[u]
      BY <1>1, <1>3 DEF Of
    <2> QED
      BY <1>1, <1>3, <2>1, Kept DEF CallInv, CallTypes
  <1>4. Link(r)'
    <2>1. \A u \in Of(r) : call'[u].state = "idle"
      BY <1>1 DEF Of, M!Idle
    <2> QED
      BY <1>1, <2>1, Ended DEF CallTypes
  <1> QED
    BY <1>2, <1>3, <1>4 DEF CallInv

\* A request that the daemon handles, or dies of, keeps the invariant of the calls.
LEMMA HandleInputCall ==
    ASSUME CallInv, NEW r \in Runtimes, M!HandleInput(r)
    PROVE  CallInv'
  <1> DEFINE m == Head(requests[r])
  <1>1. /\ CallTypes /\ Link(r) /\ requests[r] # <<>>
        /\ UNCHANGED <<answers, mode, seq, pending, call, told, calls>>
    BY DEF CallInv, M!HandleInput, M!clientVars
  <1>2. /\ Tail(requests[r]) \in Seq(Message) /\ m \in Elems(requests[r]) /\ m \in Message
        /\ Elems(Tail(requests[r])) \subseteq Elems(requests[r])
        /\ Once(requests[r]) => /\ Once(Tail(requests[r]))
                                /\ Elems(Tail(requests[r])) = Elems(requests[r]) \ {m}
    BY <1>1, Removed DEF CallTypes
  <1>3. /\ Append(output[r], m.id) \in Seq(Nat)
        /\ Elems(Append(output[r], m.id)) = Elems(output[r]) \cup {m.id}
        /\ Once(output[r]) /\ m.id \notin Elems(output[r]) => Once(Append(output[r], m.id))
    <2>1. m.id \in Nat /\ output[r] \in Seq(Nat)
      BY <1>1, <1>2 DEF Message, CallTypes
    <2> HIDE DEF m
    <2> QED
      BY <2>1, Appended
  <1>4. \/ /\ requests' = [requests EXCEPT ![r] = Tail(@)]
           /\ UNCHANGED output
        \/ /\ m.op # "init"
           /\ requests' = [requests EXCEPT ![r] = Tail(@)]
           /\ output' = [output EXCEPT ![r] = Append(@, m.id)]
        \/ /\ requests' = [q \in Runtimes |-> <<>>]
           /\ output' = [q \in Runtimes |-> <<>>]
    BY DEF M!HandleInput, M!HandleInit, M!HandleList, M!HandlePlace, M!HandleReserve, M!Reply, M!DaemonEnds
  <1> HIDE DEF m
  <1>5. CallTypes'
    <2>1. requests' \in [Runtimes -> Seq(Message)] /\ output' \in [Runtimes -> Seq(Nat)]
      <3>1. [q \in Runtimes |-> <<>>] \in [Runtimes -> Seq(Message)]
            /\ [q \in Runtimes |-> <<>>] \in [Runtimes -> Seq(Nat)]
        BY Empty
      <3>2. /\ [requests EXCEPT ![r] = Tail(@)] \in [Runtimes -> Seq(Message)]
            /\ [output EXCEPT ![r] = Append(@, m.id)] \in [Runtimes -> Seq(Nat)]
            /\ output \in [Runtimes -> Seq(Nat)]
        BY <1>1, <1>2, <1>3 DEF CallTypes
      <3> QED
        BY <1>4, <3>1, <3>2
    <2> QED
      BY <1>1, <2>1 DEF CallTypes
  <1>6. ASSUME NEW q \in Runtimes, q # r PROVE Link(q)'
    <2>1. requests'[q] \in {requests[q], <<>>} /\ output'[q] \in {output[q], <<>>}
      BY <1>1, <1>4, <1>6 DEF CallTypes
    <2> QED
      BY <1>1, <1>6, <2>1, Kept DEF CallInv
  <1>7. Link(r)'
    <2>1. CASE requests' = [q \in Runtimes |-> <<>>] /\ output' = [q \in Runtimes |-> <<>>]
      <3>1. requests'[r] = <<>> /\ output'[r] = <<>>
        BY <2>1
      <3> QED
        BY <1>1, <3>1, Kept DEF CallInv
    <2>2. CASE /\ requests' = [requests EXCEPT ![r] = Tail(@)]
               /\ \/ UNCHANGED output
                  \/ m.op # "init" /\ output' = [output EXCEPT ![r] = Append(@, m.id)]
      <3>1. /\ requests'[r] = Tail(requests[r])
            /\ \/ output'[r] = output[r]
               \/ m.op # "init" /\ output'[r] = Append(output[r], m.id)
        BY <1>1, <2>2 DEF CallTypes
      <3>2. FutureInv(r)' /\ StartInv(r)'
        <4>1. mode[r] \notin {"off", "connecting"}
          BY <1>1 DEF Link, StartInv
        <4> QED
          BY <1>1, <4>1 DEF Link, FutureInv, StartInv, Of, M!Threads
      <3>3. ASSUME FlowInv(r) PROVE FlowInv(r)'
        <4>1. /\ Once(requests'[r])
              /\ Elems(requests'[r]) = Elems(requests[r]) \ {m}
          BY <1>2, <3>1, <3>3 DEF FlowInv
        <4>2. CASE output'[r] = output[r]
          BY <1>1, <3>3, <4>1, <4>2 DEF FlowInv, Answered, Of, M!Threads, Asks, Waits
        <4>3. CASE m.op # "init" /\ output'[r] = Append(output[r], m.id)
          <5>1. m.id \notin Answered(r) /\ \E t \in Of(r) : Asks(t, m)
            BY <1>2, <3>3, <4>3 DEF FlowInv
          <5>2. /\ Once(output'[r]) /\ Elems(output'[r]) = Elems(output[r]) \cup {m.id}
                /\ Answered(r)' = Answered(r) \cup {m.id} /\ Of(r)' = Of(r)
            BY <1>1, <1>3, <3>3, <4>3, <5>1 DEF FlowInv, Answered, Of, M!Threads
          <5>3. \E t \in Of(r) : Waits(t, m.id)
            BY <5>1 DEF Asks, Waits
          <5>4. ASSUME NEW k \in Elems(requests'[r]), k.op # "init"
                PROVE  k.id # m.id
            <6>1. SUFFICES ASSUME k.id = m.id PROVE FALSE
              OBVIOUS
            <6>2. PICK t \in Of(r) : Asks(t, m)
              BY <5>1
            <6>3. PICK u \in Of(r) : Asks(u, k)
              BY <3>3, <4>1, <5>4 DEF FlowInv
            <6>4. t = u
              <7>1. /\ call[t].state = "waiting" /\ call[t].id = m.id
                    /\ call[u].state = "waiting" /\ call[u].id = k.id
                BY <6>2, <6>3 DEF Asks
              <7> QED
                BY <1>1, <6>1, <7>1, OneCall DEF Link
            <6>5. k.op = m.op /\ k.thread = m.thread
              BY <6>2, <6>3, <6>4 DEF Asks
            <6>6. k \in Message /\ m \in Message
              BY <1>1, <1>2, <4>1, ElemsIn DEF CallTypes
            <6> QED
              BY <4>1, <6>1, <6>5, <6>6 DEF Message
          <5>5. \A t : \A k : (Asks(t, k) <=> Asks(t, k)') /\ (Waits(t, k) <=> Waits(t, k)')
            BY <1>1 DEF Asks, Waits
          <5> QED
            BY <1>1, <3>3, <4>1, <5>1, <5>2, <5>3, <5>4, <5>5 DEF FlowInv, Answered
        <4> QED
          BY <3>1, <4>2, <4>3
      <3> QED
        BY <1>1, <3>2, <3>3 DEF Link
    <2> QED
      BY <1>4, <2>1, <2>2
  <1> QED
    BY <1>5, <1>6, <1>7 DEF CallInv

\* An answer that the daemon sends keeps the invariant of the calls.
LEMMA HandleOutputCall ==
    ASSUME CallInv, NEW r \in Runtimes, M!HandleOutput(r)
    PROVE  CallInv'
  <1> DEFINE id == Head(output[r])
  <1>1. /\ CallTypes /\ Link(r) /\ output[r] # <<>>
        /\ output' = [output EXCEPT ![r] = Tail(@)]
        /\ answers' = IF mode[r] = "ended" THEN answers
                      ELSE [answers EXCEPT ![r] = Append(@, id)]
        /\ UNCHANGED <<requests, mode, seq, pending, call, told, calls>>
    BY DEF CallInv, M!HandleOutput, M!clientVars
  <1>2. /\ Tail(output[r]) \in Seq(Nat) /\ id \in Elems(output[r]) /\ id \in Nat
        /\ Once(output[r]) => /\ Once(Tail(output[r]))
                              /\ Elems(Tail(output[r])) = Elems(output[r]) \ {id}
    BY <1>1, Removed DEF CallTypes
  <1> HIDE DEF id
  <1>3. /\ Append(answers[r], id) \in Seq(Nat)
        /\ Elems(Append(answers[r], id)) = Elems(answers[r]) \cup {id}
        /\ Once(answers[r]) /\ id \notin Elems(answers[r]) => Once(Append(answers[r], id))
    BY <1>1, <1>2, Appended DEF CallTypes
  <1>4. CallTypes'
    <2>1. output' \in [Runtimes -> Seq(Nat)] /\ answers' \in [Runtimes -> Seq(Nat)]
      BY <1>1, <1>2, <1>3 DEF CallTypes
    <2> QED
      BY <1>1, <2>1 DEF CallTypes
  <1>5. ASSUME NEW q \in Runtimes, q # r PROVE Link(q)'
    <2>1. output'[q] = output[q] /\ answers'[q] = answers[q]
      BY <1>1, <1>5 DEF CallTypes
    <2> QED
      BY <1>1, <1>5, <2>1, Kept DEF CallInv
  <1>6. Link(r)'
    <2>1. FutureInv(r)' /\ StartInv(r)'
      <3>1. mode[r] \notin {"off", "connecting"}
        BY <1>1 DEF Link, StartInv
      <3> QED
        BY <1>1, <3>1 DEF Link, FutureInv, StartInv, Of, M!Threads
    <2>2. ASSUME mode[r] # "ended" PROVE FlowInv(r)'
      <3>1. /\ output'[r] = Tail(output[r]) /\ answers'[r] = Append(answers[r], id)
            /\ FlowInv(r)
        BY <1>1, <2>2 DEF Link, CallTypes
      <3>2. /\ Once(output'[r]) /\ Once(answers'[r])
            /\ Elems(output'[r]) \cap Elems(answers'[r]) = {}
            /\ Answered(r)' = Answered(r) /\ Of(r)' = Of(r)
        BY <1>2, <1>3, <3>1 DEF FlowInv, Answered, Of, M!Threads
      <3> QED
        BY <1>1, <3>1, <3>2 DEF FlowInv, Asks, Waits
    <2> QED
      BY <1>1, <2>1, <2>2 DEF Link
  <1> QED
    BY <1>4, <1>5, <1>6 DEF CallInv

\* Every step keeps the invariant of the calls.
LEMMA CallStep ==
    ASSUME CallInv, [M!Next]_(M!vars)
    PROVE  CallInv'
  <1>1. ASSUME UNCHANGED <<requests, output, answers, M!clientVars>>
        PROVE  CallInv'
    <2>1. CallTypes'
      BY <1>1 DEF CallInv, CallTypes, M!clientVars
    <2>2. \A q \in Runtimes : Link(q)'
      BY <1>1, Kept DEF CallInv, M!clientVars
    <2> QED
      BY <2>1, <2>2 DEF CallInv
  <1>2. ASSUME NEW r \in Runtimes, M!End(r) \/ M!RuntimeError(r) \/ M!SendInitFails(r) PROVE CallInv'
    BY <1>2, ProcessEndsCall DEF M!End, M!RuntimeError, M!SendInitFails
  <1>3. ASSUME NEW r \in Runtimes, M!HandleClose(r) PROVE CallInv'
    <2>1. /\ UNCHANGED <<answers, mode, seq, pending, call, told, calls>>
          /\ CallTypes
      BY <1>3 DEF M!HandleClose, CallInv, M!clientVars
    <2>2. \/ requests' = [q \in Runtimes |-> <<>>] /\ output' = [q \in Runtimes |-> <<>>]
          \/ UNCHANGED requests /\ output' = [output EXCEPT ![r] = <<>>]
      BY <1>3 DEF M!HandleClose, M!DaemonEnds
    <2>3. CallTypes'
      BY <2>1, <2>2, Empty DEF CallTypes
    <2>4. ASSUME NEW q \in Runtimes PROVE Link(q)'
      <3>1. requests'[q] \in {requests[q], <<>>} /\ output'[q] \in {output[q], <<>>}
        BY <2>1, <2>2 DEF CallTypes
      <3> QED
        BY <2>1, <3>1, Kept DEF CallInv
    <2> QED
      BY <2>3, <2>4 DEF CallInv
  <1>4. ASSUME NEW t \in M!Threads, M!Reap(t) PROVE CallInv'
    BY <1>1, <1>4 DEF M!Reap, M!daemonVars
  <1>5. CASE M!Restart
    BY <1>1, <1>5 DEF M!Restart
  <1>6. CASE UNCHANGED M!vars
    BY <1>1, <1>6 DEF M!vars, M!clientVars
  <1> QED
    BY <1>2, <1>3, <1>4, <1>5, <1>6, ConnectCall, SendInitCall, OpenStepCall,
       WorkerCallCall, SendCall, HandlePacketCall, HandleInputCall, HandleOutputCall
    DEF M!Next

\* At the start nobody calls.
LEMMA CallStart == M!Init => CallInv
  <1> SUFFICES ASSUME M!Init PROVE CallInv
    OBVIOUS
  <1>1. CallTypes
    BY Empty DEF M!Init, CallTypes, Modes
  <1>2. ASSUME NEW r \in Runtimes PROVE Link(r)
    <2>1. /\ mode[r] = "off" /\ requests[r] = <<>> /\ output[r] = <<>> /\ answers[r] = <<>>
          /\ pending[r] = {} /\ calls[r] = 0 /\ \A t \in Of(r) : call[t].state = "idle"
      BY DEF M!Init, Of, M!Idle
    <2> QED
      BY <2>1, Empty DEF Link, FutureInv, StartInv, FlowInv, Answered, Active
  <1> QED
    BY <1>1, <1>2 DEF CallInv

\* CallInv is an invariant of the specification.
LEMMA CallInvariant == M!Spec => []CallInv
  BY CallStart, CallStep, PTL DEF M!Spec

\* The invariant says that an answer finds its caller.
LEMMA CallersFound == CallInv => AnswersFindTheirCaller
  <1> SUFFICES ASSUME CallInv, NEW r \in Runtimes, mode[r] \in {"opening", "running"},
                      NEW id \in M!UnderWay(r)
               PROVE  \E e \in pending[r] :
                        /\ e.id = id /\ \A f \in pending[r] : f.id = id => f = e
                        /\ call[e.thread].state = "waiting" /\ call[e.thread].id = id
    BY DEF AnswersFindTheirCaller, M!AnswersFindTheirCaller
  <1>1. FutureInv(r) /\ FlowInv(r)
    BY DEF CallInv, Link
  <1>2. \E t \in Of(r) : Waits(t, id)
    <2>1. id \in Answered(r) \/ \E k \in Elems(requests[r]) : k.op # "init" /\ k.id = id
      BY DEF M!UnderWay, Answered, Elems
    <2>2. ASSUME NEW k \in Elems(requests[r]), k.op # "init", k.id = id
          PROVE  \E t \in Of(r) : Waits(t, id)
      <3>1. PICK t \in Of(r) : Asks(t, k)
        BY <1>1, <2>2 DEF FlowInv
      <3> QED
        BY <2>2, <3>1 DEF Asks, Waits
    <2> QED
      BY <1>1, <2>1, <2>2 DEF FlowInv
  <1>3. PICK t \in Of(r) : Waits(t, id)
    BY <1>2
  <1> DEFINE e0 == [id |-> id, thread |-> t]
  <1>4. e0 \in pending[r] /\ e0.id = id /\ e0.thread = t
    BY <1>1, <1>3 DEF FutureInv, Waits
  <1> HIDE DEF e0
  <1>5. \A f \in pending[r] : f.id = id => f = e0
    BY <1>1, <1>4 DEF FutureInv
  <1> QED
    BY <1>3, <1>4, <1>5 DEF Waits

\* For any runtimes, threads and calls, in both builds, whoever crashes: what is
\* on its way or answered finds one future under its identifier, and the thread
\* it belongs to still waits (MedusaClientHandler::handlePacket).
THEOREM AnswersFound == M!Spec => []AnswersFindTheirCaller
  <1>1. CallInv => AnswersFindTheirCaller
    BY CallersFound
  <1> QED
    BY <1>1, CallInvariant, PTL

-----------------------------------------------------------------------------
(* The connections                                                         *)

\* The connections: a closed one carries nothing, and none is open without the
\* daemon.
ConnInv ==
    /\ daemon \in {"up", "down"}
    /\ conn \in [Runtimes -> {"none", "accepted", "known", "closed"}]
    /\ \A r \in Runtimes :
          /\ conn[r] \in {"none", "closed"} => requests[r] = <<>>
          /\ mode[r] = "off" => conn[r] = "none"
          /\ mode[r] \in {"connecting"} \cup Active => conn[r] # "none"
          /\ daemon = "down" => conn[r] \in {"none", "closed"}

\* What is the same in both builds.
Base == CallInv /\ ConnInv

\* The end of the daemon closes every connection.
LEMMA DaemonEndsConn ==
    ASSUME Base, M!DaemonEnds, UNCHANGED mode
    PROVE  ConnInv'
  <1>1. \A q \in Runtimes : /\ conn'[q] \in {"none", "closed"} /\ requests'[q] = <<>>
                            /\ conn'[q] = "none" <=> conn[q] = "none"
    BY DEF M!DaemonEnds, Base, ConnInv
  <1>2. conn' \in [Runtimes -> {"none", "accepted", "known", "closed"}] /\ daemon' = "down"
    BY DEF M!DaemonEnds
  <1> QED
    BY <1>1, <1>2 DEF Base, ConnInv

\* A step that leaves the daemon and the connections alone.
LEMMA ConnKept ==
    ASSUME Base, UNCHANGED <<daemon, conn>>,
           \A q \in Runtimes : /\ requests'[q] = <<>> \/ requests'[q] = requests[q]
                                  \/ conn[q] \notin {"none", "closed"}
                               /\ \/ mode'[q] = mode[q]
                                  \/ mode[q] \in {"connecting"} \cup Active /\ mode'[q] \in Modes \ {"off"}
                                  \/ mode'[q] = "ended"
    PROVE  ConnInv'
  BY DEF Base, ConnInv, Active, Modes

\* Every step keeps the invariant of the connections.
LEMMA ConnStep ==
    ASSUME Base, [M!Next]_(M!vars)
    PROVE  ConnInv'
  <1>0. CallTypes /\ ConnInv
    BY DEF Base, CallInv
  <1>1. ASSUME NEW r \in Runtimes, M!Connect(r) PROVE ConnInv'
    <2>1. /\ mode[r] = "off" /\ daemon = "up"
          /\ mode' = [mode EXCEPT ![r] = "connecting"]
          /\ conn' = [conn EXCEPT ![r] = "accepted"]
          /\ UNCHANGED <<daemon, requests>>
      BY <1>1 DEF M!Connect
    <2> QED
      BY <1>0, <2>1 DEF ConnInv, CallTypes, Active
  <1>2. ASSUME NEW r \in Runtimes, M!ConnectFails(r) PROVE ConnInv'
    BY <1>0, <1>2, ConnKept DEF M!ConnectFails, M!daemonVars, CallTypes
  <1>3. ASSUME NEW r \in Runtimes, M!SendInit(r) PROVE ConnInv'
    <2>1. /\ mode[r] = "connecting" /\ mode' = [mode EXCEPT ![r] = "opening"]
          /\ UNCHANGED <<daemon, conn>>
          /\ \A q \in Runtimes : requests'[q] = requests[q] \/ (q = r /\ conn[r] # "closed")
      BY <1>0, <1>3 DEF M!SendInit, CallTypes
    <2>2. conn[r] # "none"
      BY <1>0, <2>1 DEF ConnInv
    <2> QED
      BY <1>0, <2>1, <2>2, ConnKept DEF CallTypes, Active, Modes
  <1>4. ASSUME NEW r \in Runtimes, M!OpenStep(r) PROVE ConnInv'
    BY <1>4, ConnKept DEF M!OpenStep, M!daemonVars
  <1>5. ASSUME NEW t \in M!Threads, M!WorkerCall(t) \/ M!Reap(t) PROVE ConnInv'
    BY <1>5, ConnKept DEF M!WorkerCall, M!Reap, M!daemonVars, M!clientVars
  <1>6. ASSUME NEW t \in M!Threads, M!Send(t) PROVE ConnInv'
    <2>1. t[1] \in Runtimes /\ t \in Of(t[1]) /\ Link(t[1])
      BY ThreadsOf DEF Base, CallInv
    <2>2. mode[t[1]] \in Active /\ UNCHANGED <<daemon, conn>>
      BY <1>6, <2>1 DEF M!Send, Link, FutureInv
    <2>3. conn[t[1]] # "none"
      BY <1>0, <2>1, <2>2 DEF ConnInv
    <2>4. CASE conn[t[1]] = "closed"
      <3>1. UNCHANGED requests /\ M!Returned(t)
        BY <1>6, <2>4 DEF M!Send
      <3> QED
        BY <2>1, <2>2, <3>1, ReturnedStart, ConnKept DEF Base, Active, Modes
    <2>5. CASE conn[t[1]] # "closed"
      <3>1. \A q \in Runtimes : requests'[q] = requests[q] \/ q = t[1]
        BY <1>0, <1>6, <2>5 DEF M!Send, CallTypes
      <3>2. UNCHANGED mode
        BY <1>6, <2>5 DEF M!Send
      <3> QED
        BY <1>0, <2>1, <2>2, <2>3, <2>5, <3>1, <3>2, ConnKept
    <2> QED
      BY <2>4, <2>5
  <1>7. ASSUME NEW r \in Runtimes, M!HandlePacket(r) PROVE ConnInv'
    <2>1. UNCHANGED <<daemon, conn, requests>> /\ mode[r] \in Active
      BY <1>7 DEF M!HandlePacket, M!daemonVars, Active
    <2>2. \A e \in pending[r] : e.thread \in M!Threads /\ e.thread[1] = r
      BY <1>0 DEF Base, CallInv, CallTypes, Link, FutureInv
    <2>3. UNCHANGED mode \/ \E e \in pending[r] : M!Returned(e.thread)
      BY <1>7 DEF M!HandlePacket
    <2>4. CASE UNCHANGED mode
      BY <2>1, <2>4, ConnKept
    <2>5. ASSUME NEW e \in pending[r], M!Returned(e.thread) PROVE ConnInv'
      BY <2>1, <2>2, <2>5, ReturnedStart, ConnKept DEF Base, Active, Modes
    <2> QED
      BY <2>3, <2>4, <2>5
  <1>8. ASSUME NEW r \in Runtimes, M!End(r) \/ M!RuntimeError(r) \/ M!SendInitFails(r) PROVE ConnInv'
    BY <1>0, <1>8, ConnKept DEF M!End, M!RuntimeError, M!SendInitFails, M!ProcessEnds, M!daemonVars, CallTypes
  <1>9. ASSUME NEW r \in Runtimes, M!HandleInput(r) PROVE ConnInv'
    <2>1. /\ daemon = "up" /\ requests[r] # <<>> /\ UNCHANGED mode
          /\ conn[r] \notin {"none", "closed"}
      BY <1>0, <1>9 DEF M!HandleInput, M!clientVars, ConnInv
    <2>2. CASE M!DaemonEnds
      BY <2>1, <2>2, DaemonEndsConn
    <2>3. CASE /\ requests' = [requests EXCEPT ![r] = Tail(@)] /\ UNCHANGED daemon
               /\ UNCHANGED conn \/ conn' = [conn EXCEPT ![r] = "known"]
      BY <1>0, <2>1, <2>3 DEF ConnInv, CallTypes
    <2> QED
      BY <1>9, <2>2, <2>3
      DEF M!HandleInput, M!HandleInit, M!HandleList, M!HandlePlace, M!HandleReserve, M!Reply
  <1>10. ASSUME NEW r \in Runtimes, M!HandleOutput(r) PROVE ConnInv'
    BY <1>10, ConnKept DEF M!HandleOutput, M!clientVars
  <1>11. ASSUME NEW r \in Runtimes, M!HandleClose(r) PROVE ConnInv'
    <2>1. /\ mode[r] = "ended" /\ requests[r] = <<>> /\ UNCHANGED mode
      BY <1>11 DEF M!HandleClose, M!clientVars
    <2>2. CASE M!DaemonEnds
      BY <2>1, <2>2, DaemonEndsConn
    <2>3. CASE conn' = [conn EXCEPT ![r] = "closed"] /\ UNCHANGED <<daemon, requests>>
      BY <1>0, <2>1, <2>3 DEF ConnInv, Active
    <2> QED
      BY <1>11, <2>2, <2>3 DEF M!HandleClose
  <1>12. CASE M!Restart
    <2>1. /\ UNCHANGED <<conn, requests, mode>> /\ daemon = "down" /\ daemon' \in {"up", "down"}
      BY <1>12 DEF M!Restart, M!clientVars
    <2> QED
      BY <1>0, <2>1 DEF ConnInv
  <1>13. CASE UNCHANGED M!vars
    BY <1>13, ConnKept DEF M!vars
  <1> QED
    BY <1>1, <1>2, <1>3, <1>4, <1>5, <1>6, <1>7, <1>8, <1>9, <1>10, <1>11, <1>12, <1>13
    DEF M!Next

\* Base is inductive.
LEMMA BaseStep == Base /\ [M!Next]_(M!vars) => Base'
  BY CallStep, ConnStep DEF Base

\* Base holds at the start.
LEMMA BaseStart == M!Init => Base
  BY CallStart DEF Base, M!Init, ConnInv, Active

-----------------------------------------------------------------------------
(* Removing directories                                                    *)

\* The record that CPUCgroup's operations work on.
State(D, A, c) == [dirs |-> D, at |-> A, cwd |-> c, ok |-> TRUE]

\* The tasks below base are migrated to the root and the tree is removed.
Cleared(s, base, stuck) == M!RemoveTree(M!MigrateTasks(s, M!Listed(s, base), stuck), base)

\* What is left of the directories D and the tasks A below base.
Left(D, A, c, base, d) ==
    /\ d = [dirs |-> d.dirs, at |-> d.at, cwd |-> c, ok |-> d.ok]
    /\ d.ok \in BOOLEAN
    /\ d.at \in [M!Threads -> D \cup {M!Root, M!Nowhere}]
    /\ \A t \in M!Threads : d.at[t] \in {A[t], M!Root} /\ (A[t] = M!Nowhere => d.at[t] = M!Nowhere)
    /\ d.ok => /\ d.dirs = {x \in D : ~M!Below(x, base)}
               /\ \A t \in M!Threads : d.at[t] \notin {x \in D : M!Below(x, base)}
    /\ ~d.ok => d.dirs = D
    /\ (\A t \in M!Threads : A[t] # base /\ (A[t] \in D => ~M!Below(A[t], base)))
       => d.ok /\ d.at = A

\* What migrateTasks and removeTree leave: directories and tasks below base are
\* gone, or a directory was busy and nothing is removed.
LEMMA TreeRemoved ==
    ASSUME NEW D, NEW A \in [M!Threads -> D \cup {M!Root, M!Nowhere}], NEW c, NEW base, NEW stuck,
           M!Nowhere \notin D, base # M!Nowhere
    PROVE  Left(D, A, c, base, Cleared(State(D, A, c), base, stuck))
  <1>s. PICK s : s = State(D, A, c)
    OBVIOUS
  <1>t. s = [dirs |-> D, at |-> A, cwd |-> c, ok |-> TRUE]
    BY <1>s DEF State
  <1>d. PICK d : d = M!RemoveTree(M!MigrateTasks(s, M!Listed(s, base), stuck), base)
    OBVIOUS
  <1>e. SUFFICES Left(D, A, c, base, d)
    BY <1>s, <1>d DEF Cleared
  <1> USE <1>t, <1>d
  <1> DEFINE tasks == M!Listed(s, base)
             kept == IF tasks \cap M!Dying = {} THEN {} ELSE M!Dying \cup stuck
             B == [t \in M!Threads |-> IF t \in tasks \ kept THEN M!Root ELSE A[t]]
             m == M!MigrateTasks(s, tasks, stuck)
             tree == {x \in D : M!Below(x, base)}
             busy == {x \in tree : \E t \in M!Threads : B[t] = x}
  <1>1. m = [dirs |-> D, at |-> B, cwd |-> c, ok |-> TRUE]
    <2>1. m = [s EXCEPT !.at = [t \in M!Threads |-> IF t \in tasks \ kept THEN M!Root ELSE s.at[t]]]
      <3> HIDE DEF tasks
      <3> QED
        BY Zenon DEF M!MigrateTasks
    <2>2. s.at = A /\ B = [t \in M!Threads |-> IF t \in tasks \ kept THEN M!Root ELSE s.at[t]]
      <3>1. s.at = A
        OBVIOUS
      <3> HIDE DEF tasks, kept
      <3> QED
        BY <3>1, Zenon
    <2> HIDE DEF m, B, tasks, kept
    <2>3. m = [s EXCEPT !.at = B]
      BY <2>1, <2>2
    <2> QED
      BY <2>3
  <1>2. tasks = {t \in M!Threads : A[t] = base \/ (A[t] \in D /\ M!Below(A[t], base))}
    BY DEF M!Listed
  <1>3. /\ B \in [M!Threads -> D \cup {M!Root, M!Nowhere}]
        /\ \A t \in M!Threads : B[t] \in {A[t], M!Root} /\ (A[t] = M!Nowhere => B[t] = M!Nowhere)
    <2> HIDE DEF tasks, kept
    <2> QED
      BY <1>2
  <1>4. d = IF busy = {} THEN [m EXCEPT !.dirs = @ \ tree] ELSE [m EXCEPT !.ok = FALSE]
    <2>1. tree = {x \in m.dirs : M!Below(x, base)}
      BY <1>1
    <2>2. busy = {x \in tree : \E t \in M!Threads : m.at[t] = x}
      <3> HIDE DEF m, B
      <3>1. m.at = B
        BY <1>1
      <3> QED
        BY <3>1
    <2> HIDE DEF tree, busy, m
    <2> QED
      BY <2>1, <2>2 DEF M!RemoveTree, m
  <1> HIDE DEF B, m, tasks
  <1>5. CASE busy = {}
    <2>1. d = [dirs |-> D \ tree, at |-> B, cwd |-> c, ok |-> TRUE]
      BY <1>1, <1>4, <1>5
    <2>2. \A t \in M!Threads : B[t] \notin tree
      BY <1>5
    <2>3. (\A t \in M!Threads : A[t] # base /\ (A[t] \in D => ~M!Below(A[t], base))) => B = A
      BY <1>2 DEF B
    <2>4. d.ok /\ d.ok \in BOOLEAN /\ d.at = B /\ d.dirs = D \ tree
      <3> HIDE DEF tree, busy, kept
      <3>1. ASSUME NEW e, NEW X, e = [dirs |-> X, at |-> B, cwd |-> c, ok |-> TRUE]
            PROVE  e.ok /\ e.ok \in BOOLEAN /\ e.at = B /\ e.dirs = X
        BY <3>1
      <3> QED
        BY <2>1, <3>1
    <2>5. /\ d.dirs = {x \in D : ~M!Below(x, base)} /\ d = [dirs |-> d.dirs, at |-> d.at, cwd |-> c, ok |-> d.ok]
      BY <2>1, <2>4
    <2> HIDE DEF tree, busy
    <2>6. \A t \in M!Threads : d.at[t] \notin {x \in D : M!Below(x, base)}
      BY <2>2, <2>4 DEF tree
    <2> QED
      BY <1>3, <2>3, <2>4, <2>5, <2>6 DEF Left
  <1>6. CASE busy # {}
    <2>1. d = [dirs |-> D, at |-> B, cwd |-> c, ok |-> FALSE]
      BY <1>1, <1>4, <1>6
    <2>2. ~ \A t \in M!Threads : A[t] # base /\ (A[t] \in D => ~M!Below(A[t], base))
      <3>1. SUFFICES ASSUME \A t \in M!Threads : A[t] # base /\ (A[t] \in D => ~M!Below(A[t], base))
                     PROVE  FALSE
        OBVIOUS
      <3>2. B = A
        BY <1>2, <3>1 DEF B
      <3> QED
        BY <1>6, <3>1, <3>2
    <2>3. d.ok = FALSE /\ d.at = B /\ d.dirs = D
      BY <2>1
    <2>4. d = [dirs |-> d.dirs, at |-> d.at, cwd |-> c, ok |-> d.ok]
      BY <2>1, <2>3
    <2> HIDE DEF tree, busy
    <2> QED
      BY <1>3, <2>2, <2>3, <2>4 DEF Left
  <1> QED
    BY <1>5, <1>6

\* Some of D is gone or, without an exception, all of it.
Emptied(D, d) ==
    /\ d.cwd = M!Root /\ d.ok \in BOOLEAN
    /\ d.dirs \subseteq D
    /\ d.at \in [M!Threads -> d.dirs \cup {M!Root, M!Nowhere}]
    /\ d.ok => d.dirs = {} /\ d = State({}, d.at, M!Root)

\* A directory that does not exist: all below the working directory goes, and
\* that is the root.
LEMMA RootEmptied ==
    ASSUME NEW D, NEW A \in [M!Threads -> D \cup {M!Root, M!Nowhere}], NEW stuck,
           M!Nowhere \notin D, NEW dir, dir \notin D
    PROVE  Emptied(D, M!RemoveSubDomain(State(D, A, M!Root), dir, stuck))
  <1>1. M!Root # M!Nowhere
    BY DEF M!Root, M!Nowhere
  <1>2. State(D, A, M!Root).dirs = D /\ State(D, A, M!Root).cwd = M!Root
    BY DEF State
  <1>3. PICK done : done = Cleared(State(D, A, M!Root), M!Root, stuck)
    OBVIOUS
  <1>4. Left(D, A, M!Root, M!Root, done)
    BY <1>1, <1>3, TreeRemoved
  <1>5. done.dirs \subseteq D /\ (done.ok => done.dirs = {} /\ \A t \in M!Threads : done.at[t] \notin D)
    BY <1>4 DEF M!Below, Left
  <1>6. PICK d : d = M!RemoveSubDomain(State(D, A, M!Root), dir, stuck)
    OBVIOUS
  <1>7. d = [done EXCEPT !.cwd = M!Root]
    <2>1. (IF dir \in State(D, A, M!Root).dirs THEN dir ELSE State(D, A, M!Root).cwd) = M!Root
      BY <1>2
    <2>2. dir \notin done.dirs
      BY <1>5
    <2> QED
      BY <1>3, <1>6, <2>1, <2>2 DEF M!RemoveSubDomain, Cleared
  <1>8. PICK X, B, ok : done = [dirs |-> X, at |-> B, cwd |-> M!Root, ok |-> ok]
                        /\ X = done.dirs /\ B = done.at /\ ok = done.ok
    BY <1>4 DEF Left
  <1>9. d = [dirs |-> X, at |-> B, cwd |-> M!Root, ok |-> ok]
    BY <1>7, <1>8
  <1>10. d.cwd = M!Root /\ d.dirs = X /\ d.at = B /\ d.ok = ok
    BY <1>9
  <1>11. /\ ok \in BOOLEAN /\ X \subseteq D /\ B \in [M!Threads -> D \cup {M!Root, M!Nowhere}]
         /\ ok => X = {} /\ \A t \in M!Threads : B[t] \notin D
         /\ ~ok => X = D
    BY <1>4, <1>5, <1>8 DEF Left
  <1>12. CASE ok
    <2>1. ok = TRUE /\ X = {}
      BY <1>11, <1>12
    <2>2. B \in [M!Threads -> {} \cup {M!Root, M!Nowhere}]
      BY <1>11, <1>12
    <2>3. d = State({}, d.at, M!Root)
      BY <1>9, <1>10, <2>1 DEF State
    <2> QED
      BY <1>6, <1>10, <1>11, <2>1, <2>2, <2>3 DEF Emptied
  <1>13. CASE ~ok
    BY <1>6, <1>10, <1>11, <1>13 DEF Emptied
  <1> QED
    BY <1>11, <1>12, <1>13

\* MedusadCore starts: the root is emptied, and not all may go.
LEMMA ResetLeaves ==
    ASSUME at \in [M!Threads -> dirs \cup {M!Root, M!Nowhere}], M!Nowhere \notin dirs,
           NEW stuck
    PROVE  /\ M!Reset(stuck).ok \in BOOLEAN
           /\ M!Reset(stuck).at \in [M!Threads -> dirs \cup {M!Root, M!Nowhere}]
           /\ M!Reset(stuck).ok => M!Reset(stuck).at \in [M!Threads -> {M!Root, M!Nowhere}]
           /\ ~M!Reset(stuck).ok => M!Reset(stuck).dirs = dirs
           /\ \A t \in M!Threads : /\ M!Reset(stuck).at[t] \in {at[t], M!Root}
                                   /\ at[t] = M!Nowhere => M!Reset(stuck).at[t] = M!Nowhere
  <1>1. M!Root # M!Nowhere
    BY DEF M!Root, M!Nowhere
  <1>2. M!Reset(stuck) = Cleared(State(dirs, at, M!Root), M!Root, stuck)
    BY DEF M!Reset, State, Cleared
  <1>3. Left(dirs, at, M!Root, M!Root, M!Reset(stuck))
    BY <1>1, <1>2, TreeRemoved
  <1>4. M!Reset(stuck).ok => M!Reset(stuck).at \in [M!Threads -> {M!Root, M!Nowhere}]
    BY <1>3 DEF M!Below, Left
  <1> QED
    BY <1>3, <1>4 DEF Left

-----------------------------------------------------------------------------
(* The build without partitions                                            *)

\* The invariant of the build without partitions: the daemon stays in the root,
\* and the domains are beside BE.
Whole ==
    /\ cwd = M!Root
    /\ dirs \subseteq {M!Partition("BE")} \cup {<<"", q>> : q \in Runtimes}
    /\ at \in [M!Threads -> dirs \cup {M!Root, M!Nowhere}]
    /\ M!CleanedUp

\* In that build there is no HRT/runtime_X and no BE/runtime_X.
LEMMA WholeDirs ==
    ASSUME Whole, NoRuntime \notin Runtimes
    PROVE  /\ M!Nowhere \notin dirs /\ M!Root \notin dirs
           /\ \A r : <<"HRT", r>> \notin dirs
           /\ \A r \in Runtimes : <<"BE", r>> \notin dirs
           /\ dirs \subseteq M!Paths
  <1>1. \A d \in dirs : d = <<"BE", NoRuntime>> \/ \E q \in Runtimes : d = <<"", q>>
    BY DEF Whole, M!Partition
  <1>2. ASSUME NEW d \in dirs
        PROVE  d # M!Nowhere /\ d # M!Root /\ (\A r : d # <<"HRT", r>>)
               /\ (\A r \in Runtimes : d # <<"BE", r>>) /\ d \in M!Paths
    <2>1. CASE d = <<"BE", NoRuntime>>
      BY <2>1 DEF M!Nowhere, M!Root, M!Paths
    <2>2. ASSUME NEW q \in Runtimes, d = <<"", q>>
          PROVE  d # M!Nowhere /\ d # M!Root /\ (\A r : d # <<"HRT", r>>)
                 /\ (\A r \in Runtimes : d # <<"BE", r>>) /\ d \in M!Paths
      <3>1. q # NoRuntime
        OBVIOUS
      <3> QED
        BY <2>2, <3>1 DEF M!Nowhere, M!Root, M!Paths
    <2> QED
      BY <1>1, <1>2, <2>1, <2>2
  <1> QED
    BY <1>2

\* So onCloseHandle finds neither, and empties the root instead.
LEMMA WholeClosed ==
    ASSUME Whole, NoRuntime \notin Runtimes, NEW r \in Runtimes, NEW stuck
    PROVE  Emptied(dirs, M!OnCloseHandle(r, stuck))
  <1>1. PICK d : d = M!RemoveSubDomain(State(dirs, at, M!Root), <<"HRT", r>>, stuck)
    OBVIOUS
  <1>2. Emptied(dirs, d)
    <2>1. at \in [M!Threads -> dirs \cup {M!Root, M!Nowhere}] /\ M!Nowhere \notin dirs
          /\ <<"HRT", r>> \notin dirs
      BY WholeDirs DEF Whole
    <2> QED
      BY <1>1, <2>1, RootEmptied
  <1>3. M!OnCloseHandle(r, stuck) = IF d.ok THEN M!RemoveSubDomain(d, <<"BE", r>>, stuck) ELSE d
    <2>1. State(dirs, at, M!Root) = [dirs |-> dirs, at |-> at, cwd |-> cwd, ok |-> TRUE]
      BY DEF State, Whole
    <2> QED
      BY <1>1, <2>1 DEF M!OnCloseHandle
  <1>4. CASE d.ok
    <2>1. PICK B : B = d.at
      OBVIOUS
    <2>2. B \in [M!Threads -> {} \cup {M!Root, M!Nowhere}] /\ d = State({}, B, M!Root)
      BY <1>2, <1>4, <2>1 DEF Emptied
    <2>3. Emptied({}, M!RemoveSubDomain(State({}, B, M!Root), <<"BE", r>>, stuck))
      BY <2>2, RootEmptied
    <2> QED
      BY <1>3, <1>4, <2>2, <2>3 DEF Emptied
  <1>5. CASE ~d.ok
    BY <1>2, <1>3, <1>5
  <1> QED
    BY <1>4, <1>5

\* A step that makes and removes no directory keeps Whole.
LEMMA WholeKept ==
    ASSUME Whole, UNCHANGED <<dirs, cwd>>,
           at' = at \/ (at' \in [M!Threads -> dirs \cup {M!Root, M!Nowhere}]),
           daemon' = "up" => daemon = "up",
           daemon' = "up" => \A q \in Runtimes : conn'[q] = "closed" => conn[q] = "closed"
    PROVE  Whole'
  BY DEF Whole, M!CleanedUp, M!Partition, M!Root, M!Nowhere, M!Threads

\* Whole is inductive.
LEMMA WholeStep ==
    ASSUME ~Partitioning, NoRuntime \notin Runtimes, Base, Whole, [M!Next]_(M!vars)
    PROVE  Whole'
  <1>0. CallTypes /\ ConnInv
    BY DEF Base, CallInv
  <1>a. /\ at \in [M!Threads -> dirs \cup {M!Root, M!Nowhere}] /\ cwd = M!Root
        /\ M!Nowhere \notin dirs
    BY WholeDirs DEF Whole
  <1>2. ASSUME UNCHANGED <<daemon, dirs, cwd, conn, at>> PROVE Whole'
    BY <1>2, WholeKept
  <1>3. ASSUME NEW r \in Runtimes, M!Connect(r) PROVE Whole'
    <2>1. UNCHANGED <<daemon, dirs, cwd, at>> /\ conn' = [conn EXCEPT ![r] = "accepted"]
      BY <1>3 DEF M!Connect
    <2> QED
      BY <1>0, <2>1, WholeKept DEF ConnInv
  <1>4. ASSUME NEW r \in Runtimes,
               M!ConnectFails(r) \/ M!SendInit(r) \/ M!OpenStep(r) \/ M!HandlePacket(r) \/ M!HandleOutput(r)
        PROVE  Whole'
    BY <1>2, <1>4 DEF M!ConnectFails, M!SendInit, M!OpenStep, M!HandlePacket, M!HandleOutput, M!daemonVars
  <1>5. ASSUME NEW t \in M!Threads, M!WorkerCall(t) \/ M!Send(t) PROVE Whole'
    BY <1>2, <1>5 DEF M!WorkerCall, M!Send, M!daemonVars
  <1>6. ASSUME NEW r \in Runtimes, M!End(r) \/ M!RuntimeError(r) \/ M!SendInitFails(r) PROVE Whole'
    <2>1. UNCHANGED <<daemon, dirs, cwd, conn>>
          /\ at' \in {at, [t \in M!Threads |-> IF t[1] = r THEN M!Nowhere ELSE at[t]]}
      BY <1>6 DEF M!End, M!RuntimeError, M!SendInitFails, M!ProcessEnds, M!daemonVars
    <2>2. at' \in [M!Threads -> dirs \cup {M!Root, M!Nowhere}]
      BY <1>a, <2>1
    <2> QED
      BY <2>1, <2>2, WholeKept
  <1>7. ASSUME NEW t \in M!Threads, M!Reap(t) PROVE Whole'
    <2>1. UNCHANGED <<daemon, dirs, cwd, conn>> /\ at' = [at EXCEPT ![t] = M!Nowhere]
      BY <1>7 DEF M!Reap, M!daemonVars
    <2>2. at' \in [M!Threads -> dirs \cup {M!Root, M!Nowhere}]
      BY <1>a, <2>1
    <2> QED
      BY <2>1, <2>2, WholeKept
  <1>8. ASSUME NEW r \in Runtimes, M!HandleInput(r) PROVE Whole'
    <2> DEFINE m == Head(requests[r])
    <2>1. requests[r] # <<>> /\ conn[r] \notin {"none", "closed"} /\ daemon = "up"
      BY <1>0, <1>8 DEF M!HandleInput, ConnInv
    <2>2. CASE M!HandleInit(r, m)
      <3>1. UNCHANGED <<daemon, dirs, cwd, at>> /\ conn' = [conn EXCEPT ![r] = "known"]
        BY <2>2 DEF M!HandleInit
      <3> QED
        BY <1>0, <3>1, WholeKept DEF ConnInv
    <2>3. CASE M!HandleList(r, m)
      BY <1>a, <2>3, WholeKept DEF M!HandleList
    <2>4. CASE M!HandlePlace(r, m)
      <3>1. at' \in [M!Threads -> dirs \cup {M!Root, M!Nowhere}]
        BY <1>a, <2>4 DEF M!HandlePlace
      <3> QED
        BY <2>4, <3>1, WholeKept DEF M!HandlePlace
    <2>5. CASE M!HandleReserve(r, m)
      <3> DEFINE made == {<<p[1], r>> : p \in M!Parents}
      <3>1. made = {<<"", r>>} /\ M!Parents = {M!Root}
        <4>1. M!Parents = {M!Root} /\ M!Root[1] = ""
          BY DEF M!Parents, M!Root
        <4> HIDE DEF made
        <4>2. \A x : x \in made <=> x = <<"", r>>
          BY <4>1 DEF made
        <4> QED
          BY <4>1, <4>2
      <3>2. \A d \in dirs' \ dirs : d = <<"", r>>
        <4> HIDE DEF made
        <4>1. dirs' = dirs \cup made \/ \E some \in SUBSET made : dirs' = dirs \cup some
          BY <2>5 DEF M!HandleReserve, made
        <4>2. ASSUME NEW d \in dirs', d \notin dirs PROVE d \in made
          BY <4>1, <4>2
        <4> QED
          BY <3>1, <4>2
      <3>3. dirs \subseteq dirs'
        BY <2>5 DEF M!HandleReserve
      <3>4. cwd' = M!Root /\ UNCHANGED at /\ (UNCHANGED <<daemon, conn>> \/ daemon' = "down")
        BY <2>5, <3>1 DEF M!HandleReserve, M!DaemonEnds
      <3>5. M!CleanedUp'
        <4>1. SUFFICES ASSUME daemon' = "up", NEW q \in Runtimes, conn'[q] = "closed", NEW d \in dirs'
                       PROVE  d[2] # q
          BY DEF M!CleanedUp
        <4>2. UNCHANGED <<daemon, conn>> /\ q # r
          BY <2>1, <3>4, <4>1
        <4>3. CASE d \in dirs
          BY <4>1, <4>2, <4>3 DEF Whole, M!CleanedUp
        <4>4. CASE d \notin dirs
          <5>1. d = <<"", r>>
            BY <3>2, <4>1, <4>4
          <5>2. d[2] = r
            BY <5>1
          <5> QED
            BY <4>2, <5>2
        <4> QED
          BY <4>3, <4>4
      <3>6. dirs' \subseteq {M!Partition("BE")} \cup {<<"", q>> : q \in Runtimes}
        BY <3>2 DEF Whole
      <3>7. at' \in [M!Threads -> dirs' \cup {M!Root, M!Nowhere}]
        BY <1>a, <3>3, <3>4
      <3> QED
        BY <3>4, <3>5, <3>6, <3>7 DEF Whole, M!Partition, M!Root, M!Nowhere, M!Threads
    <2> QED
      BY <1>8, <2>2, <2>3, <2>4, <2>5 DEF M!HandleInput
  <1>9. ASSUME NEW r \in Runtimes, M!HandleClose(r) PROVE Whole'
    <2>1. CASE UNCHANGED <<dirs, at, cwd>> /\ M!DaemonEnds
      BY <2>1, WholeKept DEF M!DaemonEnds
    <2>2. ASSUME NEW stuck \in M!Stuck, NEW s, s = M!OnCloseHandle(r, stuck),
                 dirs' = s.dirs, at' = s.at, cwd' = s.cwd,
                 s.ok \/ daemon' = "down"
          PROVE  Whole'
      <3>1. Emptied(dirs, s)
        BY <2>2, WholeClosed
      <3>2. cwd' = M!Root /\ dirs' \subseteq dirs /\ at' \in [M!Threads -> dirs' \cup {M!Root, M!Nowhere}]
        BY <2>2, <3>1 DEF Emptied
      <3>3. dirs' = {} \/ daemon' # "up"
        BY <2>2, <3>1 DEF Emptied
      <3>4. M!CleanedUp'
        BY <3>3 DEF M!CleanedUp
      <3>5. dirs' \subseteq {M!Partition("BE")} \cup {<<"", q>> : q \in Runtimes}
        BY <3>2 DEF Whole
      <3> QED
        BY <3>2, <3>4, <3>5 DEF Whole, M!Partition, M!Root, M!Nowhere, M!Threads
    <2>3. \/ UNCHANGED <<dirs, at, cwd>> /\ M!DaemonEnds
          \/ \E stuck \in M!Stuck :
                LET s == M!OnCloseHandle(r, stuck)
                IN  /\ dirs' = s.dirs /\ at' = s.at /\ cwd' = s.cwd
                    /\ s.ok \/ M!DaemonEnds
      BY <1>9 DEF M!HandleClose
    <2>4. M!DaemonEnds => daemon' = "down"
      BY DEF M!DaemonEnds
    <2> QED
      BY <2>1, <2>2, <2>3, <2>4
  <1>10. CASE M!Restart
    <2>1. PICK stuck \in M!Stuck :
             LET s == M!Reset(stuck)
             IN  /\ at' = s.at
                 /\ cwd' = M!Root
                 /\ dirs' = IF s.ok THEN M!Presets ELSE s.dirs
                 /\ daemon' = IF s.ok THEN "up" ELSE "down"
      BY <1>10 DEF M!Restart
    <2>2. /\ M!Reset(stuck).ok \in BOOLEAN
          /\ M!Reset(stuck).at \in [M!Threads -> dirs \cup {M!Root, M!Nowhere}]
          /\ M!Reset(stuck).ok => M!Reset(stuck).at \in [M!Threads -> {M!Root, M!Nowhere}]
          /\ ~M!Reset(stuck).ok => M!Reset(stuck).dirs = dirs
      BY <1>a, ResetLeaves
    <2>3. /\ cwd' = M!Root
          /\ dirs' = M!Presets \/ (dirs' = dirs /\ daemon' = "down")
          /\ at' \in [M!Threads -> dirs' \cup {M!Root, M!Nowhere}]
      BY <2>1, <2>2
    <2>4. M!Presets = {M!Partition("BE")} /\ M!Partition("BE")[2] = NoRuntime
      BY DEF M!Presets, M!Partition
    <2>5. M!CleanedUp'
      BY <2>3, <2>4 DEF M!CleanedUp
    <2>6. dirs' \subseteq {M!Partition("BE")} \cup {<<"", q>> : q \in Runtimes}
      BY <2>3, <2>4 DEF Whole
    <2> QED
      BY <2>3, <2>5, <2>6 DEF Whole, M!Partition, M!Root, M!Nowhere, M!Threads
  <1>11. CASE UNCHANGED M!vars
    BY <1>2, <1>11 DEF M!vars
  <1> QED
    BY <1>3, <1>4, <1>5, <1>6, <1>7, <1>8, <1>9, <1>10, <1>11 DEF M!Next

-----------------------------------------------------------------------------
(* The build with partitions                                               *)

\* The directories of r in the build with partitions.
Own(r) == {<<"BE", r>>, <<"HRT", r>>}

\* What the daemon has answered under this identifier is done.
Served(r, id) ==
    \A t \in Of(r) : Waits(t, id) =>
       /\ call[t].op = "reserve" => Own(r) \subseteq dirs
       /\ call[t].op = "place" => at[call[t].task] = M!Domain(r)

\* As long as its connection is open, the directories of a runtime exist, from
\* the answer to its reservation on, and who was told to be placed is.
Linked(r) ==
    conn[r] \in {"accepted", "known"} =>
       /\ mode[r] \in {"running", "ended"} => Own(r) \subseteq dirs
       /\ mode[r] = "opening" =>
             \/ Own(r) \subseteq dirs
             \/ calls[r] = 0 /\ \A t \in Of(r) : call[t].op \in {"none", "reserve"}
       /\ mode[r] \in Active => \A id \in Answered(r) : Served(r, id)
       /\ \A t \in Of(r) : told[t] => at[t] = M!Domain(r)

\* The threads of a runtime are in its domain or the root, and after its end
\* in none.
Stands(r) ==
    /\ \A t \in Of(r) : at[t] \in {M!Root, M!Nowhere, M!Domain(r)}
    /\ mode[r] \notin Active => \A t \in Of(r) : ~told[t] /\ at[t] \in {M!Root, M!Nowhere}
    /\ mode[r] = "ended" /\ conn[r] # "none" => \A t \in Of(r) : at[t] = M!Nowhere

\* The partitions are there, below them the domains, and of a closed runtime none.
Tree ==
    /\ M!Presets \subseteq dirs
    /\ dirs \subseteq {"BE", "HRT"} \X (Runtimes \cup {NoRuntime})
    /\ cwd \in {M!Root, M!Gone} \cup M!Presets
    /\ at \in [M!Threads -> dirs \cup {M!Root, M!Nowhere}]
    /\ M!CleanedUp

\* The invariant of the build with partitions.
Parted == Tree /\ \A r \in Runtimes : Linked(r) /\ Stands(r)

-----------------------------------------------------------------------------
(* The build with partitions, step by step                                 *)

\* A step that makes and removes no directory keeps Tree.
LEMMA TreeKept ==
    ASSUME Tree, UNCHANGED <<dirs, cwd>>,
           at' \in [M!Threads -> dirs \cup {M!Root, M!Nowhere}],
           daemon' = "up" => daemon = "up",
           daemon' = "up" => \A q \in Runtimes : conn'[q] = "closed" => conn[q] = "closed"
    PROVE  Tree'
  BY DEF Tree, M!CleanedUp, M!Presets, M!Partition, M!Root, M!Gone, M!Nowhere, M!Threads

\* So does one that moves no task either.
LEMMA TreeSame ==
    ASSUME Tree, UNCHANGED <<daemon, dirs, cwd, at, conn>>
    PROVE  Tree'
  BY TreeKept DEF Tree

\* A thread places only threads of its own runtime.
LEMMA TaskOf ==
    ASSUME CallInv, NEW q \in Runtimes, NEW t \in Of(q), call[t].state # "idle"
    PROVE  call[t].task \in Of(q) /\ call[t] \in Under /\ mode[q] \in Active
  <1>1. call[t] \in Under
    BY DEF CallInv, CallTypes, Of, M!Idle
  <1>2. call[t].task[1] = q /\ mode[q] \in Active
    BY DEF CallInv, Link, FutureInv
  <1> QED
    BY <1>1, <1>2 DEF Under, Of

\* A step that does not concern a runtime keeps its part of Parted.
LEMMA PartedKept ==
    ASSUME CallInv, Parted, NEW q \in Runtimes,
           mode'[q] = mode[q], calls'[q] = calls[q],
           \A t \in Of(q) : call'[t] = call[t] /\ at'[t] = at[t] /\ told'[t] = told[t],
           Answered(q)' \subseteq Answered(q),
           \/ conn'[q] = conn[q]
           \/ conn[q] \in {"accepted", "known"} /\ conn'[q] \in {"known", "closed"},
           Own(q) \subseteq dirs => Own(q) \subseteq dirs'
    PROVE  Linked(q)' /\ Stands(q)'
  <1>1. Linked(q) /\ Stands(q) /\ Of(q)' = Of(q) /\ M!Domain(q)' = M!Domain(q) /\ Own(q)' = Own(q)
    BY DEF Parted, Of, M!Threads, M!Domain, Own
  <1>2. Stands(q)'
    BY <1>1 DEF Stands, M!Root, M!Nowhere
  <1>3. ASSUME NEW id, Served(q, id) PROVE Served(q, id)'
    <2>1. SUFFICES ASSUME NEW t \in Of(q), Waits(t, id)'
                   PROVE  /\ call'[t].op = "reserve" => Own(q) \subseteq dirs'
                          /\ call'[t].op = "place" => at'[call'[t].task] = M!Domain(q)
      BY <1>1 DEF Served
    <2>2. Waits(t, id) /\ call[t].task \in Of(q)
      BY <2>1, TaskOf DEF Waits
    <2> QED
      BY <1>3, <2>1, <2>2 DEF Served
  <1>4. Linked(q)'
    BY <1>1, <1>3 DEF Linked
  <1> QED
    BY <1>2, <1>4

\* MedusaClient::open keeps Parted.
LEMMA ConnectParted ==
    ASSUME Base, Parted, NEW r \in Runtimes, M!Connect(r) \/ M!ConnectFails(r)
    PROVE  Parted'
  <1>0. CallTypes /\ ConnInv /\ CallInv /\ Tree
    BY DEF Base, CallInv, Parted
  <1>1. /\ mode[r] = "off" /\ conn[r] = "none"
        /\ UNCHANGED <<daemon, dirs, cwd, at, requests, output, answers, call, told, calls>>
        /\ \A q \in Runtimes : q # r => mode'[q] = mode[q] /\ conn'[q] = conn[q]
        /\ \/ mode'[r] = "connecting" /\ conn'[r] = "accepted"
           \/ mode'[r] = "ended" /\ conn'[r] = "none"
    BY <1>0 DEF M!Connect, M!ConnectFails, M!daemonVars, ConnInv, CallTypes
  <1>2. Tree'
    BY <1>0, <1>1, TreeKept DEF Tree
  <1>3. ASSUME NEW q \in Runtimes, q # r PROVE Linked(q)' /\ Stands(q)'
    BY <1>0, <1>1, <1>3, PartedKept DEF Answered
  <1>4. Linked(r)' /\ Stands(r)'
    <2>1. \A t \in Of(r) : ~told[t] /\ at[t] \in {M!Root, M!Nowhere}
      BY <1>1 DEF Parted, Stands, Active
    <2> QED
      BY <1>1, <2>1 DEF Linked, Stands, Active, Of, M!Threads, M!Root, M!Nowhere
  <1> QED
    BY <1>2, <1>3, <1>4 DEF Parted

\* The first packet keeps Parted.
LEMMA SendInitParted ==
    ASSUME Base, Parted, NEW r \in Runtimes, M!SendInit(r)
    PROVE  Parted'
  <1>0. CallTypes /\ CallInv /\ Tree
    BY DEF Base, CallInv, Parted
  <1>1. /\ mode[r] = "connecting" /\ calls[r] = 0
        /\ output[r] = <<>> /\ answers[r] = <<>>
        /\ UNCHANGED <<daemon, dirs, cwd, at, conn, output, answers, call, told, calls>>
        /\ \A q \in Runtimes : q # r => mode'[q] = mode[q]
        /\ mode'[r] = "opening"
    BY <1>0 DEF M!SendInit, CallTypes, CallInv, Link, StartInv
  <1>2. Tree'
    BY <1>0, <1>1, TreeSame
  <1>3. ASSUME NEW q \in Runtimes, q # r PROVE Linked(q)' /\ Stands(q)'
    BY <1>0, <1>1, <1>3, PartedKept DEF Answered
  <1>4. Linked(r)' /\ Stands(r)'
    <2>1. \A t \in Of(r) : ~told[t] /\ at[t] \in {M!Root, M!Nowhere}
      BY <1>1 DEF Parted, Stands, Active
    <2>2. \A t \in Of(r) : call[t].op = "none"
      <3>1. \A t \in Of(r) : call[t].state = "idle"
        BY <1>0, <1>1 DEF CallInv, Link, FutureInv, Active
      <3>2. \A t \in Of(r) : call[t] = M!Idle
        BY <1>0, <3>1 DEF CallTypes, Under, Of
      <3> QED
        BY <3>2 DEF M!Idle
    <2>3. Answered(r)' = {}
      BY <1>1, Empty DEF Answered
    <2> QED
      BY <1>1, <2>1, <2>2, <2>3 DEF Linked, Stands, Active, Of, M!Threads, M!Root, M!Nowhere
  <1> QED
    BY <1>2, <1>3, <1>4 DEF Parted

\* A new call keeps Parted: nobody has answered it.
LEMMA CallParted ==
    ASSUME Base, Parted, NEW t \in M!Threads, NEW op \in Ops, NEW task,
           mode[t[1]] \in Active,
           M!Call(t, op, task),
           UNCHANGED <<daemon, dirs, cwd, at, conn, output, answers, mode, told>>,
           \A q \in Runtimes : calls'[q] = calls[q] \/ mode[q] = "running",
           mode[t[1]] = "opening" /\ calls[t[1]] = 0 => op = "reserve"
    PROVE  Parted'
  <1> DEFINE r == t[1]
  <1>0. CallTypes /\ CallInv /\ Tree /\ r \in Runtimes /\ t \in Of(r)
    BY ThreadsOf DEF Base, CallInv, Parted
  <1>1. /\ \A u \in M!Threads : u # t => call'[u] = call[u]
        /\ call'[t].state = "ready" /\ call'[t].op = op
    BY <1>0 DEF M!Call, CallTypes
  <1>2. Tree'
    BY <1>0, TreeSame
  <1> HIDE DEF r
  <1>3. ASSUME NEW q \in Runtimes PROVE Linked(q)' /\ Stands(q)'
    <2>1. Linked(q) /\ Stands(q) /\ Of(q)' = Of(q) /\ Answered(q)' = Answered(q)
      BY DEF Parted, Of, M!Threads, Answered
    <2>2. Stands(q)'
      BY <2>1 DEF Stands, M!Root, M!Nowhere, M!Domain, Active
    <2>3. \A u \in Of(q) : u \in M!Threads /\ (u = t => q = r)
      BY <1>0, ThreadsOf
    <2>4. ASSUME NEW id, Served(q, id) PROVE Served(q, id)'
      <3>1. \A u \in Of(q) : Waits(u, id)' => u # t /\ Waits(u, id) /\ call'[u] = call[u]
        BY <1>1, <2>3 DEF Waits
      <3> QED
        BY <2>1, <2>4, <3>1 DEF Served, Own, M!Domain
    <2>5. ASSUME mode[q] = "opening", calls[q] = 0,
                 \A u \in Of(q) : call[u].op \in {"none", "reserve"}
          PROVE  calls'[q] = 0 /\ \A u \in Of(q) : call'[u].op \in {"none", "reserve"}
      <3>1. calls'[q] = 0
        BY <2>5
      <3>2. ASSUME NEW u \in Of(q), u = t PROVE call'[u].op = "reserve"
        BY <1>1, <2>3, <2>5, <3>2 DEF r
      <3> QED
        BY <1>1, <2>3, <2>5, <3>1, <3>2
    <2>6. Linked(q)'
      BY <2>1, <2>4, <2>5 DEF Linked, Own, M!Domain, Active
    <2> QED
      BY <2>2, <2>6
  <1> QED
    BY <1>2, <1>3 DEF Parted

\* The three calls of QoSManager::open keep Parted: the reservation comes first.
LEMMA OpenStepParted ==
    ASSUME Base, Parted, NEW r \in Runtimes, M!OpenStep(r)
    PROVE  Parted'
  <1>1. /\ mode[r] = "opening" /\ calls[r] \in 0..2
        /\ UNCHANGED <<daemon, dirs, cwd, at, conn, requests, output, answers, mode, told, calls>>
    BY DEF M!OpenStep, Base, CallInv, Link, StartInv, M!daemonVars
  <1>2. <<r, "main">> \in M!Threads /\ <<r, "main">>[1] = r /\ <<r, "main">>[2] = "main"
    BY DEF M!Threads
  <1>3. \E op \in Ops, task \in {"main", "reader"} :
           M!Call(<<r, "main">>, op, task) /\ (calls[r] = 0 => op = "reserve")
    <2>1. CASE calls[r] = 0
      BY <1>2, <2>1 DEF M!OpenStep, M!CreateRuntimeCPUReserve, Ops
    <2>2. CASE calls[r] = 1
      BY <1>2, <2>2 DEF M!OpenStep, M!SetTaskInCPUPartition, Ops
    <2>3. CASE calls[r] = 2
      BY <1>2, <2>3 DEF M!OpenStep, M!SetTaskInCPUPartition, Ops
    <2> QED
      BY <1>1, <2>1, <2>2, <2>3
  <1>4. PICK op \in Ops, task \in {"main", "reader"} :
           M!Call(<<r, "main">>, op, task) /\ (calls[r] = 0 => op = "reserve")
    BY <1>3
  <1> QED
    BY <1>1, <1>2, <1>4, CallParted DEF Active

\* A call of another thread keeps Parted: the runtime is open.
LEMMA WorkerCallParted ==
    ASSUME Base, Parted, NEW t \in M!Threads, M!WorkerCall(t)
    PROVE  Parted'
  <1>1. /\ mode[t[1]] = "running" /\ calls' = [calls EXCEPT ![t[1]] = @ + 1]
        /\ UNCHANGED <<daemon, dirs, cwd, at, conn, requests, output, answers, mode, told>>
        /\ \E op \in Ops : M!Call(t, op, t[2])
    BY DEF M!WorkerCall, M!SetTaskInCPUPartition, M!GetCPUPartitionList, Ops, M!daemonVars
  <1>2. PICK op \in Ops : M!Call(t, op, t[2])
    BY <1>1
  <1>3. \A q \in Runtimes : calls'[q] = calls[q] \/ mode[q] = "running"
    BY <1>1 DEF Base, CallInv, CallTypes
  <1> QED
    BY <1>1, <1>2, <1>3, CallParted DEF Active

\* send keeps Parted: when it fails there is no connection to speak of.
LEMMA SendParted ==
    ASSUME Base, Parted, NEW t \in M!Threads, M!Send(t)
    PROVE  Parted'
  <1> DEFINE r == t[1]
  <1>0. CallTypes /\ CallInv /\ Tree /\ r \in Runtimes /\ t \in Of(r)
    BY ThreadsOf DEF Base, CallInv, Parted
  <1>1. /\ call[t].state = "ready" /\ mode[r] \in Active
        /\ UNCHANGED <<daemon, dirs, cwd, at, conn, output, answers, told>>
    <2>1. call[t].state = "ready"
      BY DEF M!Send
    <2> QED
      BY <1>0, <2>1, TaskOf DEF M!Send
  <1>2. Tree'
    BY <1>0, <1>1, TreeSame
  <1> HIDE DEF r
  <1>3. CASE conn[r] = "closed"
    <2>1. M!Returned(t)
      BY <1>3 DEF M!Send, r
    <2>2. /\ call' = [call EXCEPT ![t] = M!Idle]
          /\ \A q \in Runtimes : q # r => mode'[q] = mode[q] /\ calls'[q] = calls[q]
          /\ mode'[r] \in Active
      BY <1>0, <1>1, <2>1, ReturnedStart DEF r
    <2>3. ASSUME NEW q \in Runtimes, q # r PROVE Linked(q)' /\ Stands(q)'
      <3>1. \A u \in Of(q) : call'[u] = call[u]
        BY <1>0, <2>2, <2>3, ThreadsOf DEF CallTypes
      <3> QED
        BY <1>0, <1>1, <2>2, <2>3, <3>1, PartedKept DEF Answered
    <2>4. Linked(r)' /\ Stands(r)'
      BY <1>0, <1>1, <1>3, <2>2 DEF Parted, Linked, Stands, Active, Of, M!Threads, M!Root, M!Nowhere, M!Domain
    <2> QED
      BY <1>2, <2>3, <2>4 DEF Parted
  <1>4. CASE conn[r] # "closed"
    <2>1. call' = [call EXCEPT ![t].state = "waiting"] /\ UNCHANGED <<mode, calls>>
      BY <1>4 DEF M!Send, r
    <2>2. /\ \A u \in M!Threads : u # t => call'[u] = call[u]
          /\ call'[t].op = call[t].op /\ call'[t].id = call[t].id
      <3>1. call[t] \in Under
        BY <1>0, <1>1, TaskOf
      <3> QED
        BY <1>0, <2>1, <3>1 DEF CallTypes, Under
    <2>3. ASSUME NEW q \in Runtimes PROVE Linked(q)' /\ Stands(q)'
      <3>1. Linked(q) /\ Stands(q) /\ Of(q)' = Of(q) /\ Answered(q)' = Answered(q)
        BY <1>1 DEF Parted, Of, M!Threads, Answered
      <3>2. Stands(q)'
        BY <1>1, <2>1, <3>1 DEF Stands, M!Root, M!Nowhere, M!Domain, Active
      <3>3. ASSUME NEW id \in Answered(q), Served(q, id), mode[q] \in Active
            PROVE  Served(q, id)'
        <4>1. PICK w \in Of(q) : Waits(w, id)
          BY <3>3 DEF Base, CallInv, Link, FlowInv, Active
        <4>2. ASSUME t \in Of(q) PROVE call[t].id # id
          BY <1>0, <1>1, <4>1, <4>2, OneCall DEF Waits, CallInv, Link
        <4>3. \A u \in Of(q) : Waits(u, id)' => u # t /\ Waits(u, id) /\ call'[u] = call[u]
          BY <2>2, <4>2, ThreadsOf DEF Waits
        <4> QED
          BY <1>1, <3>1, <3>3, <4>3 DEF Served, Own, M!Domain
      <3>4. \A u \in Of(q) : call'[u].op = call[u].op
        BY <2>2, ThreadsOf
      <3>5. Linked(q)'
        BY <1>1, <2>1, <3>1, <3>3, <3>4 DEF Linked, Own, M!Domain, Active
      <3> QED
        BY <3>2, <3>5
    <2> QED
      BY <1>2, <2>3 DEF Parted
  <1> QED
    BY <1>3, <1>4

\* The reader tells a caller what the daemon has done.
LEMMA HandlePacketParted ==
    ASSUME Base, Parted, NEW r \in Runtimes, M!HandlePacket(r)
    PROVE  Parted'
  <1> DEFINE id == Head(answers[r])
             found == {e \in pending[r] : e.id = id}
  <1>1. /\ CallTypes /\ CallInv /\ Link(r) /\ mode[r] \in Active /\ FutureInv(r) /\ FlowInv(r)
        /\ answers[r] # <<>> /\ Tree
        /\ UNCHANGED <<daemon, dirs, cwd, conn, requests, output, at>>
    BY DEF Base, Parted, CallInv, M!HandlePacket, Link, Active, M!daemonVars
  <1>2. /\ id \in Elems(answers[r])
        /\ Elems(Tail(answers[r])) \subseteq Elems(answers[r])
    BY <1>1, Removed DEF CallTypes
  <1>3. PICK t \in Of(r) : Waits(t, id)
    BY <1>1, <1>2 DEF FlowInv, Answered
  <1>4. t \in M!Threads /\ t[1] = r /\ call[t].state = "waiting" /\ call[t].id = id
    BY <1>3 DEF Waits, Of
  <1>5. [id |-> id, thread |-> t] \in pending[r]
    BY <1>1, <1>3, <1>4 DEF FutureInv
  <1>6. \A e \in found : e.thread = t
    <2>1. \A e \in found : e = [id |-> id, thread |-> t]
      BY <1>1, <1>5 DEF FutureInv
    <2> QED
      BY <2>1
  <1>7. found # {}
    BY <1>5
  <1>8. /\ answers' = [answers EXCEPT ![r] = Tail(@)]
        /\ M!Returned(t)
        /\ told' = [told EXCEPT ![call[t].task] = @ \/ call[t].op = "place"]
    BY <1>6, <1>7 DEF M!HandlePacket
  <1>9. /\ call' = [call EXCEPT ![t] = M!Idle]
        /\ mode' \in [Runtimes -> Modes] /\ calls' \in [Runtimes -> Nat]
        /\ \A q \in Runtimes : q # r => mode'[q] = mode[q] /\ calls'[q] = calls[q]
        /\ mode'[r] \in Active
    BY <1>1, <1>4, <1>8, ReturnedStart
  <1>10. call[t].task \in Of(r) /\ call[t] \in Under /\ call[t].op \in Ops
    BY <1>1, <1>4, TaskOf DEF Under
  <1>11. Tree'
    BY <1>1, TreeSame
  <1> HIDE DEF id, found
  <1>12. \A u \in M!Threads : told'[u] = told[u] \/ (u = call[t].task /\ told'[u] = (told[u] \/ call[t].op = "place"))
    BY <1>1, <1>8 DEF CallTypes
  <1>13. ASSUME NEW q \in Runtimes, q # r PROVE Linked(q)' /\ Stands(q)'
    <2>1. \A u \in Of(q) : call'[u] = call[u] /\ told'[u] = told[u] /\ at'[u] = at[u]
      BY <1>1, <1>4, <1>9, <1>10, <1>12, <1>13, ThreadsOf DEF CallTypes
    <2>2. Answered(q)' = Answered(q)
      BY <1>1, <1>8, <1>13 DEF CallTypes, Answered
    <2> QED
      BY <1>1, <1>9, <1>13, <2>1, <2>2, PartedKept
  <1>14. Linked(r)' /\ Stands(r)'
    <2>1. Linked(r) /\ Stands(r) /\ Of(r)' = Of(r) /\ M!Domain(r)' = M!Domain(r) /\ Own(r)' = Own(r)
      BY DEF Parted, Of, M!Threads, M!Domain, Own
    <2>2. Stands(r)'
      BY <1>1, <1>9, <2>1 DEF Stands, M!Root, M!Nowhere, Active
    <2>3. SUFFICES ASSUME conn[r] \in {"accepted", "known"} PROVE Linked(r)'
      BY <1>1, <2>2 DEF Linked
    <2>4. Served(r, id) /\ id \in Answered(r)
      BY <1>1, <1>2, <2>1, <2>3 DEF Linked, Answered
    <2>5. ASSUME NEW k \in Answered(r)' PROVE Served(r, k)'
      <3>1. k \in Answered(r)
        BY <1>1, <1>2, <1>8, <2>5 DEF Answered, CallTypes
      <3>2. Served(r, k)
        BY <1>1, <2>1, <2>3, <3>1 DEF Linked
      <3>3. \A u \in Of(r) : Waits(u, k)' => Waits(u, k) /\ call'[u] = call[u]
        BY <1>1, <1>9, ThreadsOf DEF Waits, CallTypes, M!Idle
      <3> QED
        BY <1>1, <2>1, <3>2, <3>3 DEF Served
    <2>6. ASSUME NEW u \in Of(r), told'[u] PROVE at[u] = M!Domain(r)
      <3>1. CASE told[u]
        BY <2>1, <2>3, <3>1 DEF Linked
      <3>2. CASE ~told[u]
        <4>1. u = call[t].task /\ call[t].op = "place"
          BY <1>12, <2>6, <3>2, ThreadsOf
        <4> QED
          BY <1>3, <2>4, <4>1 DEF Served
      <3> QED
        BY <3>1, <3>2
    <2>7. ASSUME ~ Own(r) \subseteq dirs
          PROVE  FALSE \/ (mode'[r] = "opening" /\ calls'[r] = 0
                           /\ \A u \in Of(r) : call'[u].op \in {"none", "reserve"})
      <3>1. /\ mode[r] = "opening" /\ calls[r] = 0
            /\ \A u \in Of(r) : call[u].op \in {"none", "reserve"}
        BY <1>1, <2>1, <2>3, <2>7 DEF Linked, Active
      <3>2. call[t].op = "reserve"
        BY <1>10, <3>1 DEF Ops
      <3> QED
        BY <1>3, <2>4, <2>7, <3>2 DEF Served
    <2>8. (mode'[r] = "running" => Own(r) \subseteq dirs) /\ mode'[r] # "ended"
      BY <1>9, <2>7 DEF Active
    <2>9. CASE Own(r) \subseteq dirs
      BY <1>1, <2>1, <2>5, <2>6, <2>9 DEF Linked
    <2>10. CASE ~ Own(r) \subseteq dirs
      BY <1>1, <2>1, <2>5, <2>6, <2>7, <2>8, <2>10 DEF Linked
    <2> QED
      BY <2>9, <2>10
  <1> QED
    BY <1>11, <1>13, <1>14 DEF Parted

\* A process that ends in order leaves no thread behind.
LEMMA ProcessEndsParted ==
    ASSUME Orderly, Base, Parted, NEW r \in Runtimes,
           mode[r] = "running" \/ conn[r] = "closed", M!ProcessEnds(r)
    PROVE  Parted'
  <1>0. CallTypes /\ CallInv /\ Tree
    BY DEF Base, CallInv, Parted
  <1>1. /\ UNCHANGED <<daemon, dirs, cwd, conn, output, calls>>
        /\ mode' = [mode EXCEPT ![r] = "ended"]
        /\ call' = [t \in M!Threads |-> IF t[1] = r THEN M!Idle ELSE call[t]]
        /\ told' = [t \in M!Threads |-> told[t] /\ t[1] # r]
        /\ at' = [t \in M!Threads |-> IF t[1] = r THEN M!Nowhere ELSE at[t]]
        /\ answers' = [answers EXCEPT ![r] = <<>>]
    BY DEF M!ProcessEnds, M!daemonVars
  <1>2. Tree'
    <2>1. at' \in [M!Threads -> dirs \cup {M!Root, M!Nowhere}]
      BY <1>0, <1>1 DEF Tree
    <2> QED
      BY <1>0, <1>1, <2>1, TreeKept
  <1>3. ASSUME NEW q \in Runtimes, q # r PROVE Linked(q)' /\ Stands(q)'
    <2>1. \A u \in Of(q) : u \in M!Threads /\ u[1] # r
      BY <1>3 DEF Of
    <2>2. \A u \in Of(q) : call'[u] = call[u] /\ at'[u] = at[u]
      BY <1>1, <2>1
    <2>3. \A u \in Of(q) : told'[u] = told[u]
      <3>1. ASSUME NEW u \in Of(q) PROVE told'[u] = told[u]
        <4>1. told'[u] = (told[u] /\ u[1] # r) /\ told[u] \in BOOLEAN /\ u[1] # r
          BY <1>0, <1>1, <2>1 DEF CallTypes
        <4> QED
          BY <4>1
      <3> QED
        BY <3>1
    <2>4. Answered(q)' = Answered(q)
      BY <1>0, <1>1, <1>3 DEF CallTypes, Answered
    <2> QED
      BY <1>0, <1>1, <1>3, <2>2, <2>3, <2>4, PartedKept DEF CallTypes
  <1>4. Linked(r)' /\ Stands(r)'
    <2>1. mode'[r] = "ended" /\ \A u \in Of(r) : at'[u] = M!Nowhere
      BY <1>0, <1>1 DEF CallTypes, Of
    <2>2. \A u \in Of(r) : ~told'[u]
      BY <1>1 DEF Of
    <2>3. conn[r] \in {"accepted", "known"} => Own(r) \subseteq dirs
      BY DEF Parted, Linked
    <2> QED
      BY <1>1, <2>1, <2>2, <2>3 DEF Linked, Stands, Active, Of, M!Threads, Own, M!Root, M!Nowhere
  <1> QED
    BY <1>2, <1>3, <1>4 DEF Parted

\* The threads of an ended runtime are gone already.
LEMMA ReapParted ==
    ASSUME Base, Parted, NEW t \in M!Threads, M!Reap(t)
    PROVE  Parted'
  <1>0. CallInv /\ Tree /\ t \in Of(t[1]) /\ t[1] \in Runtimes
    BY ThreadsOf DEF Base, Parted
  <1>1. /\ UNCHANGED <<daemon, dirs, cwd, conn, output, answers, mode, call, told, calls>>
        /\ mode[t[1]] = "ended" /\ at' = [at EXCEPT ![t] = M!Nowhere]
    BY DEF M!Reap, M!daemonVars, M!clientVars
  <1>2. Tree'
    <2>1. at' \in [M!Threads -> dirs \cup {M!Root, M!Nowhere}]
      BY <1>0, <1>1 DEF Tree
    <2> QED
      BY <1>0, <1>1, <2>1, TreeKept
  <1>3. ASSUME NEW q \in Runtimes, q # t[1] PROVE Linked(q)' /\ Stands(q)'
    <2>1. \A u \in Of(q) : at'[u] = at[u]
      BY <1>0, <1>1, <1>3, ThreadsOf DEF Tree
    <2> QED
      BY <1>0, <1>1, <2>1, PartedKept DEF Answered
  <1>4. Linked(t[1])' /\ Stands(t[1])'
    <2>1. \A u \in Of(t[1]) : at'[u] \in {at[u], M!Nowhere} /\ ~told[u]
      BY <1>0, <1>1, ThreadsOf DEF Parted, Tree, Stands, Active
    <2>2. Linked(t[1]) /\ Stands(t[1])
      BY <1>0 DEF Parted
    <2>3. Stands(t[1])'
      BY <1>1, <2>1, <2>2 DEF Stands, Active, Of, M!Threads, M!Root, M!Nowhere, M!Domain
    <2>4. Linked(t[1])'
      BY <1>1, <2>1, <2>2 DEF Linked, Active, Of, M!Threads, Own
    <2> QED
      BY <2>3, <2>4
  <1> QED
    BY <1>2, <1>3, <1>4 DEF Parted

\* The daemon sends what it has answered.
LEMMA HandleOutputParted ==
    ASSUME Base, Parted, NEW r \in Runtimes, M!HandleOutput(r)
    PROVE  Parted'
  <1>0. CallTypes /\ CallInv /\ Tree
    BY DEF Base, CallInv, Parted
  <1>1. /\ UNCHANGED <<daemon, dirs, cwd, at, conn, mode, call, told, calls>>
        /\ output[r] # <<>>
        /\ output' = [output EXCEPT ![r] = Tail(@)]
        /\ answers' = IF mode[r] = "ended" THEN answers
                      ELSE [answers EXCEPT ![r] = Append(@, Head(output[r]))]
    BY DEF M!HandleOutput, M!clientVars
  <1>2. Tree'
    BY <1>0, <1>1, TreeSame
  <1>3. ASSUME NEW q \in Runtimes PROVE Answered(q)' \subseteq Answered(q)
    <2>1. /\ Elems(Tail(output[r])) \subseteq Elems(output[r]) /\ Head(output[r]) \in Elems(output[r])
          /\ Head(output[r]) \in Nat
      BY <1>0, <1>1, Removed DEF CallTypes
    <2>2. Elems(Append(answers[r], Head(output[r]))) = Elems(answers[r]) \cup {Head(output[r])}
      BY <1>0, <2>1, Appended DEF CallTypes
    <2>3. CASE q = r
      BY <1>0, <1>1, <2>1, <2>2, <2>3 DEF CallTypes, Answered
    <2>4. CASE q # r
      BY <1>0, <1>1, <2>4 DEF CallTypes, Answered
    <2> QED
      BY <2>3, <2>4
  <1>4. ASSUME NEW q \in Runtimes PROVE Linked(q)' /\ Stands(q)'
    BY <1>0, <1>1, <1>3, PartedKept
  <1> QED
    BY <1>2, <1>4 DEF Parted

\* An answer to a request that is done keeps what is said of the runtimes.
LEMMA ReplyParted ==
    ASSUME Base, Parted, NEW r \in Runtimes, NEW m, m = Head(requests[r]), requests[r] # <<>>,
           m.op # "init", M!Reply(r, m),
           UNCHANGED <<conn, answers, mode, call, told, calls>>,
           dirs \subseteq dirs',
           \A t \in M!Threads : at'[t] = at[t]
                              \/ (mode[r] \in Active /\ t \in Of(r) /\ at'[t] = M!Domain(r)),
           mode[r] \in Active => \A t \in Of(r) : Asks(t, m) =>
              /\ m.op = "reserve" => Own(r) \subseteq dirs'
              /\ m.op = "place" => at'[m.thread] = M!Domain(r)
    PROVE  \A q \in Runtimes : Linked(q)' /\ Stands(q)'
  <1>0. CallTypes /\ CallInv
    BY DEF Base, CallInv
  <1>1. m \in Elems(requests[r]) /\ m.id \in Nat
    <2>1. m \in Elems(requests[r]) /\ m \in Message
      BY <1>0, Removed DEF CallTypes
    <2> QED
      BY <2>1 DEF Message
  <1>2. output' = [output EXCEPT ![r] = Append(@, m.id)]
    BY DEF M!Reply
  <1>3. ASSUME NEW q \in Runtimes, q # r PROVE Linked(q)' /\ Stands(q)'
    <2>1. \A t \in Of(q) : at'[t] = at[t]
      BY <1>3, ThreadsOf
    <2>2. Answered(q)' = Answered(q)
      BY <1>0, <1>2, <1>3 DEF CallTypes, Answered
    <2> QED
      BY <1>0, <2>1, <2>2, PartedKept
  <1>4. Linked(r)' /\ Stands(r)'
    <2>1. Linked(r) /\ Stands(r) /\ Of(r)' = Of(r) /\ M!Domain(r)' = M!Domain(r) /\ Own(r)' = Own(r)
      BY DEF Parted, Of, M!Threads, M!Domain, Own
    <2>2. \A t \in Of(r) : at'[t] \in {at[t], M!Domain(r)} /\ (mode[r] \notin Active => at'[t] = at[t])
      BY ThreadsOf
    <2>3. Stands(r)'
      BY <2>1, <2>2 DEF Stands, M!Root, M!Nowhere, Active
    <2>4. ASSUME conn[r] \in {"accepted", "known"}, mode[r] \in Active, NEW k \in Answered(r)'
          PROVE  Served(r, k)'
      <3>1. FutureInv(r) /\ FlowInv(r)
        BY <1>0, <2>4 DEF CallInv, Link, Active
      <3>2. k \in Answered(r) \/ k = m.id
        <4>0. output[r] \in Seq(Nat)
          BY <1>0 DEF CallTypes
        <4>1. Elems(Append(output[r], m.id)) = Elems(output[r]) \cup {m.id}
          BY <4>0, <1>1, Appended
        <4> QED
          BY <1>0, <1>2, <2>4, <4>1 DEF CallTypes, Answered
      <3>3. CASE k \in Answered(r)
        <4>1. Served(r, k)
          BY <2>1, <2>4, <3>3 DEF Linked
        <4>2. \A t \in Of(r) : Waits(t, k)' => Waits(t, k) /\ call[t].task \in Of(r)
          BY <1>0, TaskOf DEF Waits
        <4> QED
          BY <2>1, <2>2, <4>1, <4>2 DEF Served
      <3>4. CASE k = m.id
        <4>1. PICK t \in Of(r) : Asks(t, m)
          BY <1>1, <3>1 DEF FlowInv
        <4>2. /\ call[t].state = "waiting" /\ call[t].id = m.id /\ call[t].op = m.op
              /\ call[t].task = m.thread
          BY <4>1 DEF Asks
        <4>3. \A u \in Of(r) : Waits(u, k)' => u = t
          BY <1>0, <3>1, <3>4, <4>2, OneCall DEF Waits
        <4> QED
          BY <2>1, <2>4, <4>1, <4>2, <4>3 DEF Served
      <3> QED
        BY <3>2, <3>3, <3>4
    <2>5. \A t \in Of(r) : at[t] = M!Domain(r) => at'[t] = M!Domain(r)
      BY <2>2
    <2>6. Linked(r)'
      BY <2>1, <2>4, <2>5 DEF Linked
    <2> QED
      BY <2>3, <2>6
  <1> QED
    BY <1>3, <1>4

\* The daemon finds the two partitions, and makes the domain in both.
LEMMA ParentsArePresets ==
    ASSUME Partitioning, NoRuntime \notin Runtimes, Tree, NEW r \in Runtimes
    PROVE  M!Parents = M!Presets /\ {<<p[1], r>> : p \in M!Parents} = Own(r)
  <1>1. M!Presets = {<<"BE", NoRuntime>>, <<"HRT", NoRuntime>>}
    BY DEF M!Presets, M!Partition
  <1>2. M!Parents = {d \in dirs : d[2] = NoRuntime}
    BY DEF M!Parents
  <1>3. ASSUME NEW d \in dirs, d[2] = NoRuntime PROVE d \in M!Presets
    BY <1>1, <1>3 DEF Tree
  <1>4. ASSUME NEW d \in M!Presets PROVE d \in dirs /\ d[2] = NoRuntime
    BY <1>1, <1>4 DEF Tree
  <1>5. M!Parents = M!Presets
    BY <1>2, <1>3, <1>4
  <1>6. {<<p[1], r>> : p \in M!Presets} = Own(r)
    <2>1. /\ <<"BE", NoRuntime>>[1] = "BE" /\ <<"HRT", NoRuntime>>[1] = "HRT"
      OBVIOUS
    <2> QED
      BY <1>1, <2>1 DEF Own
  <1> QED
    BY <1>5, <1>6

\* A reservation adds directories of an open runtime only.
LEMMA TreeGrows ==
    ASSUME Tree, dirs \subseteq dirs', NEW r \in Runtimes, \A d \in dirs' : d \in dirs \/ d \in Own(r),
           cwd' \in {M!Root} \cup M!Presets, UNCHANGED at,
           daemon' = "up" => UNCHANGED <<daemon, conn>> /\ conn[r] # "closed"
    PROVE  Tree'
  <1>1. at' \in [M!Threads -> dirs' \cup {M!Root, M!Nowhere}]
    BY DEF Tree
  <1>2. \A d \in Own(r) : d[2] = r /\ d \in {"BE", "HRT"} \X (Runtimes \cup {NoRuntime})
    BY DEF Own
  <1>3. M!CleanedUp'
    <2>1. SUFFICES ASSUME daemon' = "up", NEW q \in Runtimes, conn'[q] = "closed", NEW d \in dirs'
                   PROVE  d[2] # q
      BY DEF M!CleanedUp
    <2>2. q # r /\ conn[q] = "closed" /\ daemon = "up"
      BY <2>1
    <2> QED
      BY <1>2, <2>1, <2>2 DEF Tree, M!CleanedUp
  <1>4. dirs' \subseteq {"BE", "HRT"} \X (Runtimes \cup {NoRuntime})
    BY <1>2 DEF Tree
  <1>5. M!Presets' = M!Presets /\ M!Presets \subseteq dirs'
    BY DEF Tree, M!Presets, M!Partition
  <1> QED
    BY <1>1, <1>3, <1>4, <1>5 DEF Tree, M!Root, M!Gone, M!Nowhere, M!Threads

\* Without the daemon, nothing is claimed of the runtimes' directories.
LEMMA DaemonEndsParted ==
    ASSUME Base, Parted, M!DaemonEnds, UNCHANGED <<at, answers, mode, call, told, calls>>,
           dirs \subseteq dirs'
    PROVE  \A q \in Runtimes : Linked(q)' /\ Stands(q)'
  <1>1. ASSUME NEW q \in Runtimes PROVE Linked(q)' /\ Stands(q)'
    <2>1. conn'[q] = IF conn[q] = "none" THEN "none" ELSE "closed"
      BY DEF M!DaemonEnds
    <2>2. conn[q] \in {"none", "accepted", "known", "closed"} /\ CallInv
      BY DEF Base, ConnInv
    <2>3. Answered(q)' \subseteq Answered(q)
      BY Empty DEF M!DaemonEnds, Answered
    <2> QED
      BY <2>1, <2>2, <2>3, PartedKept
  <1> QED
    BY <1>1

\* A request that the daemon handles, or dies of, keeps Parted.
LEMMA HandleInputParted ==
    ASSUME Partitioning, NoRuntime \notin Runtimes, Base, Parted, NEW r \in Runtimes, M!HandleInput(r)
    PROVE  Parted'
  <1>0. CallTypes /\ ConnInv /\ CallInv /\ Tree
    BY DEF Base, CallInv, Parted
  <1>1. PICK m : m = Head(requests[r])
    OBVIOUS
  <1>2. /\ requests[r] # <<>> /\ conn[r] \in {"accepted", "known"} /\ daemon = "up"
        /\ UNCHANGED <<answers, mode, call, told, calls>>
        /\ M!HandleInit(r, m) \/ M!HandleList(r, m) \/ M!HandlePlace(r, m) \/ M!HandleReserve(r, m)
    BY <1>0, <1>1 DEF M!HandleInput, ConnInv, M!clientVars
  <1>3. CASE M!HandleInit(r, m)
    <2>1. /\ conn' = [conn EXCEPT ![r] = "known"]
          /\ UNCHANGED <<daemon, dirs, cwd, at, output>>
      BY <1>3 DEF M!HandleInit
    <2>2. Tree'
      BY <1>0, <2>1, TreeKept DEF Tree, ConnInv
    <2>3. ASSUME NEW q \in Runtimes PROVE Linked(q)' /\ Stands(q)'
      <3>1. conn'[q] = conn[q] \/ (conn[q] \in {"accepted", "known"} /\ conn'[q] = "known")
        BY <1>0, <1>2, <2>1 DEF ConnInv
      <3> QED
        BY <1>0, <1>2, <2>1, <3>1, PartedKept DEF Answered
    <2> QED
      BY <2>2, <2>3 DEF Parted
  <1>4. CASE M!HandleList(r, m)
    <2>1. m.op = "list" /\ cwd' = M!Root /\ M!Reply(r, m) /\ UNCHANGED <<daemon, dirs, at, conn>>
      BY <1>4 DEF M!HandleList
    <2>2. Tree'
      BY <1>0, <1>2, <2>1, TreeGrows
    <2>3. \A q \in Runtimes : Linked(q)' /\ Stands(q)'
      BY <1>1, <1>2, <2>1, ReplyParted
    <2> QED
      BY <2>2, <2>3 DEF Parted
  <1>5. CASE M!HandlePlace(r, m)
    <2>1. /\ m.op = "place" /\ M!Reply(r, m) /\ UNCHANGED <<daemon, dirs, cwd, conn>>
          /\ at' = IF M!Domain(r) \in dirs /\ mode[r] # "ended"
                   THEN [at EXCEPT ![m.thread] = M!Domain(r)] ELSE at
      BY <1>5 DEF M!HandlePlace
    <2>2. Tree'
      <3>1. at' \in [M!Threads -> dirs \cup {M!Root, M!Nowhere}]
        BY <1>0, <2>1 DEF Tree
      <3> QED
        BY <1>0, <2>1, <3>1, TreeKept
    <2>3. CASE mode[r] = "ended"
      <3>1. UNCHANGED at /\ mode[r] \notin Active
        BY <2>1, <2>3 DEF Active
      <3>2. \A q \in Runtimes : Linked(q)' /\ Stands(q)'
        BY <1>1, <1>2, <2>1, <3>1, ReplyParted
      <3> QED
        BY <2>2, <3>2 DEF Parted
    <2>4. CASE mode[r] # "ended"
      <3>1. mode[r] \in Active
        BY <1>0, <1>2, <2>4 DEF CallInv, CallTypes, Modes, Active, Link, StartInv
      <3>2. m \in Elems(requests[r])
        BY <1>0, <1>1, <1>2, Removed DEF CallTypes
      <3>3. PICK t \in Of(r) : Asks(t, m)
        BY <1>0, <2>1, <2>4, <3>2 DEF CallInv, Link, FlowInv
      <3>4. call[t].op = "place" /\ call[t].task = m.thread /\ call[t].state = "waiting"
        BY <2>1, <3>3 DEF Asks
      <3>5. m.thread \in Of(r)
        BY <1>0, <3>4, TaskOf
      <3>6. Own(r) \subseteq dirs
        BY <1>2, <3>1, <3>4 DEF Parted, Linked, Active
      <3>7. M!Domain(r) \in dirs
        BY <3>6 DEF Own, M!Domain
      <3>8. /\ at'[m.thread] = M!Domain(r)
            /\ \A u \in M!Threads : at'[u] = at[u] \/ (u \in Of(r) /\ at'[u] = M!Domain(r))
        BY <1>0, <2>1, <2>4, <3>5, <3>7, ThreadsOf DEF Tree
      <3>9. \A q \in Runtimes : Linked(q)' /\ Stands(q)'
        BY <1>1, <1>2, <2>1, <3>1, <3>8, ReplyParted
      <3> QED
        BY <2>2, <3>9 DEF Parted
    <2> QED
      BY <2>3, <2>4
  <1>6. CASE M!HandleReserve(r, m)
    <2>1. M!Parents = M!Presets /\ {<<p[1], r>> : p \in M!Parents} = Own(r) /\ M!Presets # {}
      BY <1>0, ParentsArePresets DEF M!Presets
    <2>2. /\ m.op = "reserve" /\ cwd' \in M!Presets /\ UNCHANGED at
          /\ \/ dirs' = dirs \cup Own(r) /\ M!Reply(r, m) /\ UNCHANGED <<daemon, conn>>
             \/ (\E some \in SUBSET Own(r) : dirs' = dirs \cup some) /\ M!DaemonEnds
      BY <1>6, <2>1 DEF M!HandleReserve
    <2>3. dirs \subseteq dirs' /\ (\A d \in dirs' : d \in dirs \/ d \in Own(r))
      BY <2>2
    <2>4. daemon' = "up" => UNCHANGED <<daemon, conn>>
      BY <2>2 DEF M!DaemonEnds
    <2>5. Tree'
      BY <1>0, <1>2, <2>2, <2>3, <2>4, TreeGrows
    <2>6. CASE dirs' = dirs \cup Own(r) /\ M!Reply(r, m) /\ UNCHANGED <<daemon, conn>>
      <3>1. Own(r) \subseteq dirs' /\ m.op # "init" /\ m.op # "place"
        BY <2>2, <2>6
      <3>2. \A q \in Runtimes : Linked(q)' /\ Stands(q)'
        BY <1>1, <1>2, <2>2, <2>3, <2>6, <3>1, ReplyParted
      <3> QED
        BY <2>5, <3>2 DEF Parted
    <2>7. CASE M!DaemonEnds
      <3>1. \A q \in Runtimes : Linked(q)' /\ Stands(q)'
        BY <1>2, <2>2, <2>3, <2>7, DaemonEndsParted
      <3> QED
        BY <2>5, <3>1 DEF Parted
    <2> QED
      BY <2>2, <2>6, <2>7
  <1> QED
    BY <1>2, <1>3, <1>4, <1>5, <1>6

\* A directory of a runtime, with no task in it, goes.
LEMMA LeafRemoved ==
    ASSUME NEW D, NEW A \in [M!Threads -> D \cup {M!Root, M!Nowhere}], NEW c, NEW stuck,
           M!Nowhere \notin D, NEW dir \in D, dir # M!Root, dir # M!Nowhere, dir[2] # NoRuntime,
           \A t \in M!Threads : A[t] # dir
    PROVE  M!RemoveSubDomain(State(D, A, c), dir, stuck) = State(D \ {dir}, A, M!Gone)
  <1>1. \A x : ~M!Below(x, dir)
    BY DEF M!Below
  <1>2. State(D, A, c).dirs = D
    BY DEF State
  <1>3. PICK done : done = Cleared(State(D, A, c), dir, stuck)
    OBVIOUS
  <1>4. Left(D, A, c, dir, done)
    BY <1>3, TreeRemoved
  <1>5. done.ok /\ done.ok \in BOOLEAN /\ done.at = A /\ done.dirs = D
        /\ done = [dirs |-> done.dirs, at |-> done.at, cwd |-> c, ok |-> done.ok]
    BY <1>1, <1>4 DEF Left
  <1>6. done = [dirs |-> D, at |-> A, cwd |-> c, ok |-> TRUE]
    BY <1>5
  <1>7. M!RemoveSubDomain(State(D, A, c), dir, stuck) = [done EXCEPT !.dirs = @ \ {dir}, !.cwd = M!Gone]
    BY <1>2, <1>3, <1>5 DEF M!RemoveSubDomain, Cleared
  <1> QED
    BY <1>6, <1>7 DEF State

\* onCloseHandle takes exactly the directories of the runtime away, and moves
\* no task.
LEMMA PartClosed ==
    ASSUME Partitioning, Orderly, NoRuntime \notin Runtimes, Base, Parted, NEW r \in Runtimes,
           mode[r] = "ended", conn[r] = "known", NEW stuck
    PROVE  /\ M!OnCloseHandle(r, stuck) = State(dirs \ Own(r), at, M!Gone)
           /\ \A t \in M!Threads : at[t] \notin Own(r)
  <1>1. Own(r) \subseteq dirs
    BY DEF Parted, Linked
  <1>2. \A t \in M!Threads : at[t] \notin Own(r)
    <2>1. SUFFICES ASSUME NEW t \in M!Threads PROVE at[t] \notin Own(r)
      OBVIOUS
    <2>2. t[1] \in Runtimes /\ t \in Of(t[1])
      BY ThreadsOf
    <2>3. at[t] \in {M!Root, M!Nowhere} \/ (t[1] # r /\ at[t] = <<"HRT", t[1]>>)
      BY <2>2 DEF Parted, Stands, M!Domain
    <2>4. M!Root \notin Own(r) /\ M!Nowhere \notin Own(r)
      BY DEF Own, M!Root, M!Nowhere
    <2>5. ASSUME NEW q, q # r PROVE <<"HRT", q>> \notin Own(r)
      <3>1. <<"HRT", q>>[2] # <<"BE", r>>[2] /\ <<"HRT", q>>[2] # <<"HRT", r>>[2]
        BY <2>5
      <3> QED
        BY <3>1 DEF Own
    <2> QED
      BY <2>3, <2>4, <2>5
  <1>3. /\ at \in [M!Threads -> dirs \cup {M!Root, M!Nowhere}]
        /\ M!Nowhere \notin dirs
    BY DEF Parted, Tree, M!Nowhere
  <1> DEFINE H == <<"HRT", r>>
             B == <<"BE", r>>
  <1>4. /\ H # M!Root /\ H # M!Nowhere /\ H[2] # NoRuntime /\ B # M!Root /\ B # M!Nowhere /\ B[2] # NoRuntime
        /\ H # B /\ H \in dirs /\ B \in dirs /\ Own(r) = {B, H}
    BY <1>1 DEF M!Root, M!Nowhere, Own
  <1> HIDE DEF H, B
  <1>5. M!RemoveSubDomain(State(dirs, at, cwd), H, stuck) = State(dirs \ {H}, at, M!Gone)
    BY <1>2, <1>3, <1>4, LeafRemoved
  <1>6. at \in [M!Threads -> (dirs \ {H}) \cup {M!Root, M!Nowhere}] /\ B \in dirs \ {H}
        /\ M!Nowhere \notin dirs \ {H}
    BY <1>2, <1>3, <1>4
  <1>7. PICK D : D = dirs \ {H}
    OBVIOUS
  <1>8. M!RemoveSubDomain(State(D, at, M!Gone), B, stuck) = State(D \ {B}, at, M!Gone)
    BY <1>2, <1>4, <1>6, <1>7, LeafRemoved
  <1>9. D \ {B} = dirs \ Own(r)
    BY <1>4, <1>7
  <1>10. State(D, at, M!Gone).ok
    BY DEF State
  <1>11. M!OnCloseHandle(r, stuck) = M!RemoveSubDomain(State(D, at, M!Gone), B, stuck)
    <2>1. [dirs |-> dirs, at |-> at, cwd |-> cwd, ok |-> TRUE] = State(dirs, at, cwd)
      BY DEF State
    <2> QED
      BY <1>5, <1>7, <1>10, <2>1 DEF M!OnCloseHandle, H, B
  <1> QED
    BY <1>2, <1>8, <1>9, <1>11

\* A connection that is closed keeps Parted.
LEMMA HandleCloseParted ==
    ASSUME Partitioning, Orderly, NoRuntime \notin Runtimes, Base, Parted, NEW r \in Runtimes,
           M!HandleClose(r)
    PROVE  Parted'
  <1>0. CallTypes /\ ConnInv /\ CallInv /\ Tree
    BY DEF Base, CallInv, Parted
  <1>1. /\ mode[r] = "ended" /\ conn[r] \in {"accepted", "known"} /\ daemon = "up"
        /\ UNCHANGED <<answers, mode, call, told, calls>>
    BY DEF M!HandleClose, M!clientVars
  <1>2. CASE conn[r] = "accepted"
    <2>1. M!DaemonEnds /\ UNCHANGED <<dirs, at, cwd>>
      BY <1>2 DEF M!HandleClose
    <2>2. Tree'
      BY <1>0, <2>1, TreeKept DEF Tree, M!DaemonEnds
    <2>3. \A q \in Runtimes : Linked(q)' /\ Stands(q)'
      BY <1>1, <2>1, DaemonEndsParted
    <2> QED
      BY <2>2, <2>3 DEF Parted
  <1>3. CASE conn[r] = "known"
    <2>1. PICK stuck \in M!Stuck :
             LET s == M!OnCloseHandle(r, stuck)
             IN  /\ dirs' = s.dirs /\ at' = s.at /\ cwd' = s.cwd
                 /\ IF s.ok
                    THEN /\ conn' = [conn EXCEPT ![r] = "closed"]
                         /\ output' = [output EXCEPT ![r] = <<>>]
                         /\ UNCHANGED <<daemon, requests>>
                    ELSE M!DaemonEnds
      BY <1>3 DEF M!HandleClose
    <2>2. M!OnCloseHandle(r, stuck) = State(dirs \ Own(r), at, M!Gone)
          /\ \A t \in M!Threads : at[t] \notin Own(r)
      BY <1>1, <1>3, PartClosed
    <2>3. /\ dirs' = dirs \ Own(r) /\ at' = at /\ cwd' = M!Gone
          /\ conn' = [conn EXCEPT ![r] = "closed"]
          /\ output' = [output EXCEPT ![r] = <<>>]
          /\ UNCHANGED daemon
      <3>1. /\ State(dirs \ Own(r), at, M!Gone).dirs = dirs \ Own(r)
            /\ State(dirs \ Own(r), at, M!Gone).at = at
            /\ State(dirs \ Own(r), at, M!Gone).cwd = M!Gone
            /\ State(dirs \ Own(r), at, M!Gone).ok
        BY DEF State
      <3> QED
        BY <2>1, <2>2, <3>1
    <2>4. Tree'
      <3>1. at' \in [M!Threads -> dirs' \cup {M!Root, M!Nowhere}]
        BY <1>0, <2>2, <2>3 DEF Tree
      <3>2. M!Presets \subseteq dirs'
        BY <1>0, <2>3 DEF Tree, M!Presets, M!Partition, Own
      <3>3. M!CleanedUp'
        <4>1. SUFFICES ASSUME NEW q \in Runtimes, conn'[q] = "closed", NEW d \in dirs' PROVE d[2] # q
          BY DEF M!CleanedUp
        <4>2. CASE q # r
          BY <1>0, <1>1, <2>3, <4>1, <4>2 DEF Tree, M!CleanedUp, ConnInv
        <4>3. CASE q = r
          <5>1. d \in {"BE", "HRT"} \X (Runtimes \cup {NoRuntime}) /\ d # <<"BE", r>> /\ d # <<"HRT", r>>
            BY <1>0, <2>3, <4>1 DEF Tree, Own
          <5> QED
            BY <4>3, <5>1
        <4> QED
          BY <4>2, <4>3
      <3>4. dirs' \subseteq {"BE", "HRT"} \X (Runtimes \cup {NoRuntime})
        BY <1>0, <2>3 DEF Tree
      <3> QED
        BY <2>3, <3>1, <3>2, <3>3, <3>4 DEF Tree, M!Presets, M!Partition, M!Root, M!Gone, M!Nowhere, M!Threads
    <2>5. ASSUME NEW q \in Runtimes PROVE Linked(q)' /\ Stands(q)'
      <3>1. CASE q # r
        <4>1. conn'[q] = conn[q] /\ Answered(q)' = Answered(q)
          BY <1>0, <1>1, <2>3, <3>1 DEF ConnInv, CallTypes, Answered
        <4>2. Own(q) \subseteq dirs => Own(q) \subseteq dirs'
          BY <2>3, <3>1 DEF Own
        <4> QED
          BY <1>0, <1>1, <2>3, <4>1, <4>2, PartedKept
      <3>2. CASE q = r
        <4>1. conn'[r] = "closed" /\ Stands(r) /\ Of(r)' = Of(r)
          BY <1>0, <2>3 DEF ConnInv, Parted, Of, M!Threads
        <4>2. Linked(r)'
          BY <4>1 DEF Linked
        <4>3. Stands(r)'
          BY <1>1, <1>3, <2>3, <4>1 DEF Stands, Active, M!Root, M!Nowhere, M!Domain
        <4> QED
          BY <3>2, <4>2, <4>3
      <3> QED
        BY <3>1, <3>2
    <2> QED
      BY <2>4, <2>5 DEF Parted
  <1> QED
    BY <1>1, <1>2, <1>3

\* A new daemon, which empties the root first, keeps Parted.
LEMMA RestartParted ==
    ASSUME Partitioning, NoRuntime \notin Runtimes, Base, Parted, M!Restart
    PROVE  Parted'
  <1>0. ConnInv /\ Tree
    BY DEF Base, Parted
  <1>1. /\ daemon = "down" /\ UNCHANGED <<conn, output, answers, mode, call, told, calls>>
    BY DEF M!Restart, M!clientVars
  <1>2. PICK stuck \in M!Stuck :
           LET s == M!Reset(stuck)
           IN  /\ at' = s.at
               /\ cwd' = M!Root
               /\ dirs' = IF s.ok THEN M!Presets ELSE s.dirs
               /\ daemon' = IF s.ok THEN "up" ELSE "down"
    BY DEF M!Restart
  <1>3. /\ M!Reset(stuck).ok \in BOOLEAN
        /\ M!Reset(stuck).at \in [M!Threads -> dirs \cup {M!Root, M!Nowhere}]
        /\ M!Reset(stuck).ok => M!Reset(stuck).at \in [M!Threads -> {M!Root, M!Nowhere}]
        /\ ~M!Reset(stuck).ok => M!Reset(stuck).dirs = dirs
        /\ \A t \in M!Threads : /\ M!Reset(stuck).at[t] \in {at[t], M!Root}
                                /\ at[t] = M!Nowhere => M!Reset(stuck).at[t] = M!Nowhere
    <2>1. at \in [M!Threads -> dirs \cup {M!Root, M!Nowhere}] /\ M!Nowhere \notin dirs
      BY <1>0 DEF Tree, M!Nowhere
    <2> QED
      BY <2>1, ResetLeaves
  <1>4. /\ cwd' = M!Root
        /\ dirs' = M!Presets \/ (dirs' = dirs /\ daemon' = "down")
        /\ at' \in [M!Threads -> dirs' \cup {M!Root, M!Nowhere}]
        /\ \A t \in M!Threads : at'[t] \in {at[t], M!Root} /\ (at[t] = M!Nowhere => at'[t] = M!Nowhere)
    BY <1>2, <1>3
  <1>5. M!Presets = {<<"BE", NoRuntime>>, <<"HRT", NoRuntime>>}
    BY DEF M!Presets, M!Partition
  <1>6. Tree'
    <2>1. M!CleanedUp'
      <3>1. \A d \in M!Presets : d[2] \notin Runtimes
        BY <1>5
      <3> QED
        BY <1>4, <3>1 DEF M!CleanedUp
    <2>2. M!Presets \subseteq dirs' /\ dirs' \subseteq {"BE", "HRT"} \X (Runtimes \cup {NoRuntime})
      BY <1>0, <1>4, <1>5 DEF Tree
    <2> QED
      BY <1>4, <2>1, <2>2 DEF Tree, M!Presets, M!Partition, M!Root, M!Gone, M!Nowhere, M!Threads
  <1>7. ASSUME NEW q \in Runtimes PROVE Linked(q)' /\ Stands(q)'
    <2>1. conn[q] \notin {"accepted", "known"}
      BY <1>0, <1>1 DEF ConnInv
    <2>2. Stands(q) /\ \A t \in Of(q) : t \in M!Threads
      BY ThreadsOf DEF Parted
    <2>3. Stands(q)'
      BY <1>1, <1>4, <2>2 DEF Stands, Active, Of, M!Threads, M!Root, M!Nowhere, M!Domain
    <2> QED
      BY <1>1, <2>1, <2>3 DEF Linked
  <1> QED
    BY <1>6, <1>7 DEF Parted

\* Parted is inductive.
LEMMA PartedStep ==
    ASSUME Partitioning, Orderly, NoRuntime \notin Runtimes, Base, Parted, [M!Next]_(M!vars)
    PROVE  Parted'
  <1>1. ASSUME NEW r \in Runtimes, M!End(r) \/ M!RuntimeError(r) \/ M!SendInitFails(r) PROVE Parted'
    BY <1>1, ProcessEndsParted DEF M!End, M!RuntimeError, M!SendInitFails
  <1>2. CASE UNCHANGED M!vars
    <2>1. Tree'
      BY <1>2, TreeSame DEF Parted, M!vars
    <2>2. \A q \in Runtimes : Linked(q)' /\ Stands(q)'
      BY <1>2, PartedKept DEF M!vars, Answered, Base
    <2> QED
      BY <2>1, <2>2 DEF Parted
  <1> QED
    BY <1>1, <1>2, ConnectParted, SendInitParted, OpenStepParted, WorkerCallParted, SendParted,
       HandlePacketParted, ReapParted, HandleInputParted, HandleOutputParted, HandleCloseParted,
       RestartParted DEF M!Next

-----------------------------------------------------------------------------
(* What the invariants say                                                 *)

\* What Whole says of the directories.
LEMMA WholeSafe ==
    ASSUME ~Partitioning, NoRuntime \notin Runtimes, Base, Whole
    PROVE  M!TypeOK /\ M!CleanedUp
  <1>1. dirs \subseteq M!Paths \ {M!Root}
    BY WholeDirs
  <1>2. \A r \in Runtimes : \A e \in pending[r] : e.id \in 2..seq[r] /\ e.thread[1] = r
    BY DEF Base, CallInv, Link, FutureInv
  <1> QED
    BY <1>1, <1>2 DEF M!TypeOK, Whole, Base, CallInv, CallTypes, Modes, ConnInv

\* What Parted says of the directories.
LEMMA PartedSafe ==
    ASSUME Partitioning, NoRuntime \notin Runtimes, Base, Parted
    PROVE  M!TypeOK /\ M!CleanedUp
  <1>1. ASSUME NEW d \in dirs PROVE d \in M!Paths \ {M!Root}
    <2>1. d \in {"BE", "HRT"} \X (Runtimes \cup {NoRuntime})
      BY <1>1 DEF Parted, Tree
    <2>2. d[1] \in {"BE", "HRT"} /\ d[2] \in Runtimes \cup {NoRuntime} /\ d = <<d[1], d[2]>>
      BY <2>1
    <2>3. d \in M!Paths
      BY <2>2 DEF M!Paths
    <2>4. d[1] # M!Root[1]
      BY <2>2 DEF M!Root
    <2> QED
      BY <2>3, <2>4
  <1>2. \A r \in Runtimes : \A e \in pending[r] : e.id \in 2..seq[r] /\ e.thread[1] = r
    BY DEF Base, CallInv, Link, FutureInv
  <1>3. cwd \in dirs \cup {M!Root, M!Gone} /\ at \in [M!Threads -> dirs \cup {M!Root, M!Nowhere}]
    BY DEF Parted, Tree
  <1>4. M!TypeOK
    BY <1>1, <1>2, <1>3 DEF M!TypeOK, Base, CallInv, CallTypes, Modes, ConnInv
  <1> QED
    BY <1>4 DEF Parted, Tree

\* Both invariants hold at the start.
LEMMA StartSafe ==
    ASSUME NoRuntime \notin Runtimes, M!Init
    PROVE  (~Partitioning => Whole) /\ (Partitioning => Parted)
  <1>1. M!CleanedUp
    BY DEF M!Init, M!CleanedUp, M!Presets, M!Partition
  <1>2. ASSUME ~Partitioning PROVE Whole
    BY <1>1, <1>2 DEF M!Init, Whole, M!Presets
  <1>3. ASSUME Partitioning PROVE Parted
    <2>1. Tree
      BY <1>1, <1>3 DEF M!Init, Tree, M!Presets, M!Partition
    <2>2. ASSUME NEW r \in Runtimes PROVE Linked(r) /\ Stands(r)
      BY ThreadsOf DEF M!Init, Linked, Stands
    <2> QED
      BY <2>1, <2>2 DEF Parted
  <1> QED
    BY <1>2, <1>3

-----------------------------------------------------------------------------
(* The theorems on reservations                                            *)

\* The inductive invariant of the reservations.
RInv == Base /\ (~Partitioning => Whole) /\ (Partitioning => Parted)

\* RInv is an invariant of the specification.
LEMMA RInvariant ==
    ASSUME NoRuntime \notin Runtimes, Partitioning => Orderly
    PROVE  M!Spec => []RInv
  <1>1. M!Init => RInv
    BY BaseStart, StartSafe DEF RInv
  <1>2. RInv /\ [M!Next]_(M!vars) => RInv'
    BY BaseStep, WholeStep, PartedStep DEF RInv
  <1> QED
    BY <1>1, <1>2, PTL DEF M!Spec

\* For any runtimes, threads, faults and restarts, in both builds (with partitions
\* as long as runtimes end in order): when the daemon has closed a runtime's
\* connection, none of its directories is left (MedusadCore::onCloseHandle).
THEOREM ReservationsSafe ==
    ASSUME NoRuntime \notin Runtimes, Partitioning => Orderly
    PROVE  M!Spec => []Reserved
  <1>1. RInv => Reserved
    BY WholeSafe, PartedSafe DEF Reserved, RInv
  <1> QED
    BY <1>1, RInvariant, PTL
=============================================================================
