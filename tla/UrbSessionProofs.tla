-------------------------- MODULE UrbSessionProofs --------------------------
(***************************************************************************)
(* Proofs that UrbSession's safety properties hold for every set of URBs   *)
(* and endpoints and every number of permits.                              *)
(***************************************************************************)
EXTENDS UrbSessionInv, FiniteSetTheorems, SequenceTheorems, TLAPS

\* Every step keeps what the actors know of each other.
CoreInv == CurInv /\ WriterInv /\ FlagInv /\ XferInv /\ UnlinkFinds /\ DrainStopsAll

\* Every step keeps the conjuncts that do not mention the wire or the permits.
LEMMA CoreStep == IInv /\ [Next]_vars => CoreInv'
<1> SUFFICES ASSUME TypeOK, CoreInv, [Next]_vars
             PROVE  CoreInv'
  BY Zenon DEF IInv, CoreInv
<1> USE ConstantsAssumption DEF TypeOK, CoreInv, CurInv, WriterInv, FlagInv,
     XferInv, UnlinkFinds, DrainStopsAll, Busy, Live, Handles, Holders, loopVars,
     flagVars, mapVars, xferVars, sendVars
<1>1. ASSUME NEW u \in Urbs, ReadUnlink(u)
      PROVE  CoreInv'
  BY <1>1 DEF ReadUnlink
<1>2. ASSUME NEW u \in Urbs, NEW e \in DataEps \cup {Ep0}, ReadSubmit(u, e)
      PROVE  CoreInv'
  BY <1>2 DEF ReadSubmit
<1>3. CASE AcquireAndSpawn
  BY <1>3 DEF AcquireAndSpawn
<1>4. CASE InsertInflight
  BY <1>4, Zenon DEF InsertInflight
<1>5. CASE CancelEndpoint
  BY <1>5 DEF CancelEndpoint
<1>6. CASE LockForUnlink
  BY <1>6 DEF LockForUnlink
<1>7. CASE WriteUnlink
  BY <1>7 DEF WriteUnlink
<1>8. CASE WriteUnlinkFails
  BY <1>8 DEF WriteUnlinkFails
<1>9. CASE ReadEnds
  BY <1>9, Zenon DEF ReadEnds
<1>10. CASE DrainInflight
  BY SMTT(30), <1>10, Zenon DEF DrainInflight
<1>11. ASSUME NEW u \in Urbs, TaskStep(u)
      PROVE  CoreInv'
  <2>1. CASE PollFirst(u)
    BY <2>1 DEF PollFirst
  <2>2. CASE JoinTransfer(u)
    BY <2>2 DEF JoinTransfer
  <2>3. CASE CheckCancelled(u)
    BY <2>3 DEF CheckCancelled
  <2>4. CASE AwaitWriter(u)
    BY <2>4 DEF AwaitWriter
  <2>5. CASE LockWriter(u)
    BY <2>5 DEF LockWriter
  <2>6. CASE WritePart(u)
    BY <2>6 DEF WritePart
  <2>7. CASE WriteRest(u)
    <3>1. /\ task[u] \in {"write", "wpart"} /\ task' = [task EXCEPT ![u] = "rm"]
          /\ writer' = NoUrb
          /\ UNCHANGED <<loopVars, flagVars, mapVars, xferVars>>
      BY Zenon, <2>7 DEF WriteRest
    <3> QED BY <3>1
  <2>8. CASE WriteFails(u)
    BY <2>8 DEF WriteFails
  <2>9. CASE FinishTask(u)
    BY <2>9 DEF FinishTask
  <2>10. CASE DropTask(u)
    BY <2>10 DEF DropTask, Parked
  <2> QED BY Zenon, <1>11, <2>1, <2>2, <2>3, <2>4, <2>5, <2>6, <2>7, <2>8, <2>9, <2>10 DEF TaskStep
<1>12. ASSUME NEW u \in Urbs, BlkStep(u)
      PROVE  CoreInv'
  <2>1. ASSUME NEW S \in SUBSET DataEps, StartControl(u, S)
        PROVE  CoreInv'
    BY <2>1 DEF StartControl
  <2>2. CASE EnsureFails(u)
    BY <2>2 DEF EnsureFails
  <2>3. CASE EnsureEndpoint(u)
    BY <2>3 DEF EnsureEndpoint
  <2>4. CASE StartData(u)
    BY <2>4 DEF StartData, HandleFree
  <2>5. ASSUME NEW o \in Outcomes, EndTransfer(u, o)
        PROVE  CoreInv'
    BY <2>5 DEF EndTransfer, Unlock
  <2> QED BY Zenon, <1>12, <2>1, <2>2, <2>3, <2>4, <2>5 DEF BlkStep
<1>13. CASE UNCHANGED vars
  BY <1>13 DEF vars
<1> QED BY Zenon, <1>1, <1>2, <1>3, <1>4, <1>5, <1>6, <1>7, <1>8, <1>9, <1>10, <1>11,
     <1>12, <1>13 DEF Next, LoopStep, Finished

\* Every step keeps transfers whole: whoever cancels on a handle has its mutex,
\* and a closure that transfers data has it too.
LEMMA UncutStep == IInv /\ [Next]_vars => UncutInv'
<1> SUFFICES ASSUME TypeOK, XferInv, UncutInv, [Next]_vars
             PROVE  UncutInv'
  BY Zenon DEF IInv
<1> USE ConstantsAssumption DEF TypeOK, UncutInv, Handles, loopVars, xferVars
<1>1. ASSUME NEW u \in Urbs, ReadUnlink(u)
      PROVE  UncutInv'
  BY <1>1 DEF ReadUnlink
<1>2. ASSUME NEW u \in Urbs, NEW e \in DataEps \cup {Ep0}, ReadSubmit(u, e)
      PROVE  UncutInv'
  BY <1>2 DEF ReadSubmit, XferInv
<1>3. CASE CancelEndpoint
  <2>1. ASSUME NEW v \in Urbs PROVE ~(blk[v] = "xfer" /\ hnd[v] = target)
    <3>1. target \in Urbs /\ epLock[target] = NoUrb
      BY <1>3, Zenon DEF CancelEndpoint, HandleFree
    <3> QED BY <3>1 DEF XferInv
  <2>2. \A v \in Urbs : outcome'[v] = outcome[v]
    BY <1>3, <2>1, Zenon DEF CancelEndpoint
  <2>3. loop' # "cancel" /\ blk' = blk /\ ep' = ep /\ hnd' = hnd
    BY <1>3, Zenon DEF CancelEndpoint
  <2> QED BY <2>2, <2>3
<1>4. ASSUME NEW u \in Urbs, PollFirst(u)
      PROVE  UncutInv'
  BY <1>4 DEF PollFirst, XferInv
<1>5. ASSUME NEW u \in Urbs, BlkStep(u)
      PROVE  UncutInv'
  <2>1. ASSUME NEW S \in SUBSET DataEps, StartControl(u, S)
        PROVE  UncutInv'
    BY <2>1 DEF StartControl
  <2>2. CASE EnsureFails(u)
    BY <2>2 DEF EnsureFails
  <2>3. CASE EnsureEndpoint(u)
    BY <2>3 DEF EnsureEndpoint
  <2>4. CASE StartData(u)
    BY <2>4 DEF StartData
  <2>5. ASSUME NEW o \in Outcomes, EndTransfer(u, o)
        PROVE  UncutInv'
    BY <2>5 DEF EndTransfer
  <2> QED BY Zenon, <1>5, <2>1, <2>2, <2>3, <2>4, <2>5 DEF BlkStep
<1>6. CASE loop' # "cancel" /\ UNCHANGED xferVars
  BY <1>6
<1>7. CASE UNCHANGED <<loopVars, xferVars>>
  BY <1>7
<1>8. CASE AcquireAndSpawn \/ InsertInflight \/ LockForUnlink \/ WriteUnlink
           \/ WriteUnlinkFails \/ ReadEnds \/ DrainInflight
  BY <1>6, <1>8, Zenon DEF AcquireAndSpawn, InsertInflight, LockForUnlink, WriteUnlink,
     WriteUnlinkFails, ReadEnds, DrainInflight
<1>9. ASSUME NEW u \in Urbs, TaskStep(u), ~PollFirst(u)
      PROVE  UncutInv'
  <2>1. UNCHANGED <<loopVars, xferVars>>
    BY <1>9, ZenonT(40) DEF TaskStep, JoinTransfer, CheckCancelled, AwaitWriter, LockWriter,
       WritePart, WriteRest, WriteFails, FinishTask, DropTask
  <2> QED BY <1>7, <2>1, Zenon
<1>10. CASE UNCHANGED vars
  BY <1>7, <1>10, Zenon DEF vars
<1> QED BY Zenon, <1>1, <1>2, <1>3, <1>4, <1>5, <1>8, <1>9, <1>10 DEF Next, LoopStep, Finished

\* A task that starts takes one permit and a task that ends returns it.
PermitsInv == permits \in 0..MAX_INFLIGHT_URBS /\ PermitsConserved

\* A step that keeps the live tasks and the permits keeps their sum.
LEMMA LiveUnchanged ==
    ASSUME TypeOK, PermitsInv, permits' = permits,
           \A u \in Urbs : Live(u)' = Live(u)
    PROVE  PermitsInv'
BY Zenon DEF PermitsInv, PermitsConserved

\* Spawning a task for a permit keeps it, too...
LEMMA LiveGains ==
    ASSUME TypeOK, PermitsInv, permits > 0, permits' = permits - 1,
           NEW u \in Urbs, ~Live(u), Live(u)',
           \A v \in Urbs \ {u} : Live(v)' = Live(v)
    PROVE  PermitsInv'
<1> DEFINE L == {v \in Urbs : Live(v)}
           M == {v \in Urbs : Live(v)'}
<1>1. IsFiniteSet(L) /\ M = L \cup {u} /\ u \notin L
  BY ConstantsAssumption, FS_Subset, Zenon
<1>2. permits + Cardinality(L) = MAX_INFLIGHT_URBS
  BY Zenon DEF PermitsInv, PermitsConserved
<1>3. PermitsInv' <=> permits' \in 0..MAX_INFLIGHT_URBS
                      /\ permits' + Cardinality(M) = MAX_INFLIGHT_URBS
  BY Zenon DEF PermitsInv, PermitsConserved
<1> HIDE DEF L, M
<1>4. Cardinality(M) = Cardinality(L) + 1 /\ Cardinality(L) \in Nat
  BY <1>1, FS_AddElement, FS_CardinalityType, Zenon
<1> QED BY <1>2, <1>3, <1>4, ConstantsAssumption DEF PermitsInv

\* ... and so does ending a task and giving its permit back.
LEMMA LiveLoses ==
    ASSUME TypeOK, PermitsInv, permits' = permits + 1,
           NEW u \in Urbs, Live(u), ~Live(u)',
           \A v \in Urbs \ {u} : Live(v)' = Live(v)
    PROVE  PermitsInv'
<1> DEFINE L == {v \in Urbs : Live(v)}
           M == {v \in Urbs : Live(v)'}
<1>1. IsFiniteSet(L) /\ IsFiniteSet(M) /\ M = L \ {u} /\ u \in L
  BY ConstantsAssumption, FS_Subset, Zenon
<1>2. permits + Cardinality(L) = MAX_INFLIGHT_URBS
  BY Zenon DEF PermitsInv, PermitsConserved
<1>3. PermitsInv' <=> permits' \in 0..MAX_INFLIGHT_URBS
                      /\ permits' + Cardinality(M) = MAX_INFLIGHT_URBS
  BY Zenon DEF PermitsInv, PermitsConserved
<1> HIDE DEF L, M
<1>4. /\ Cardinality(M) = Cardinality(L) - 1
      /\ Cardinality(L) \in Nat
      /\ Cardinality(M) \in Nat
  BY <1>1, FS_RemoveElement, FS_CardinalityType, Zenon
<1> QED BY <1>2, <1>3, <1>4, ConstantsAssumption DEF PermitsInv

\* Every step keeps the permits in balance.
LEMMA PermitsStep == IInv /\ [Next]_vars => PermitsInv'
<1> SUFFICES ASSUME TypeOK, CurInv, PermitsInv, [Next]_vars
             PROVE  PermitsInv'
  BY Zenon DEF IInv, TypeOK, PermitsInv
<1>1. CASE AcquireAndSpawn
  BY <1>1, LiveGains, Zenon DEF AcquireAndSpawn, Live, TypeOK, CurInv, Busy
<1>2. ASSUME NEW u \in Urbs, FinishTask(u) \/ DropTask(u)
      PROVE  PermitsInv'
  BY <1>2, LiveLoses, Zenon DEF FinishTask, DropTask, Parked, Live, TypeOK
<1>3. CASE permits' = permits /\ \A u \in Urbs : Live(u)' = Live(u)
  BY SMTT(30), <1>3, LiveUnchanged, Zenon
<1>4. CASE LoopStep /\ ~AcquireAndSpawn
  BY <1>4, <1>3, Zenon DEF LoopStep, ReadUnlink, ReadSubmit, InsertInflight, CancelEndpoint,
     LockForUnlink, WriteUnlink, WriteUnlinkFails, ReadEnds, DrainInflight, Live
<1>5. ASSUME NEW u \in Urbs, TaskStep(u), ~FinishTask(u), ~DropTask(u)
      PROVE  PermitsInv'
  <2>1. permits' = permits /\ Live(u) /\ \E s \in TaskStates \ {"none", "done", "dropped"} :
                                            task' = [task EXCEPT ![u] = s]
    BY Zenon, <1>5 DEF TaskStep, PollFirst, JoinTransfer, CheckCancelled, AwaitWriter, LockWriter,
       WritePart, WriteRest, WriteFails, Live, TaskStates
  <2> QED BY <2>1, <1>3 DEF Live, TypeOK
<1>6. ASSUME NEW u \in Urbs, BlkStep(u)
      PROVE  PermitsInv'
  BY <1>6, <1>3, Zenon DEF BlkStep, StartControl, EnsureFails, EnsureEndpoint, StartData,
     EndTransfer, Live
<1>7. CASE UNCHANGED vars
  BY <1>7, <1>3, Zenon DEF vars, Live
<1> QED BY <1>1, <1>2, <1>4, <1>5, <1>6, <1>7 DEF Next, LoopStep, Finished

\* What run_submit and handle_cmd_unlink write are well-formed messages.
LEMMA MessageType ==
    ASSUME TypeOK, NEW u \in Urbs, NEW w \in BOOLEAN
    PROVE  RetSubmit(u, w) \in Message /\ RetUnlink(u) \in Message
<1>1. StatusOf(outcome[u]) \in Statuses
  BY Zenon DEF TypeOK, Outcomes, Statuses, StatusOf
<1> QED BY <1>1 DEF RetSubmit, RetUnlink, Message

\* Appending a message keeps the wire a sequence of messages.
LEMMA WireAppend ==
    ASSUME TypeOK, NEW m \in Message, wire' = Append(wire, m)
    PROVE  /\ wire' \in Seq(Message)
           /\ Len(wire') = Len(wire) + 1
           /\ wire'[Len(wire) + 1] = m
           /\ \A i \in 1..Len(wire) : wire'[i] = wire[i]
<1>1. wire \in Seq(Message)
  BY Zenon DEF TypeOK
<1> QED BY <1>1, AppendProperties

\* Completing the last message keeps the wire a sequence of messages.
LEMMA WireComplete ==
    ASSUME TypeOK, Len(wire) > 0, NEW m \in Message,
           wire' = [wire EXCEPT ![Len(wire)] = m]
    PROVE  /\ wire' \in Seq(Message)
           /\ Len(wire') = Len(wire)
           /\ wire'[Len(wire)] = m
           /\ \A i \in 1..Len(wire) : i # Len(wire) => wire'[i] = wire[i]
BY SMTT(30), ExceptSeq, Zenon DEF TypeOK

\* Every step keeps the types.
LEMMA TypeStep == IInv /\ [Next]_vars => TypeOK'
<1> SUFFICES ASSUME TypeOK, CurInv, WireInv, PermitsInv', [Next]_vars
             PROVE  TypeOK'
  BY PermitsStep, Zenon DEF IInv
<1> USE ConstantsAssumption DEF TypeOK, PermitsInv, Handles, Holders, CurInv, Busy,
     loopVars, flagVars, mapVars, xferVars, sendVars, LoopStates, TaskStates,
     BlkStates, Outcomes
<1>1. ASSUME NEW u \in Urbs, ReadUnlink(u)
      PROVE  TypeOK'
  BY <1>1, Zenon DEF ReadUnlink
<1>2. ASSUME NEW u \in Urbs, NEW e \in DataEps \cup {Ep0}, ReadSubmit(u, e)
      PROVE  TypeOK'
  BY <1>2, Zenon DEF ReadSubmit
<1>3. CASE AcquireAndSpawn
  BY <1>3, Zenon DEF AcquireAndSpawn
<1>4. CASE InsertInflight
  BY <1>4, Zenon DEF InsertInflight
<1>5. CASE CancelEndpoint
  BY Zenon, <1>5 DEF CancelEndpoint
<1>6. CASE LockForUnlink
  BY <1>6, Zenon DEF LockForUnlink
<1>7. CASE WriteUnlink
  <2>1. wire' \in Seq(Message)
    BY <1>7, MessageType, WireAppend, Zenon DEF WriteUnlink
  <2> QED
    BY <1>7, <2>1, Zenon DEF WriteUnlink
<1>8. CASE WriteUnlinkFails
  BY <1>8, Zenon DEF WriteUnlinkFails
<1>9. CASE ReadEnds
  BY <1>9, Zenon DEF ReadEnds
<1>10. CASE DrainInflight
  BY SMTT(30), <1>10, Zenon DEF DrainInflight
<1>11. ASSUME NEW u \in Urbs, TaskStep(u)
      PROVE  TypeOK'
  <2>1. CASE PollFirst(u)
    BY <2>1 DEF PollFirst
  <2>2. CASE JoinTransfer(u)
    BY <2>2 DEF JoinTransfer
  <2>3. CASE CheckCancelled(u)
    BY <2>3 DEF CheckCancelled
  <2>4. CASE AwaitWriter(u)
    BY <2>4, Zenon DEF AwaitWriter
  <2>5. CASE LockWriter(u)
    BY <2>5, Zenon DEF LockWriter
  <2>6. CASE WritePart(u)
    <3>1. wire' \in Seq(Message)
      BY ZenonT(40), <2>6, MessageType, WireAppend DEF WritePart
    <3> QED
      BY Zenon, <2>6, <3>1 DEF WritePart
  <2>7. CASE WriteRest(u)
    <3>1. wire' \in Seq(Message)
      BY Zenon, <2>7, MessageType, WireAppend, WireComplete DEF WriteRest, WireInv
    <3> QED
      BY <2>7, <3>1, Zenon DEF WriteRest
  <2>8. CASE WriteFails(u)
    BY <2>8, Zenon DEF WriteFails
  <2>9. CASE FinishTask(u)
    BY <2>9, Zenon DEF FinishTask
  <2>10. CASE DropTask(u)
    BY SMTT(30), <2>10, Zenon DEF DropTask
  <2> QED BY Zenon, <1>11, <2>1, <2>2, <2>3, <2>4, <2>5, <2>6, <2>7, <2>8, <2>9, <2>10 DEF TaskStep
<1>12. ASSUME NEW u \in Urbs, BlkStep(u)
      PROVE  TypeOK'
  <2>1. ASSUME NEW S \in SUBSET DataEps, StartControl(u, S)
        PROVE  TypeOK'
    BY <2>1 DEF StartControl
  <2>2. CASE EnsureFails(u)
    BY <2>2 DEF EnsureFails
  <2>3. CASE EnsureEndpoint(u)
    BY <2>3 DEF EnsureEndpoint
  <2>4. CASE StartData(u)
    BY ZenonT(40), <2>4 DEF StartData
  <2>5. ASSUME NEW o \in Outcomes, EndTransfer(u, o)
        PROVE  TypeOK'
    BY <2>5 DEF EndTransfer, Unlock
  <2> QED BY Zenon, <1>12, <2>1, <2>2, <2>3, <2>4, <2>5 DEF BlkStep
<1>13. CASE UNCHANGED vars
  BY <1>13 DEF vars
<1> QED BY Zenon, <1>1, <1>2, <1>3, <1>4, <1>5, <1>6, <1>7, <1>8, <1>9, <1>10, <1>11,
     <1>12, <1>13 DEF Next, LoopStep, Finished

\* What any step may do to a URB, its flag and the socket; `quiet' steps, which
\* write nothing, in particular.
Frame ==
    /\ cancelled \subseteq cancelled'
    /\ sock = "broken" => sock' = "broken"
    /\ \A u \in Urbs :
         /\ blk[u] = "done" => blk'[u] = "done" /\ outcome'[u] = outcome[u]
         /\ task[u] \in {"done", "dropped"} => task'[u] = task[u]
         /\ task[u] = "rm" => task'[u] \in {"rm", "done"}
         /\ task'[u] \in {"done", "dropped"} => task[u] \in {task'[u], "rm"} \/ u \in cancelled
         /\ task'[u] = "wpart" => task[u] = "wpart" \/ WritePart(u)
         /\ task[u] = "wpart" => \/ task'[u] \in {"wpart", "dropped"} \/ WriteRest(u)
                                 \/ task'[u] = "rm" /\ sock' = "broken"
         /\ task'[u] = "rm" => \/ task[u] = "rm" \/ WriteRest(u)
                               \/ u \in cancelled \/ sock' = "broken"
    /\ loop' \in {"cancel", "reply", "write"} =>
         /\ cur' \in Urbs
         /\ \/ loop \in {"cancel", "reply", "write"} /\ cur' = cur
            \/ cur' \in cancelled' \/ task[cur'] \in {"done", "dropped"}

\* Only a RET_UNLINK and the two halves of a RET_SUBMIT reach the wire.
Writes == WriteUnlink \/ \E u \in Urbs : WritePart(u) \/ WriteRest(u)

\* Every step obeys Frame.
LEMMA FrameStep == IInv /\ [Next]_vars => Frame
<1> SUFFICES ASSUME TypeOK, CoreInv, [Next]_vars
             PROVE  Frame
  BY SMTT(30), Zenon DEF IInv, CoreInv
<1> USE ConstantsAssumption DEF TypeOK, CoreInv, CurInv, FlagInv, XferInv,
     UnlinkFinds, Live, Busy, Frame, loopVars, flagVars, mapVars, xferVars, sendVars
<1>1. ASSUME NEW u \in Urbs, ReadUnlink(u)
      PROVE  Frame
  BY Zenon, <1>1 DEF ReadUnlink
<1>2. ASSUME NEW u \in Urbs, NEW e \in DataEps \cup {Ep0}, ReadSubmit(u, e)
      PROVE  Frame
  BY <1>2, Zenon DEF ReadSubmit
<1>3. CASE AcquireAndSpawn
  BY <1>3 DEF AcquireAndSpawn
<1>4. CASE InsertInflight
  BY <1>4, Zenon DEF InsertInflight
<1>5. CASE CancelEndpoint
  BY <1>5, Zenon DEF CancelEndpoint
<1>6. CASE LockForUnlink
  BY <1>6, Zenon DEF LockForUnlink
<1>7. CASE WriteUnlink
  BY <1>7, Zenon DEF WriteUnlink
<1>8. CASE WriteUnlinkFails
  BY <1>8, Zenon DEF WriteUnlinkFails
<1>9. CASE ReadEnds
  BY <1>9, Zenon DEF ReadEnds
<1>10. CASE DrainInflight
  BY SMTT(30), <1>10, Zenon DEF DrainInflight
<1>11. ASSUME NEW u \in Urbs, TaskStep(u)
      PROVE  Frame
  <2>1. CASE PollFirst(u)
    BY SMTT(30), <2>1, Zenon DEF PollFirst
  <2>2. CASE JoinTransfer(u)
    BY <2>2 DEF JoinTransfer
  <2>3. CASE CheckCancelled(u)
    BY SMTT(30), <2>3, Zenon DEF CheckCancelled
  <2>4. CASE AwaitWriter(u)
    BY SMTT(30), <2>4 DEF AwaitWriter
  <2>5. CASE LockWriter(u)
    BY <2>5 DEF LockWriter
  <2>6. CASE WritePart(u)
    <3>1. /\ task' = [task EXCEPT ![u] = "wpart"]
          /\ task[u] = "write"
          /\ UNCHANGED <<loopVars, sock, flagVars, xferVars>>
      BY SMTT(30), <2>6, Zenon DEF WritePart
    <3> QED BY <2>6, <3>1
  <2>7. CASE WriteRest(u)
    <3>1. /\ task' = [task EXCEPT ![u] = "rm"]
          /\ task[u] \in {"write", "wpart"}
          /\ UNCHANGED <<loopVars, sock, flagVars, xferVars>>
      BY Zenon, <2>7 DEF WriteRest
    <3> QED BY SMTT(30), <2>7, <3>1
  <2>8. CASE WriteFails(u)
    BY <2>8 DEF WriteFails
  <2>9. CASE FinishTask(u)
    BY <2>9 DEF FinishTask
  <2>10. CASE DropTask(u)
    BY SMTT(30), <2>10, Zenon DEF DropTask, Parked
  <2> QED BY Zenon, <1>11, <2>1, <2>2, <2>3, <2>4, <2>5, <2>6, <2>7, <2>8, <2>9, <2>10 DEF TaskStep
<1>12. ASSUME NEW u \in Urbs, BlkStep(u)
      PROVE  Frame
  <2>1. ASSUME NEW S \in SUBSET DataEps, StartControl(u, S)
        PROVE  Frame
    BY SMTT(30), <2>1, Zenon DEF StartControl
  <2>2. CASE EnsureFails(u)
    BY SMTT(30), <2>2, Zenon DEF EnsureFails
  <2>3. CASE EnsureEndpoint(u)
    BY SMTT(30), <2>3, Zenon DEF EnsureEndpoint
  <2>4. CASE StartData(u)
    BY SMTT(30), <2>4, Zenon DEF StartData, HandleFree
  <2>5. ASSUME NEW o \in Outcomes, EndTransfer(u, o)
        PROVE  Frame
    BY SMTT(30), <2>5, Zenon DEF EndTransfer, Unlock
  <2> QED BY ZenonT(40), <1>12, <2>1, <2>2, <2>3, <2>4, <2>5 DEF BlkStep
<1>13. CASE UNCHANGED vars
  BY Zenon, <1>13 DEF vars
<1> QED BY Zenon, <1>1, <1>2, <1>3, <1>4, <1>5, <1>6, <1>7, <1>8, <1>9, <1>10, <1>11,
     <1>12, <1>13 DEF Next, LoopStep, Finished

\* A step that is not a write leaves the wire alone.
LEMMA QuietStep == IInv /\ [Next]_vars => wire' = wire \/ Writes
<1> SUFFICES ASSUME [Next]_vars
             PROVE  wire' = wire \/ Writes
  BY SMTT(30), Zenon DEF IInv
<1> USE  DEF loopVars, flagVars, mapVars, xferVars, sendVars, Writes
<1>1. ASSUME NEW u \in Urbs, ReadUnlink(u)
      PROVE  wire' = wire \/ Writes
  BY Zenon, <1>1 DEF ReadUnlink
<1>2. ASSUME NEW u \in Urbs, NEW e \in DataEps \cup {Ep0}, ReadSubmit(u, e)
      PROVE  wire' = wire \/ Writes
  BY <1>2, Zenon DEF ReadSubmit
<1>3. CASE AcquireAndSpawn
  BY <1>3, Zenon DEF AcquireAndSpawn
<1>4. CASE InsertInflight
  BY <1>4, Zenon DEF InsertInflight
<1>5. CASE CancelEndpoint
  BY <1>5, Zenon DEF CancelEndpoint
<1>6. CASE LockForUnlink
  BY <1>6, Zenon DEF LockForUnlink
<1>7. CASE WriteUnlink
  BY <1>7, Zenon DEF WriteUnlink
<1>8. CASE WriteUnlinkFails
  BY <1>8, Zenon DEF WriteUnlinkFails
<1>9. CASE ReadEnds
  BY <1>9, Zenon DEF ReadEnds
<1>10. CASE DrainInflight
  BY <1>10, Zenon DEF DrainInflight
<1>11. ASSUME NEW u \in Urbs, TaskStep(u)
      PROVE  wire' = wire \/ Writes
  <2>1. CASE PollFirst(u)
    BY <2>1, Zenon DEF PollFirst
  <2>2. CASE JoinTransfer(u)
    BY <2>2, Zenon DEF JoinTransfer
  <2>3. CASE CheckCancelled(u)
    BY <2>3, Zenon DEF CheckCancelled
  <2>4. CASE AwaitWriter(u)
    BY <2>4, Zenon DEF AwaitWriter
  <2>5. CASE LockWriter(u)
    BY <2>5, Zenon DEF LockWriter
  <2>6. CASE WritePart(u)
    BY Zenon, <2>6 DEF WritePart
  <2>7. CASE WriteRest(u)
    BY Zenon, <2>7 DEF WriteRest
  <2>8. CASE WriteFails(u)
    BY <2>8, Zenon DEF WriteFails
  <2>9. CASE FinishTask(u)
    BY <2>9, Zenon DEF FinishTask
  <2>10. CASE DropTask(u)
    BY <2>10, Zenon DEF DropTask, Parked
  <2> QED BY SMTT(30), <1>11, <2>1, <2>2, <2>3, <2>4, <2>5, <2>6, <2>7, <2>8, <2>9, <2>10 DEF TaskStep
<1>12. ASSUME NEW u \in Urbs, BlkStep(u)
      PROVE  wire' = wire \/ Writes
  <2>1. ASSUME NEW S \in SUBSET DataEps, StartControl(u, S)
        PROVE  wire' = wire \/ Writes
    BY <2>1, Zenon DEF StartControl
  <2>2. CASE EnsureFails(u)
    BY <2>2, Zenon DEF EnsureFails
  <2>3. CASE EnsureEndpoint(u)
    BY <2>3, Zenon DEF EnsureEndpoint
  <2>4. CASE StartData(u)
    BY <2>4, Zenon DEF StartData, HandleFree
  <2>5. ASSUME NEW o \in Outcomes, EndTransfer(u, o)
        PROVE  wire' = wire \/ Writes
    BY <2>5, Zenon DEF EndTransfer, Unlock
  <2> QED BY Zenon, <1>12, <2>1, <2>2, <2>3, <2>4, <2>5 DEF BlkStep
<1>13. CASE UNCHANGED vars
  BY <1>13, Zenon DEF vars
<1> QED BY SMTT(30), <1>1, <1>2, <1>3, <1>4, <1>5, <1>6, <1>7, <1>8, <1>9, <1>10, <1>11,
     <1>12, <1>13 DEF Next, LoopStep, Finished

\* Every message names a URB.
LEMMA WireUrb ==
    ASSUME TypeOK, NEW i \in 1..Len(wire)
    PROVE  wire[i] \in Message /\ wire[i].urb \in Urbs
<1>1. wire \in Seq(Message)
  BY Zenon DEF TypeOK
<1>2. wire[i] \in Message
  BY <1>1, ElementOfSeq, Zenon
<1> QED BY Zenon, <1>2 DEF Message

\* The positions of a wire that is one message longer.
LEMMA OneMore ==
    ASSUME NEW n \in Nat
    PROVE  /\ n + 1 > 0
           /\ n + 1 \in 1..(n + 1)
           /\ 1..n \subseteq 1..(n + 1)
           /\ \A i \in 1..(n + 1) : i \in 1..n \/ i = n + 1
OBVIOUS

\* What an appended message does to the replies on the wire.
LEMMA AppendReplies ==
    ASSUME TypeOK, NEW m \in Message, wire' = Append(wire, m)
    PROVE  /\ \A v \in Urbs : RepliesTo(v)' = RepliesTo(v) \cup
                (IF m.kind = "RET_SUBMIT" /\ m.urb = v THEN {Len(wire) + 1} ELSE {})
           /\ \A v \in Urbs : Answered(v) => Answered(v)'
<1>1. /\ Len(wire) \in Nat
      /\ Len(wire') = Len(wire) + 1
      /\ wire'[Len(wire) + 1] = m
      /\ \A i \in 1..Len(wire) : wire'[i] = wire[i]
  <2>1. wire \in Seq(Message)
    BY Zenon DEF TypeOK
  <2>2. Len(wire) \in Nat
    BY Zenon, <2>1, LenProperties
  <2> QED BY Zenon, <2>2, WireAppend
<1>2. ASSUME NEW v \in Urbs
      PROVE  RepliesTo(v)' = RepliesTo(v) \cup
                (IF m.kind = "RET_SUBMIT" /\ m.urb = v THEN {Len(wire) + 1} ELSE {})
  <2>1. /\ Len(wire) + 1 \in 1..(Len(wire) + 1)
        /\ 1..Len(wire) \subseteq 1..(Len(wire) + 1)
        /\ \A i \in 1..(Len(wire) + 1) : i \in 1..Len(wire) \/ i = Len(wire) + 1
    BY <1>1, OneMore, Zenon
  <2>2. ASSUME NEW i \in 1..Len(wire)
        PROVE  i \in RepliesTo(v)' <=> i \in RepliesTo(v)
    BY <1>1, <2>1, Zenon DEF RepliesTo
  <2>3. Len(wire) + 1 \in RepliesTo(v)' <=> m.kind = "RET_SUBMIT" /\ m.urb = v
    BY <1>1, <2>1, Zenon DEF RepliesTo
  <2>4. /\ RepliesTo(v) \subseteq 1..Len(wire)
        /\ RepliesTo(v)' \subseteq 1..(Len(wire) + 1)
    BY <1>1, Zenon DEF RepliesTo
  <2> QED BY <2>1, <2>2, <2>3, <2>4
<1>3. ASSUME NEW v \in Urbs, Answered(v)
      PROVE  Answered(v)'
  BY <1>1, <1>2, <1>3 DEF Answered, RepliesTo
<1> QED BY SMTT(30), <1>2, <1>3

\* Completing the message at the end of the wire changes only whether it is
\* whole.
LEMMA CompleteReplies ==
    ASSUME NEW n \in Nat \ {0}, n = Len(wire), n = Len(wire'), NEW u \in Urbs,
           wire[n].kind = "RET_SUBMIT", wire[n].urb = u, wire[n].whole = FALSE,
           wire'[n].kind = "RET_SUBMIT", wire'[n].urb = u, wire'[n].whole = TRUE,
           \A i \in 1..n : i # n => wire'[i] = wire[i]
    PROVE  /\ \A v \in Urbs : RepliesTo(v)' = RepliesTo(v)
           /\ \A v \in Urbs : Answered(v) => Answered(v)'
           /\ Answered(u)'
           /\ n \in RepliesTo(u)
<1>2. ASSUME NEW v \in Urbs
      PROVE  RepliesTo(v)' = RepliesTo(v)
  BY Zenon DEF RepliesTo
<1>3. n \in RepliesTo(u)
  BY DEF RepliesTo
<1>4. Answered(u)'
  BY <1>2, <1>3, Zenon DEF Answered
<1>5. ASSUME NEW v \in Urbs, Answered(v)
      PROVE  Answered(v)'
  <2>1. PICK i \in RepliesTo(v) : wire[i].whole
    BY <1>5, Zenon DEF Answered
  <2>2. i \in 1..n /\ i # n
    BY <2>1, Zenon DEF RepliesTo
  <2> QED BY <1>2, <2>1, <2>2 DEF Answered
<1> QED BY SMTT(30), <1>2, <1>3, <1>4, <1>5

\* The invariants about what is on the wire.
ReplyInv == WireInv /\ NothingLost /\ UnlinkTruthful /\ FramesIntact /\ ReplyMatchesTransfer

\* A step that writes nothing keeps them.
LEMMA QuietReplies ==
    ASSUME IInv, CoreInv', Frame, wire' = wire, ~Writes
    PROVE  ReplyInv'
<1> USE DEF IInv
<1>1. \A u \in Urbs : ~WritePart(u) /\ ~WriteRest(u)
  BY SMTT(30), Zenon DEF Writes
<1>2. ASSUME NEW u \in Urbs
      PROVE  /\ RepliesTo(u)' = RepliesTo(u)
             /\ Answered(u)' = Answered(u)
             /\ Settled(u) => Settled(u)'
  BY Zenon DEF RepliesTo, Answered, Settled, Frame
<1>3. WireInv'
  <2>1. ASSUME NEW u \in Urbs, RepliesTo(u)' # {}
        PROVE  task'[u] \in {"wpart", "rm", "done", "dropped"}
    BY Zenon, <1>1, <1>2, <2>1 DEF WireInv, Frame
  <2>2. ASSUME NEW u \in Urbs, task'[u] = "wpart"
        PROVE  Len(wire') > 0 /\ wire'[Len(wire')] = RetSubmit(u, FALSE)'
    <3>1. task[u] = "wpart" /\ outcome'[u] = outcome[u]
      BY Zenon, <1>1, <2>2 DEF Frame, XferInv
    <3>2. RetSubmit(u, FALSE)' = RetSubmit(u, FALSE)
      BY <3>1, Zenon DEF RetSubmit
    <3>3. Len(wire) > 0 /\ wire[Len(wire)] = RetSubmit(u, FALSE)
      BY ZenonT(40), <3>1 DEF WireInv
    <3> QED BY ZenonT(40), <3>2, <3>3
  <2>3. ASSUME NEW u \in Urbs, task'[u] = "rm"
        PROVE  Settled(u)'
    <3>1. task[u] = "rm" \/ u \in cancelled \/ sock' = "broken"
      BY Zenon, <1>1, <2>3 DEF Frame
    <3>2. task[u] = "rm" => Settled(u)
      BY Zenon DEF WireInv
    <3>3. u \in cancelled => u \in cancelled'
      BY Zenon DEF Frame
    <3>4. u \in cancelled' \/ sock' = "broken" => Settled(u)'
      BY Zenon DEF Settled
    <3>5. Settled(u) => Settled(u)'
      BY Zenon, <1>2
    <3> QED BY Zenon, <3>1, <3>2, <3>3, <3>4, <3>5
  <2>4. ASSUME loop' \in {"cancel", "reply", "write"}
        PROVE  Settled(cur)'
    <3>1. PICK c \in Urbs : /\ c = cur'
                            /\ \/ loop \in {"cancel", "reply", "write"} /\ c = cur
                               \/ c \in cancelled' \/ task[c] \in {"done", "dropped"}
      BY Zenon, <2>4 DEF Frame
    <3>2. loop \in {"cancel", "reply", "write"} /\ c = cur => Settled(c)
      BY Zenon DEF WireInv, Settled, Answered, RepliesTo
    <3>3. task[c] \in {"done", "dropped"} => Settled(c)
      BY Zenon DEF NothingLost, Settled
    <3>4. c \in cancelled' => Settled(c)'
      BY Zenon DEF Settled
    <3>5. Settled(c) => Settled(c)'
      BY Zenon, <1>2
    <3>6. Settled(c)'
      BY Zenon, <3>1, <3>2, <3>3, <3>4, <3>5
    <3> QED BY Zenon, <3>1, <3>6 DEF Settled, Answered, RepliesTo
  <2> QED BY ZenonT(40), <2>1, <2>2, <2>3, <2>4 DEF WireInv
<1>4. NothingLost'
  <2>1. ASSUME NEW u \in Urbs, task'[u] \in {"done", "dropped"}
        PROVE  Settled(u)'
    <3>1. task[u] \in {"done", "dropped", "rm"} \/ u \in cancelled
      BY Zenon, <2>1 DEF Frame
    <3>2. task[u] = "rm" => Settled(u)
      BY Zenon DEF WireInv
    <3>3. task[u] \in {"done", "dropped"} => Settled(u)
      BY Zenon DEF NothingLost, Settled
    <3>4. u \in cancelled => Settled(u)
      BY Zenon DEF Settled
    <3>5. Settled(u) => Settled(u)'
      BY Zenon, <1>2
    <3> QED BY Zenon, <3>1, <3>2, <3>3, <3>4, <3>5
  <2> QED BY <2>1 DEF NothingLost, Settled
<1>5. UnlinkTruthful'
  BY Zenon DEF UnlinkTruthful, RepliesTo, Frame
<1>6. FramesIntact'
  <2>1. \A u \in Urbs : \A i, j \in RepliesTo(u)' : i = j
    BY Zenon, <1>2 DEF FramesIntact
  <2>2. ASSUME NEW i \in 1..Len(wire)
        PROVE  \/ wire[i].whole
               \/ i = Len(wire) /\ task'[wire[i].urb] = "wpart" /\ writer' = wire[i].urb
               \/ task'[wire[i].urb] = "dropped"
               \/ sock' = "broken"
    <3>1. wire[i].urb \in Urbs
      BY WireUrb, Zenon
    <3> QED BY Zenon, <1>1, <3>1 DEF FramesIntact, Frame, CoreInv, WriterInv
  <2> QED BY Zenon, <2>1, <2>2 DEF FramesIntact
<1>7. ReplyMatchesTransfer'
  <2>1. \A i \in 1..Len(wire) : wire[i].urb \in Urbs
    BY SMTT(30), WireUrb, Zenon
  <2>2. ASSUME NEW i \in 1..Len(wire), wire[i].kind = "RET_SUBMIT"
        PROVE  /\ blk'[wire[i].urb] = "done"
               /\ outcome'[wire[i].urb] = outcome[wire[i].urb]
    BY Zenon, <2>1, <2>2 DEF ReplyMatchesTransfer, Frame
  <2> QED BY <2>2 DEF ReplyMatchesTransfer
<1> QED BY <1>3, <1>4, <1>5, <1>6, <1>7 DEF ReplyInv

\* Writing a RET_UNLINK keeps them: the URB it is about is settled.
LEMMA UnlinkReplies ==
    ASSUME IInv, WriteUnlink
    PROVE  ReplyInv'
<1> DEFINE n == Len(wire)
<1> USE DEF IInv
<1>1. /\ loop = "write" /\ loop' = "read" /\ sock = "open" /\ cur \in Urbs
      /\ UNCHANGED <<task, blk, outcome, cancelled, sock>>
      /\ wire' = Append(wire, RetUnlink(cur))
  BY Zenon DEF WriteUnlink, CurInv, Busy, flagVars, xferVars
<1>2. /\ RetUnlink(cur) \in Message
      /\ RetUnlink(cur).kind = "RET_UNLINK"
      /\ RetUnlink(cur).urb = cur
      /\ RetUnlink(cur).whole = TRUE
  BY SMTT(30), <1>1, Zenon DEF RetUnlink, Message
<1>3. /\ n \in Nat
      /\ Len(wire') = n + 1
      /\ wire'[n + 1] = RetUnlink(cur)
      /\ \A i \in 1..n : wire'[i] = wire[i]
  <2>1. wire \in Seq(Message)
    BY Zenon DEF TypeOK
  <2> QED BY <1>1, <1>2, <2>1, WireAppend
<1>4. \A v \in Urbs : RepliesTo(v)' = RepliesTo(v) /\ (Answered(v) => Answered(v)')
  <2>1. PICK m : m = RetUnlink(cur)
    OBVIOUS
  <2>2. m \in Message /\ m.kind # "RET_SUBMIT" /\ wire' = Append(wire, m)
    BY <1>1, <1>2, <2>1, Zenon
  <2> QED BY Zenon, <2>2, AppendReplies
<1>5. \A u \in Urbs : task[u] # "wpart"
  BY <1>1, ConstantsAssumption, Zenon DEF WriterInv
<1>6. \A v \in Urbs : RepliesTo(v) \subseteq 1..n
  BY Zenon DEF RepliesTo
<1> HIDE DEF n
<1>7. WireInv' /\ NothingLost'
  <2>1. \A u \in Urbs : Settled(u) => Settled(u)'
    BY SMTT(30), <1>1, <1>4, Zenon DEF Settled
  <2> QED BY Zenon, <1>1, <1>4, <1>5, <2>1 DEF WireInv, NothingLost, Settled
<1>8. UnlinkTruthful'
  <2>1. ASSUME NEW u \in Urbs, NEW i \in 1..(n + 1), wire'[i] = RetUnlink(u)
        PROVE  u \in cancelled \/ \E j \in RepliesTo(u) : j < i /\ wire[j].whole
    <3>1. CASE i = n + 1
      <4>1. u = cur
        BY <1>3, <2>1, <3>1 DEF RetUnlink
      <4>2. Answered(u) \/ u \in cancelled
        BY <1>1, <4>1, Zenon DEF WireInv, Settled
      <4>3. \A j \in RepliesTo(u) : j < i
        BY <1>3, <1>6, <3>1
      <4> QED BY <4>2, <4>3 DEF Answered
    <3>2. CASE i \in 1..n
      BY SMTT(30), <1>3, <2>1, <3>2, Zenon DEF UnlinkTruthful, n
    <3> QED BY <1>3, <3>1, <3>2
  <2>2. ASSUME NEW u \in Urbs, NEW j \in RepliesTo(u)
        PROVE  j \in RepliesTo(u)' /\ wire'[j] = wire[j]
    BY <1>3, <1>4, <1>6, Zenon
  <2>3. cancelled' = cancelled
    BY SMTT(30), <1>1, Zenon
  <2>4. ASSUME NEW u \in Urbs, NEW i \in 1..(n + 1), wire'[i] = RetUnlink(u)
        PROVE  u \in cancelled' \/ \E j \in RepliesTo(u)' : j < i /\ wire'[j].whole
    BY SMTT(30), <2>1, <2>2, <2>3, <2>4, Zenon
  <2> QED BY Zenon, <1>3, <2>4 DEF UnlinkTruthful, RetUnlink
<1>9. FramesIntact'
  <2>1. ASSUME NEW i \in 1..(n + 1)
        PROVE  wire'[i].whole \/ task'[wire'[i].urb] = "dropped"
    <3>1. CASE i = n + 1
      BY SMTT(30), <1>2, <1>3, <3>1, Zenon
    <3>2. CASE i \in 1..n
      <4>1. wire'[i] = wire[i] /\ wire[i].urb \in Urbs
        BY SMTT(30), <1>3, <3>2, WireUrb, Zenon DEF n
      <4> QED BY <1>1, <1>5, <3>2, <4>1 DEF FramesIntact, n
    <3> QED BY <1>3, <3>1, <3>2
  <2> QED BY Zenon, <1>3, <1>4, <2>1 DEF FramesIntact
<1>10. ReplyMatchesTransfer'
  <2>1. ASSUME NEW i \in 1..(n + 1), wire'[i].kind = "RET_SUBMIT"
        PROVE  i \in 1..n /\ wire'[i] = wire[i]
    BY <1>2, <1>3, <2>1
  <2>2. ASSUME NEW i \in 1..(n + 1), wire'[i].kind = "RET_SUBMIT"
        PROVE  /\ blk'[wire'[i].urb] = "done"
               /\ (wire'[i].status = "ok") = (outcome'[wire'[i].urb] = "ok")
               /\ (wire'[i].status = "EOVERFLOW") = (outcome'[wire'[i].urb] = "over")
    <3>1. i \in 1..Len(wire) /\ wire'[i] = wire[i] /\ wire[i].kind = "RET_SUBMIT"
      BY Zenon, <2>1, <2>2 DEF n
    <3>2. /\ blk[wire[i].urb] = "done"
          /\ (wire[i].status = "ok") = (outcome[wire[i].urb] = "ok")
          /\ (wire[i].status = "EOVERFLOW") = (outcome[wire[i].urb] = "over")
      BY Zenon, <3>1 DEF ReplyMatchesTransfer
    <3> QED BY Zenon, <1>1, <3>1, <3>2
  <2> QED BY Zenon, <1>3, <2>2 DEF ReplyMatchesTransfer
<1> QED BY <1>7, <1>8, <1>9, <1>10 DEF ReplyInv

\* A RetSubmit is a well-formed message about the transfer that has ended.
LEMMA RetSubmitFacts ==
    ASSUME TypeOK, NEW u \in Urbs, NEW w \in BOOLEAN
    PROVE  /\ RetSubmit(u, w) \in Message
           /\ RetSubmit(u, w).kind = "RET_SUBMIT"
           /\ RetSubmit(u, w).urb = u
           /\ RetSubmit(u, w).whole = w
           /\ (RetSubmit(u, w).status = "ok") = (outcome[u] = "ok")
           /\ (RetSubmit(u, w).status = "EOVERFLOW") = (outcome[u] = "over")
BY Zenon DEF RetSubmit, Message, StatusOf, Statuses, TypeOK, Outcomes

\* Starting a RET_SUBMIT, in part or in full, keeps them: the writer is u's
\* and u has not replied before.
LEMMA StartReplies ==
    ASSUME IInv, CoreInv', NEW u \in Urbs, WritePart(u) \/ (WriteRest(u) /\ task[u] = "write")
    PROVE  ReplyInv'
<1> DEFINE n == Len(wire)
<1> USE DEF IInv
<1>1. PICK w \in BOOLEAN :
        /\ wire' = Append(wire, RetSubmit(u, w))
        /\ task' = [task EXCEPT ![u] = IF w THEN "rm" ELSE "wpart"]
        /\ task[u] = "write" /\ sock = "open"
        /\ UNCHANGED <<loop, cur, blk, outcome, cancelled, sock>>
  BY ZenonT(40) DEF WritePart, WriteRest, loopVars, flagVars, xferVars
<1>2. PICK m \in Message : m = RetSubmit(u, w)
  BY Zenon, RetSubmitFacts
<1>3. /\ m.kind = "RET_SUBMIT"
      /\ m.urb = u
      /\ m.whole = w
      /\ (m.status = "ok") = (outcome[u] = "ok")
      /\ (m.status = "EOVERFLOW") = (outcome[u] = "over")
  BY <1>2, RetSubmitFacts
<1>4. /\ n \in Nat
      /\ Len(wire') = n + 1
      /\ wire'[n + 1] = m
      /\ \A i \in 1..n : wire'[i] = wire[i]
  <2>1. wire \in Seq(Message)
    BY Zenon DEF TypeOK
  <2>2. wire' = Append(wire, m)
    BY <1>1, <1>2, Zenon
  <2> QED BY <2>1, <2>2, WireAppend
<1>5. /\ \A v \in Urbs \ {u} : RepliesTo(v)' = RepliesTo(v)
      /\ RepliesTo(u)' = {n + 1}
      /\ \A v \in Urbs : Answered(v) => Answered(v)'
  <2>1. RepliesTo(u) = {}
    BY <1>1, Zenon DEF WireInv
  <2>2. wire' = Append(wire, m)
    BY <1>1, <1>2, Zenon
  <2>3. /\ \A v \in Urbs : RepliesTo(v)' = RepliesTo(v) \cup
              (IF m.kind = "RET_SUBMIT" /\ m.urb = v THEN {Len(wire) + 1} ELSE {})
        /\ \A v \in Urbs : Answered(v) => Answered(v)'
    BY Zenon, <2>2, AppendReplies
  <2>4. ASSUME NEW v \in Urbs \ {u}
        PROVE  RepliesTo(v)' = RepliesTo(v)
    <3>1. RepliesTo(v)' = RepliesTo(v) \cup {}
      BY Zenon, <1>3, <2>3
    <3> QED BY Zenon, <3>1
  <2>5. RepliesTo(u)' = {n + 1}
    <3>1. RepliesTo(u)' = {} \cup {Len(wire) + 1}
      BY Zenon, <1>3, <2>1, <2>3
    <3> QED BY Zenon, <3>1
  <2> QED BY Zenon, <2>3, <2>4, <2>5
<1>6. /\ blk[u] = "done"
      /\ task \in [Urbs -> TaskStates]
      /\ task'[u] = IF w THEN "rm" ELSE "wpart"
      /\ \A v \in Urbs \ {u} : task'[v] = task[v] /\ task[v] # "wpart"
      /\ ~w => writer' = u
      /\ loop # "write"
  <2>1. /\ task[u] = "write" => blk[u] = "done"
        /\ task[u] = "write" => writer = u
        /\ \A v \in Urbs : task[v] = "wpart" => writer = v
        /\ loop = "write" => writer = Loop
        /\ task'[u] = "wpart" => writer' = u
    BY Zenon DEF XferInv, CoreInv, WriterInv
  <2>2. task \in [Urbs -> TaskStates]
    BY Zenon DEF TypeOK
  <2> QED BY <1>1, <2>1, <2>2, ConstantsAssumption
<1>7. w => Answered(u)'
  BY ZenonT(40), <1>3, <1>4, <1>5 DEF Answered
<1>8. \A v \in Urbs : RepliesTo(v) \subseteq 1..n
  BY Zenon DEF RepliesTo
<1>9. \A v \in Urbs : Settled(v) => Settled(v)'
  BY <1>1, <1>5, Zenon DEF Settled
<1> HIDE DEF n
<1>10. WireInv'
  <2>1. ASSUME NEW v \in Urbs, RepliesTo(v)' # {}
        PROVE  task'[v] \in {"wpart", "rm", "done", "dropped"}
    BY Zenon, <1>5, <1>6, <2>1 DEF WireInv
  <2>2. ASSUME NEW v \in Urbs, task'[v] = "wpart"
        PROVE  Len(wire') > 0 /\ wire'[Len(wire')] = RetSubmit(v, FALSE)'
    <3>1. v = u /\ w = FALSE
      BY Zenon, <1>6, <2>2
    <3>2. RetSubmit(u, FALSE)' = RetSubmit(u, FALSE)
      BY <1>1, Zenon DEF RetSubmit
    <3>3. wire'[n + 1] = RetSubmit(u, FALSE)'
      BY ZenonT(40), <1>2, <1>4, <3>1, <3>2
    <3>4. RetSubmit(v, FALSE)' = RetSubmit(u, FALSE)'
      BY ZenonT(40), <3>1 DEF RetSubmit
    <3>5. Len(wire') > 0 /\ Len(wire') = n + 1
      BY Zenon, <1>4, OneMore
    <3> QED BY Zenon, <3>3, <3>4, <3>5
  <2>3. ASSUME NEW v \in Urbs, task'[v] = "rm"
        PROVE  Settled(v)'
    BY Zenon, <1>6, <1>7, <1>9, <2>3 DEF WireInv, Settled
  <2>4. ASSUME loop' \in {"cancel", "reply", "write"}
        PROVE  Settled(cur)'
    <3>1. PICK c \in Urbs : c = cur /\ c = cur'
      BY <1>1, <2>4, Zenon DEF CurInv, Busy
    <3>2. Settled(c)'
      BY SMTT(30), <1>1, <1>9, <2>4, <3>1, Zenon DEF WireInv
    <3> QED BY Zenon, <3>1, <3>2 DEF Settled, Answered, RepliesTo
  <2> QED BY ZenonT(40), <2>1, <2>2, <2>3, <2>4 DEF WireInv
<1>11. NothingLost'
  BY SMTT(30), <1>1, <1>6, <1>9, Zenon DEF NothingLost, Settled
<1>12. UnlinkTruthful'
  <2>1. ASSUME NEW v \in Urbs, NEW i \in 1..(n + 1), wire'[i] = RetUnlink(v)
        PROVE  v \in cancelled \/ \E j \in RepliesTo(v) : j < i /\ wire[j].whole
    <3>1. RetUnlink(v).kind = "RET_UNLINK" /\ m.kind # "RET_UNLINK"
      BY <1>3, Zenon DEF RetUnlink
    <3>2. i # n + 1
      BY Zenon, <1>4, <2>1, <3>1
    <3>3. i \in 1..n
      BY Zenon, <1>4, <3>2, OneMore
    <3> QED BY Zenon, <1>4, <2>1, <3>3 DEF UnlinkTruthful, n
  <2>2. ASSUME NEW v \in Urbs, NEW j \in RepliesTo(v)
        PROVE  j \in RepliesTo(v)' /\ wire'[j] = wire[j]
    <3>1. v # u
      BY <1>1, Zenon DEF WireInv
    <3> QED BY Zenon, <1>4, <1>5, <1>8, <3>1
  <2>3. ASSUME NEW v \in Urbs, NEW i \in 1..(n + 1), wire'[i] = RetUnlink(v)
        PROVE  v \in cancelled' \/ \E j \in RepliesTo(v)' : j < i /\ wire'[j].whole
    BY ZenonT(40), <1>1, <2>1, <2>2, <2>3
  <2> QED BY Zenon, <1>4, <2>3 DEF UnlinkTruthful, RetUnlink
<1>13. FramesIntact'
  <2>1. ASSUME NEW i \in 1..(n + 1)
        PROVE  \/ wire'[i].whole
               \/ i = n + 1 /\ task'[wire'[i].urb] = "wpart" /\ writer' = wire'[i].urb
               \/ task'[wire'[i].urb] = "dropped"
    <3>1. CASE i = n + 1
      <4>1. wire'[i] = m
        BY Zenon, <1>4, <3>1
      <4>2. m.whole \/ (task'[m.urb] = "wpart" /\ writer' = m.urb)
        BY Zenon, <1>3, <1>6
      <4> QED BY Zenon, <3>1, <4>1, <4>2
    <3>2. CASE i \in 1..n
      <4>1. wire'[i] = wire[i] /\ wire[i].urb \in Urbs
        BY Zenon, <1>4, <3>2, WireUrb DEF n
      <4>2. wire[i].whole \/ task[wire[i].urb] \in {"wpart", "dropped"}
        BY <1>1, <3>2, Zenon DEF FramesIntact, n
      <4> QED BY ZenonT(40), <1>1, <1>6, <4>1, <4>2
    <3>3. i = n + 1 \/ i \in 1..n
      BY Zenon, <1>4, OneMore
    <3> QED BY Zenon, <3>1, <3>2, <3>3
  <2>2. \A v \in Urbs : \A i, j \in RepliesTo(v)' : i = j
    <3>1. \A v \in Urbs : \A i, j \in RepliesTo(v) : i = j
      BY Zenon DEF FramesIntact
    <3>2. \A i, j \in RepliesTo(u)' : i = j
      BY <1>5, Zenon
    <3>3. \A v \in Urbs \ {u} : RepliesTo(v)' = RepliesTo(v)
      BY <1>5, Zenon
    <3>4. ASSUME NEW v \in Urbs, NEW i \in RepliesTo(v)', NEW j \in RepliesTo(v)'
          PROVE  i = j
      <4>1. CASE v = u
        BY Zenon, <3>2, <4>1 DEF RepliesTo
      <4>2. CASE v # u
        BY SMTT(30), <3>1, <3>3, <4>2, Zenon
      <4> QED BY <4>1, <4>2
    <3> QED BY SMTT(30), <3>4
  <2> QED BY Zenon, <1>4, <2>1, <2>2 DEF FramesIntact
<1>14. ReplyMatchesTransfer'
  <2>1. ASSUME NEW i \in 1..(n + 1), wire'[i].kind = "RET_SUBMIT"
        PROVE  /\ blk[wire'[i].urb] = "done"
               /\ (wire'[i].status = "ok") = (outcome[wire'[i].urb] = "ok")
               /\ (wire'[i].status = "EOVERFLOW") = (outcome[wire'[i].urb] = "over")
    <3>1. CASE i = n + 1
      BY ZenonT(40), <1>3, <1>4, <1>6, <3>1
    <3>2. CASE i \in 1..n
      <4>1. wire'[i] = wire[i] /\ i \in 1..Len(wire)
        BY Zenon, <1>4, <3>2 DEF n
      <4>2. wire[i].kind = "RET_SUBMIT"
        BY Zenon, <2>1, <4>1
      <4>3. /\ blk[wire[i].urb] = "done"
            /\ (wire[i].status = "ok") = (outcome[wire[i].urb] = "ok")
            /\ (wire[i].status = "EOVERFLOW") = (outcome[wire[i].urb] = "over")
        BY Zenon, <4>1, <4>2 DEF ReplyMatchesTransfer
      <4> QED BY Zenon, <4>1, <4>3
    <3>3. i = n + 1 \/ i \in 1..n
      BY <1>4
    <3> QED BY Zenon, <3>1, <3>2, <3>3
  <2> QED BY Zenon, <1>1, <1>4, <2>1 DEF ReplyMatchesTransfer
<1> QED BY <1>10, <1>11, <1>12, <1>13, <1>14 DEF ReplyInv

\* Completing a RET_SUBMIT keeps them: it is the last message on the wire.
LEMMA CompletedReplies ==
    ASSUME IInv, CoreInv', NEW u \in Urbs, WriteRest(u), task[u] = "wpart"
    PROVE  ReplyInv'
<1> USE DEF IInv
<1>1. /\ wire' = [wire EXCEPT ![Len(wire)] = RetSubmit(u, TRUE)]
      /\ task' = [task EXCEPT ![u] = "rm"]
      /\ sock = "open"
      /\ UNCHANGED <<loop, cur, blk, outcome, cancelled, sock>>
  BY Zenon DEF WriteRest, loopVars, flagVars, xferVars
<1>2. /\ Len(wire) > 0
      /\ wire[Len(wire)] = RetSubmit(u, FALSE)
  BY Zenon DEF WireInv
<1>3. PICK n \in Nat \ {0} : n = Len(wire)
  BY <1>2 DEF TypeOK
<1>4. PICK m \in Message : m = RetSubmit(u, TRUE)
  BY Zenon, RetSubmitFacts
<1>5. /\ n = Len(wire')
      /\ wire'[n] = m
      /\ \A i \in 1..n : i # n => wire'[i] = wire[i]
  BY Zenon, <1>1, <1>2, <1>3, <1>4, WireComplete
<1>6. /\ m.kind = "RET_SUBMIT"
      /\ m.urb = u
      /\ m.whole = TRUE
      /\ (m.status = "ok") = (outcome[u] = "ok")
      /\ (m.status = "EOVERFLOW") = (outcome[u] = "over")
  BY Zenon, <1>4, RetSubmitFacts
<1>7. wire[n].kind = "RET_SUBMIT" /\ wire[n].urb = u /\ wire[n].whole = FALSE
  <2>1. wire[n] = RetSubmit(u, FALSE)
    BY Zenon, <1>2, <1>3
  <2>2. /\ RetSubmit(u, FALSE).kind = "RET_SUBMIT"
        /\ RetSubmit(u, FALSE).urb = u
        /\ RetSubmit(u, FALSE).whole = FALSE
    BY Zenon, RetSubmitFacts
  <2> QED BY Zenon, <2>1, <2>2
<1>8. /\ \A v \in Urbs : RepliesTo(v)' = RepliesTo(v)
      /\ \A v \in Urbs : Answered(v) => Answered(v)'
      /\ Answered(u)'
      /\ n \in RepliesTo(u)
  BY Zenon, <1>3, <1>5, <1>6, <1>7, CompleteReplies
<1>9. /\ blk[u] = "done"
      /\ task'[u] = "rm"
      /\ \A v \in Urbs \ {u} : task'[v] = task[v] /\ task[v] # "wpart"
  <2>1. /\ task[u] = "wpart" => blk[u] = "done" /\ writer = u
        /\ \A v \in Urbs : task[v] = "wpart" => writer = v
    BY Zenon DEF XferInv, WriterInv
  <2>2. task \in [Urbs -> TaskStates]
    BY Zenon DEF TypeOK
  <2> QED BY <1>1, <2>1, <2>2
<1>10. \A v \in Urbs : Settled(v) => Settled(v)'
  BY <1>1, <1>8, Zenon DEF Settled
<1>11. WireInv'
  <2>1. ASSUME NEW v \in Urbs, RepliesTo(v)' # {}
        PROVE  task'[v] \in {"wpart", "rm", "done", "dropped"}
    BY Zenon, <1>8, <1>9, <2>1 DEF WireInv
  <2>2. \A v \in Urbs : task'[v] # "wpart"
    BY SMTT(30), <1>9, Zenon
  <2>3. ASSUME NEW v \in Urbs, task'[v] = "rm"
        PROVE  Settled(v)'
    BY Zenon, <1>8, <1>9, <1>10, <2>3 DEF WireInv, Settled
  <2>4. ASSUME loop' \in {"cancel", "reply", "write"}
        PROVE  Settled(cur)'
    <3>1. PICK c \in Urbs : c = cur /\ c = cur'
      BY <1>1, <2>4, Zenon DEF CurInv, Busy
    <3>2. Settled(c)'
      BY SMTT(30), <1>1, <1>10, <2>4, <3>1, Zenon DEF WireInv
    <3> QED BY Zenon, <3>1, <3>2 DEF Settled, Answered, RepliesTo
  <2> QED BY ZenonT(40), <2>1, <2>2, <2>3, <2>4 DEF WireInv
<1>12. NothingLost'
  BY Zenon, <1>1, <1>9, <1>10 DEF NothingLost, Settled
<1>13. UnlinkTruthful'
  <2>1. ASSUME NEW v \in Urbs, NEW i \in 1..n, wire'[i] = RetUnlink(v)
        PROVE  v \in cancelled \/ \E j \in RepliesTo(v) : j < i /\ wire[j].whole
    <3>1. i # n
      <4>1. RetUnlink(v).kind = "RET_UNLINK"
        BY SMTT(30), Zenon DEF RetUnlink
      <4>2. wire'[n].kind = "RET_SUBMIT"
        BY Zenon, <1>5, <1>6
      <4> QED BY Zenon, <2>1, <4>1, <4>2
    <3> QED BY Zenon, <1>3, <1>5, <2>1, <3>1 DEF UnlinkTruthful
  <2>2. ASSUME NEW v \in Urbs, NEW i \in 1..n, NEW j \in RepliesTo(v), j < i
        PROVE  j \in RepliesTo(v)' /\ wire'[j] = wire[j]
    <3>1. j \in 1..n
      BY <1>3, Zenon DEF RepliesTo
    <3>2. j # n
      BY SMTT(30), <2>2, <3>1, Zenon
    <3> QED BY Zenon, <1>5, <1>8, <3>1, <3>2
  <2>3. ASSUME NEW v \in Urbs, NEW i \in 1..n, wire'[i] = RetUnlink(v)
        PROVE  v \in cancelled' \/ \E j \in RepliesTo(v)' : j < i /\ wire'[j].whole
    <3>1. CASE v \in cancelled
      BY ZenonT(40), <1>1, <3>1
    <3>2. ASSUME NEW j \in RepliesTo(v), j < i, wire[j].whole
          PROVE  \E k \in RepliesTo(v)' : k < i /\ wire'[k].whole
      <4>1. j \in RepliesTo(v)' /\ wire'[j] = wire[j]
        BY SMTT(30), <2>2, <3>2, Zenon
      <4> QED BY Zenon, <3>2, <4>1
    <3> QED BY <2>1, <2>3, <3>1, <3>2
  <2> QED BY Zenon, <1>5, <2>3 DEF UnlinkTruthful, RetUnlink
<1>14. FramesIntact'
  <2>1. ASSUME NEW i \in 1..n
        PROVE  wire'[i].whole \/ task'[wire'[i].urb] = "dropped"
    <3>1. CASE i = n
      BY SMTT(30), <1>5, <1>6, <3>1, Zenon
    <3>2. CASE i # n
      <4>1. wire'[i] = wire[i] /\ wire[i].urb \in Urbs
        BY SMTT(30), <1>3, <1>5, <3>2, WireUrb, Zenon
      <4>2. wire[i].whole \/ task[wire[i].urb] = "dropped"
        BY Zenon, <1>1, <1>3, <3>2 DEF FramesIntact
      <4> QED BY SMTT(30), <1>9, <4>1, <4>2
    <3> QED BY SMTT(30), <3>1, <3>2
  <2>2. \A v \in Urbs : \A i, j \in RepliesTo(v)' : i = j
    <3>1. \A v \in Urbs : \A i, j \in RepliesTo(v) : i = j
      BY Zenon DEF FramesIntact
    <3>2. \A v \in Urbs : RepliesTo(v)' = RepliesTo(v)
      BY <1>8, Zenon
    <3> QED BY SMTT(30), <3>1, <3>2
  <2> QED BY Zenon, <1>5, <2>1, <2>2 DEF FramesIntact
<1>15. ReplyMatchesTransfer'
  <2>1. ASSUME NEW i \in 1..n, wire'[i].kind = "RET_SUBMIT"
        PROVE  /\ blk[wire'[i].urb] = "done"
               /\ (wire'[i].status = "ok") = (outcome[wire'[i].urb] = "ok")
               /\ (wire'[i].status = "EOVERFLOW") = (outcome[wire'[i].urb] = "over")
    <3>1. CASE i = n
      BY ZenonT(40), <1>5, <1>6, <1>9, <3>1
    <3>2. CASE i # n
      <4>1. wire'[i] = wire[i] /\ i \in 1..Len(wire)
        BY Zenon, <1>3, <1>5, <3>2
      <4>2. wire[i].kind = "RET_SUBMIT"
        BY Zenon, <2>1, <4>1
      <4>3. /\ blk[wire[i].urb] = "done"
            /\ (wire[i].status = "ok") = (outcome[wire[i].urb] = "ok")
            /\ (wire[i].status = "EOVERFLOW") = (outcome[wire[i].urb] = "over")
        BY Zenon, <4>1, <4>2 DEF ReplyMatchesTransfer
      <4> QED BY Zenon, <4>1, <4>3
    <3> QED BY Zenon, <3>1, <3>2
  <2> QED BY ZenonT(40), <1>1, <1>5, <2>1 DEF ReplyMatchesTransfer
<1> QED BY <1>11, <1>12, <1>13, <1>14, <1>15 DEF ReplyInv

\* Hence every step keeps the whole invariant.
LEMMA InvStep == IInv /\ [Next]_vars => IInv'
<1> SUFFICES ASSUME IInv, [Next]_vars
             PROVE  IInv'
  OBVIOUS
<1>1. TypeOK' /\ CoreInv' /\ UncutInv' /\ PermitsInv' /\ Frame
  BY TypeStep, CoreStep, UncutStep, PermitsStep, FrameStep, Zenon
<1>2. ReplyInv'
  <2>1. CASE WriteUnlink
    BY <2>1, UnlinkReplies, Zenon
  <2>2. ASSUME NEW u \in Urbs, WritePart(u) \/ WriteRest(u)
        PROVE  ReplyInv'
    <3>1. WriteRest(u) => task[u] \in {"write", "wpart"}
      BY Zenon DEF WriteRest
    <3> QED BY <1>1, <2>2, <3>1, StartReplies, CompletedReplies
  <2>3. CASE ~Writes
    BY <1>1, <2>3, QuietStep, QuietReplies, Zenon
  <2> QED BY <2>1, <2>2, <2>3 DEF Writes
<1> QED BY <1>1, <1>2 DEF IInv, CoreInv, PermitsInv, ReplyInv

\* A new session satisfies the invariant.
LEMMA InvInit == Init => IInv
<1> SUFFICES ASSUME Init
             PROVE  IInv
  OBVIOUS
<1>1. TypeOK
  <2>1. wire \in Seq(Message)
    BY EmptySeq, Zenon DEF Init
  <2>2. permits \in 0..MAX_INFLIGHT_URBS
    BY ConstantsAssumption DEF Init
  <2>3. /\ task \in [Urbs -> TaskStates]
        /\ blk \in [Urbs -> BlkStates]
        /\ outcome \in [Urbs -> Outcomes]
        /\ ep \in [Urbs -> DataEps \cup {Ep0}]
    BY Zenon DEF Init, TaskStates, BlkStates, Outcomes
  <2>4. /\ hnd \in [Urbs -> Handles \cup {NoUrb}]
        /\ cache \in [DataEps -> Handles \cup {NoUrb}]
        /\ epLock \in [Handles -> Holders]
    BY Zenon DEF Init, Handles, Holders
  <2>5. /\ loop \in LoopStates
        /\ cur \in Urbs \cup {NoUrb}
        /\ target \in Handles \cup {NoUrb}
        /\ cancelled \in SUBSET Urbs
        /\ aborted \in SUBSET Urbs
        /\ inflight \in SUBSET Urbs
        /\ mapHeld \in BOOLEAN
        /\ writer \in Holders
        /\ sock \in {"open", "broken"}
    BY Zenon DEF Init, LoopStates, Handles, Holders
  <2> QED BY SMTT(30), <2>1, <2>2, <2>3, <2>4, <2>5 DEF TypeOK
<1>2. PermitsConserved
  <2>1. {u \in Urbs : Live(u)} = {}
    BY Zenon DEF Init, Live
  <2>2. Cardinality({u \in Urbs : Live(u)}) = 0
    BY <2>1, FS_EmptySet, Zenon
  <2>3. permits = MAX_INFLIGHT_URBS /\ MAX_INFLIGHT_URBS \in Nat
    BY SMTT(30), ConstantsAssumption, Zenon DEF Init
  <2> QED BY <2>2, <2>3 DEF PermitsConserved
<1>3. CurInv /\ WriterInv /\ FlagInv /\ XferInv /\ UncutInv /\ UnlinkFinds /\ DrainStopsAll
  BY Zenon, ConstantsAssumption DEF Init, CurInv, Busy, WriterInv, FlagInv, XferInv,
     UncutInv, UnlinkFinds, DrainStopsAll, Live
<1>4. WireInv /\ NothingLost /\ UnlinkTruthful /\ FramesIntact /\ ReplyMatchesTransfer
  <2>1. Len(wire) = 0
    BY Zenon DEF Init
  <2>2. ~\E i \in 1..Len(wire) : TRUE
    BY <2>1
  <2>3. \A u \in Urbs : RepliesTo(u) = {}
    BY Zenon, <2>2 DEF RepliesTo
  <2>4. /\ loop = "read"
        /\ \A u \in Urbs : task[u] = "none"
    BY Zenon DEF Init
  <2>5. WireInv /\ NothingLost
    BY ZenonT(40), <2>3, <2>4 DEF WireInv, NothingLost
  <2>6. UnlinkTruthful /\ ReplyMatchesTransfer
    BY Zenon, <2>2 DEF UnlinkTruthful, ReplyMatchesTransfer
  <2>7. FramesIntact
    BY Zenon, <2>2, <2>3 DEF FramesIntact
  <2> QED BY <2>5, <2>6, <2>7
<1> QED BY <1>1, <1>2, <1>3, <1>4 DEF IInv

\* The invariant holds in every session, whatever the number of URBs, of
\* endpoints and of permits.
THEOREM Invariance == Spec => []IInv
BY InvInit, InvStep, PTL DEF Spec

\* Types, and no more permits than the semaphore was created with
\* (handle_cmd_submit's acquire_owned, and its release on return or abort).
THEOREM TypesHold == Spec => []TypeOK
<1>1. IInv => TypeOK
  BY Zenon DEF IInv
<1> QED BY <1>1, Invariance, PTL

\* No path of run_submit, aborted or not, loses or duplicates a permit.
THEOREM PermitsAreConserved == Spec => []PermitsConserved
<1>1. IInv => PermitsConserved
  BY Zenon DEF IInv
<1> QED BY <1>1, Invariance, PTL

\* handle_cmd_unlink finds every URB that may still reply, although
\* handle_cmd_submit spawns the task before it inserts the map entry.
THEOREM UnlinkFindsAll == Spec => []UnlinkFinds
<1>1. IInv => UnlinkFinds
  BY Zenon DEF IInv
<1> QED BY <1>1, Invariance, PTL

\* drain_inflight leaves no task that was not flagged and aborted.
THEOREM DrainIsComplete == Spec => []DrainStopsAll
<1>1. IInv => DrainStopsAll
  BY Zenon DEF IInv
<1> QED BY <1>1, Invariance, PTL

\* run_submit answers every URB that is not unlinked, while the connection is
\* up and no closure panics.
THEOREM NoUrbLost == Spec => []NothingLost
<1>1. IInv => NothingLost
  BY Zenon DEF IInv
<1> QED BY <1>1, Invariance, PTL

\* A RET_UNLINK is sent only for a URB that is flagged or already answered.
THEOREM UnlinkIsTruthful == Spec => []UnlinkTruthful
<1>1. IInv => UnlinkTruthful
  BY Zenon DEF IInv
<1> QED BY <1>1, Invariance, PTL

\* Replies are written under the writer's mutex, once per URB, and are only
\* cut short by an abort or a dead socket.
THEOREM StreamIsFramed == Spec => []FramesIntact
<1>1. IInv => FramesIntact
  BY Zenon DEF IInv
<1> QED BY <1>1, Invariance, PTL

\* run_submit's status tells how the transfer ended.
THEOREM RepliesAreTrue == Spec => []ReplyMatchesTransfer
<1>1. IInv => ReplyMatchesTransfer
  BY SMTT(30), Zenon DEF IInv
<1> QED BY <1>1, Invariance, PTL

\* cancel_endpoint, which gets the endpoint's mutex only when no transfer has
\* it, cuts short no transfer of another URB.
THEOREM UnlinksSpareOthers == Spec => []UnlinkSparesOthers
<1>1. IInv => UnlinkSparesOthers
  BY Zenon DEF IInv, UncutInv, UnlinkSparesOthers
<1> QED BY <1>1, Invariance, PTL

\* The semaphore bounds the blocking threads, but for those of aborted URBs:
\* every other closure belongs to a task that holds a permit.
THEOREM ThreadsAreBounded == Spec => []ThreadsBounded
<1>1. IInv => ThreadsBounded
  <2> SUFFICES ASSUME IInv PROVE ThreadsBounded
    OBVIOUS
  <2> DEFINE L == {u \in Urbs : Live(u)}
             T == {u \in Urbs : OnThread(u) /\ u \notin aborted}
  <2>1. T \subseteq L
    <3> SUFFICES ASSUME NEW u \in Urbs, OnThread(u), u \notin aborted
                 PROVE  Live(u)
      BY Zenon
    <3> QED BY DEF IInv, TypeOK, XferInv, OnThread, Live, TaskStates
  <2>2. IsFiniteSet(Urbs) /\ MAX_INFLIGHT_URBS \in Nat
    BY ConstantsAssumption, Zenon
  <2>3. IsFiniteSet(L)
    BY Zenon, <2>2, FS_Subset
  <2>4. IsFiniteSet(T) /\ Cardinality(T) <= Cardinality(L)
    BY Zenon, <2>1, <2>3, FS_Subset
  <2>5. Cardinality(T) \in Nat /\ Cardinality(L) \in Nat
    BY Zenon, <2>3, <2>4, FS_CardinalityType
  <2>6. permits \in Nat /\ permits + Cardinality(L) = MAX_INFLIGHT_URBS
    BY DEF IInv, TypeOK, PermitsConserved
  <2>7. Cardinality(T) <= MAX_INFLIGHT_URBS
    <3> HIDE DEF L, T
    <3> QED BY <2>2, <2>4, <2>5, <2>6
  <2> QED BY Zenon, <2>7 DEF ThreadsBounded
<1> QED BY <1>1, Invariance, PTL
=============================================================================
