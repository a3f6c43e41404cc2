----------------------- MODULE LinuxGpuBackend_proofs -----------------------
(***************************************************************************)
(* Proofs about LinuxGpuBackend, for any number of thread slots, metrics   *)
(* and requests.                                                           *)
(***************************************************************************)
EXTENDS LinuxGpuBackend, FiniteSetTheorems, TLAPS

(* The application and its session.                                         *)
RequestValid == request \in Request /\ ValidateRequest(request) = "SUCCESS"
Open == listed /\ dataCallback /\ RequestValid

SessionInv ==
  /\ dataCallback => listed
  /\ appPc # "start_store" => fresh = NoThread
  /\ started <=> handle \in Thread
  /\ started => Open
  /\ appPc \in {"start_create", "start_store"} => ~started /\ Open
  /\ appPc = "start_store" => fresh \in Thread
  /\ appPc \in {"stop_flag", "stop_join", "stop_destroy"} => started
  /\ appPc = "stop_destroy" => ~Live(handle)

(* A sampling thread and its buffer.                                        *)
InLoop == {"loop", "sample", "deliver", "callback", "rest"}

BufferAt(t) ==
  /\ pc[t] \in InLoop => quota[t] = SamplesPerStream(request)
  /\ pc[t] \in {"loop", "sample", "rest"} =>
       count[t] <= quota[t] /\ (count[t] < quota[t] \/ len[t] = 0)
  /\ pc[t] \in InLoop => len[t] <= M * count[t] /\ count[t] <= quota[t]
  /\ pc[t] \in {"deliver", "callback"} => len[t] > 0

BufferInv == \A t \in Thread : BufferAt(t)

GpuInv == TypeOK /\ NoFault /\ CollectorOwned /\ SessionInv /\ BufferInv
-----------------------------------------------------------------------------
(* Facts about the constants.                                               *)

LEMMA MetricCount == M \in Nat \ {0}
<1>1. IsFiniteSet(Metric) /\ Metric # {}
  BY GpuAssumption
<1> QED BY <1>1, FS_CardinalityType, FS_EmptySet DEF M

LEMMA ValidCount == \A valid \in SUBSET Metric :
                      /\ Cardinality(valid) \in Nat /\ Cardinality(valid) <= M
                      /\ valid # {} => Cardinality(valid) > 0
<1> SUFFICES ASSUME NEW valid \in SUBSET Metric
             PROVE  /\ Cardinality(valid) \in Nat /\ Cardinality(valid) <= M
                    /\ valid # {} => Cardinality(valid) > 0
  OBVIOUS
<1>1. IsFiniteSet(valid) /\ Cardinality(valid) <= M
  BY GpuAssumption, FS_Subset DEF M
<1>2. Cardinality(valid) \in Nat
  BY <1>1, FS_CardinalityType
<1>3. valid # {} => Cardinality(valid) # 0
  BY <1>1, FS_EmptySet
<1> QED BY <1>1, <1>2, <1>3

(* Every accepted request asks for at least one sample per batch, also when *)
(* its sampling rate is longer than its streaming rate.                     *)
LEMMA QuotaPositive ==
  ASSUME NEW r \in Request, ValidateRequest(r) = "SUCCESS"
  PROVE  SamplesPerStream(r) \in Nat \ {0}
<1>1. r.sampling \in Nat \ {0} /\ r.streaming \in Nat \ {0}
  BY GpuAssumption DEF ValidateRequest
<1>2. r.streaming + r.sampling - 1 >= r.sampling
  BY <1>1
<1> QED BY <1>1, <1>2, Z3 DEF SamplesPerStream

-----------------------------------------------------------------------------
(* Each step preserves the invariant, for an application that stops its     *)
(* session before it disconnects and does not call stop from its callback.  *)

LEMMA GpuInit_Inv == Init => GpuInv
<1> SUFFICES ASSUME Init PROVE GpuInv
  OBVIOUS
<1>1. TypeOK
  BY DEF Init, TypeOK, AppPc, Pc, Code, Fault
<1>2. NoFault /\ CollectorOwned /\ SessionInv /\ BufferInv
  BY GpuAssumption DEF Init, NoFault, CollectorOwned, Live, SessionInv, BufferInv,
     BufferAt, InLoop
<1> QED BY <1>1, <1>2 DEF GpuInv

(* While a sampling thread lives, its session is open.                      *)
LEMMA LiveOpen ==
  ASSUME GpuInv, NEW t \in Thread, Live(t)
  PROVE  /\ Open
         /\ (t = handle /\ started) \/ (t = fresh /\ appPc = "start_store")
         /\ \A u \in Thread : Live(u) => u = t
         /\ appPc # "start_create" /\ appPc # "stop_destroy"
<1>1. t = handle \/ (t = fresh /\ handle = NoThread)
  BY DEF GpuInv, CollectorOwned
<1>2. CASE t = handle
  <2>1. started /\ Open /\ appPc # "start_create" /\ appPc # "start_store" /\ appPc # "stop_destroy"
    BY <1>2 DEF GpuInv, SessionInv
  <2>2. \A u \in Thread : Live(u) => u = t
    BY GpuAssumption, <1>2 DEF GpuInv, CollectorOwned
  <2> QED BY <1>2, <2>1, <2>2
<1>3. CASE t = fresh /\ handle = NoThread
  <2>1. appPc = "start_store" /\ Open
    BY GpuAssumption, <1>3 DEF GpuInv, SessionInv
  <2>2. \A u \in Thread : Live(u) => u = t
    BY GpuAssumption, <1>3 DEF GpuInv, CollectorOwned
  <2> QED BY <1>3, <2>1, <2>2
<1> QED BY <1>1, <1>2, <1>3

LEMMA AppStep ==
  ASSUME StopsFirst, GpuInv, App
  PROVE  GpuInv'
<1> USE GpuAssumption
<1>1. CASE AllocRequest
  <2>1. TypeOK'
    BY <1>1 DEF GpuInv, TypeOK, AppPc, Pc, Code, buffers, sent, AllocRequest
  <2>2. NoFault' /\ CollectorOwned' /\ SessionInv'
    BY <1>1 DEF GpuInv, TypeOK, NoFault, CollectorOwned, SessionInv, Open, RequestValid,
       Live, Pc, AllocRequest
  <2>3. BufferInv'
    BY <1>1, LiveOpen DEF Open, RequestValid, Pc, GpuInv, TypeOK, CollectorOwned,
       SessionInv, BufferInv, BufferAt, InLoop,
       buffers, Live, AllocRequest
  <2> QED BY <2>1, <2>2, <2>3 DEF GpuInv
<1>2. CASE FreeRequest
  <2>1. TypeOK'
    BY <1>2 DEF GpuInv, TypeOK, AppPc, Pc, Code, buffers, sent, FreeRequest
  <2>2. NoFault' /\ CollectorOwned' /\ SessionInv'
    BY <1>2 DEF GpuInv, TypeOK, NoFault, CollectorOwned, SessionInv, Open, RequestValid,
       Live, Pc, FreeRequest
  <2>3. BufferInv'
    BY <1>2 DEF GpuInv, TypeOK, CollectorOwned, SessionInv, BufferInv, BufferAt, InLoop,
       buffers, Live, FreeRequest
  <2> QED BY <2>1, <2>2, <2>3 DEF GpuInv
<1>3. CASE GpuInit
  <2>1. TypeOK'
    BY <1>3 DEF GpuInv, TypeOK, AppPc, Pc, Code, buffers, sent, GpuInit
  <2>2. NoFault' /\ CollectorOwned' /\ SessionInv'
    BY <1>3 DEF GpuInv, TypeOK, NoFault, CollectorOwned, SessionInv, Open, RequestValid,
       Live, Pc, GpuInit
  <2>3. BufferInv'
    BY <1>3 DEF GpuInv, TypeOK, CollectorOwned, SessionInv, BufferInv, BufferAt, InLoop,
       buffers, Live, GpuInit
  <2> QED BY <2>1, <2>2, <2>3 DEF GpuInv
<1>4. CASE SetDataCallback
  <2>1. TypeOK'
    BY <1>4 DEF GpuInv, TypeOK, AppPc, Pc, Code, buffers, sent, SetDataCallback
  <2>2. NoFault' /\ CollectorOwned' /\ SessionInv'
    BY <1>4 DEF GpuInv, TypeOK, NoFault, CollectorOwned, SessionInv, Open, RequestValid,
       Live, Pc, SetDataCallback
  <2>3. BufferInv'
    BY <1>4 DEF GpuInv, TypeOK, CollectorOwned, SessionInv, BufferInv, BufferAt, InLoop,
       buffers, Live, SetDataCallback
  <2> QED BY <2>1, <2>2, <2>3 DEF GpuInv
<1>5. CASE GpuDeinit
  <2>1. TypeOK'
    BY <1>5 DEF GpuInv, TypeOK, AppPc, Pc, Code, buffers, sent, GpuDeinit
  <2>2. NoFault' /\ CollectorOwned' /\ SessionInv'
    BY <1>5 DEF GpuInv, TypeOK, NoFault, CollectorOwned, SessionInv, Open, RequestValid,
       Live, Pc, GpuDeinit
  <2>3. BufferInv'
    BY <1>5 DEF GpuInv, TypeOK, CollectorOwned, SessionInv, BufferInv, BufferAt, InLoop,
       buffers, Live, GpuDeinit
  <2> QED BY <2>1, <2>2, <2>3 DEF GpuInv
<1>6. CASE GpuStart
  <2>1. TypeOK'
    BY <1>6 DEF GpuInv, TypeOK, AppPc, Pc, Code, buffers, sent, GpuStart, StartCheck,
       ValidateRequest
  <2>2. NoFault' /\ CollectorOwned' /\ SessionInv'
    BY <1>6 DEF GpuInv, TypeOK, NoFault, CollectorOwned, SessionInv, Open, RequestValid,
       Live, Pc, GpuStart, StartCheck, ValidateRequest
  <2>3. BufferInv'
    BY <1>6 DEF GpuInv, TypeOK, CollectorOwned, SessionInv, BufferInv, BufferAt, InLoop,
       buffers, Live, GpuStart, StartCheck, ValidateRequest
  <2> QED BY <2>1, <2>2, <2>3 DEF GpuInv
<1>7. CASE GpuStop
  <2>1. TypeOK'
    BY <1>7 DEF GpuInv, TypeOK, AppPc, Pc, Code, buffers, sent, GpuStop
  <2>2. NoFault' /\ CollectorOwned' /\ SessionInv'
    BY <1>7 DEF GpuInv, TypeOK, NoFault, CollectorOwned, SessionInv, Open, RequestValid,
       Live, Pc, GpuStop
  <2>3. BufferInv'
    BY <1>7 DEF GpuInv, TypeOK, CollectorOwned, SessionInv, BufferInv, BufferAt, InLoop,
       buffers, Live, GpuStop
  <2> QED BY <2>1, <2>2, <2>3 DEF GpuInv
<1>8. CASE StartCreate
  <2>a. /\ pc' \in [Thread -> Pc] /\ fresh' \in Thread \cup {NoThread}
        /\ appPc' \in AppPc /\ running' \in BOOLEAN /\ reply' \in Code
    BY <1>8 DEF GpuInv, TypeOK, AppPc, Pc, Code, StartCreate
  <2>b. UNCHANGED <<listed, dataCallback, request, started, handle, buffers, sent, fault>>
    BY <1>8 DEF StartCreate
  <2>1. TypeOK'
    BY <2>a, <2>b DEF GpuInv, TypeOK, buffers, sent
  <2>2. NoFault' /\ SessionInv'
    BY <1>8 DEF GpuInv, TypeOK, NoFault, SessionInv, Open, RequestValid, Pc, StartCreate, Live
  <2>4. CollectorOwned'
    <3>1. \A t \in Thread : ~Live(t)
      BY <1>8 DEF GpuInv, TypeOK, CollectorOwned, SessionInv, StartCreate
    <3>2. \/ \E t \in Thread : fresh' = t /\ pc' = [pc EXCEPT ![t] = "begin"]
          \/ pc' = pc
      BY <1>8 DEF StartCreate
    <3>3. handle' = NoThread /\ pc \in [Thread -> Pc]
      BY <1>8, <2>b DEF GpuInv, TypeOK, SessionInv, StartCreate
    <3> QED BY <3>1, <3>2, <3>3 DEF CollectorOwned, Live
  <2>3. BufferInv'
    BY <1>8 DEF GpuInv, TypeOK, CollectorOwned, SessionInv, BufferInv, BufferAt, InLoop,
       buffers, Live, StartCreate, Live
  <2> QED BY <2>1, <2>2, <2>3, <2>4 DEF GpuInv
<1>9. CASE StartStore
  <2>1. TypeOK'
    BY <1>9 DEF GpuInv, TypeOK, AppPc, Pc, Code, buffers, sent, StartStore
  <2>2. NoFault' /\ CollectorOwned' /\ SessionInv'
    BY <1>9 DEF GpuInv, TypeOK, NoFault, CollectorOwned, SessionInv, Open, RequestValid,
       Live, Pc, StartStore
  <2>3. BufferInv'
    BY <1>9 DEF GpuInv, TypeOK, CollectorOwned, SessionInv, BufferInv, BufferAt, InLoop,
       buffers, Live, StartStore
  <2> QED BY <2>1, <2>2, <2>3 DEF GpuInv
<1>10. CASE StopFlag
  <2>1. TypeOK'
    BY <1>10 DEF GpuInv, TypeOK, AppPc, Pc, Code, buffers, sent, StopFlag
  <2>2. NoFault' /\ CollectorOwned' /\ SessionInv'
    BY <1>10 DEF GpuInv, TypeOK, NoFault, CollectorOwned, SessionInv, Open, RequestValid,
       Live, Pc, StopFlag
  <2>3. BufferInv'
    BY <1>10 DEF GpuInv, TypeOK, CollectorOwned, SessionInv, BufferInv, BufferAt, InLoop,
       buffers, Live, StopFlag
  <2> QED BY <2>1, <2>2, <2>3 DEF GpuInv
<1>11. CASE StopJoin
  <2>1. TypeOK'
    BY <1>11 DEF GpuInv, TypeOK, AppPc, Pc, Code, buffers, sent, StopJoin, Live
  <2>2. NoFault' /\ CollectorOwned' /\ SessionInv'
    BY <1>11 DEF GpuInv, TypeOK, NoFault, CollectorOwned, SessionInv, Open, RequestValid,
       Live, Pc, StopJoin, Live
  <2>3. BufferInv'
    BY <1>11 DEF GpuInv, TypeOK, CollectorOwned, SessionInv, BufferInv, BufferAt, InLoop,
       buffers, Live, StopJoin, Live
  <2> QED BY <2>1, <2>2, <2>3 DEF GpuInv
<1>12. CASE StopDestroy
  <2>1. TypeOK'
    BY <1>12 DEF GpuInv, TypeOK, AppPc, Pc, Code, buffers, sent, StopDestroy
  <2>2. NoFault' /\ CollectorOwned' /\ SessionInv'
    BY <1>12 DEF GpuInv, TypeOK, NoFault, CollectorOwned, SessionInv, Open, RequestValid,
       Live, Pc, StopDestroy
  <2>3. BufferInv'
    BY <1>12 DEF GpuInv, TypeOK, CollectorOwned, SessionInv, BufferInv, BufferAt, InLoop,
       buffers, Live, StopDestroy
  <2> QED BY <2>1, <2>2, <2>3 DEF GpuInv
<1> QED BY <1>1, <1>2, <1>3, <1>4, <1>5, <1>6, <1>7, <1>8, <1>9, <1>10, <1>11,
   <1>12 DEF App, AppCall

(* Arithmetic of a batch: M metrics for each sample counted.                *)
LEMMA Room ==
  ASSUME NEW n \in Nat, NEW q \in Nat, NEW l \in Nat, l <= M * n, n < q
  PROVE  l + M <= q * M /\ l + M <= M * (n + 1)
<1>1. M \in Nat
  BY MetricCount
<1>2. M * (n + 1) = M * n + M
  BY <1>1
<1>3. q * M = M * (n + 1) + M * (q - (n + 1))
  BY <1>1
<1>4. M * (q - (n + 1)) >= 0
  BY <1>1
<1>5. /\ M * n \in Nat /\ M * (n + 1) \in Nat /\ q * M \in Nat
      /\ M * (q - (n + 1)) \in Int
  BY <1>1
<1> QED BY <1>1, <1>2, <1>3, <1>4, <1>5

LEMMA SampleHasRoom ==
  ASSUME GpuInv, NEW t \in Thread, pc[t] = "sample"
  PROVE  HasRoom(t)
<1>1. /\ quota[t] = SamplesPerStream(request) /\ RequestValid
      /\ count[t] < quota[t] \/ len[t] = 0
      /\ len[t] <= M * count[t]
  BY LiveOpen DEF GpuInv, BufferInv, BufferAt, InLoop, Live, Open
<1>2. quota[t] \in Nat \ {0}
  BY <1>1, QuotaPositive DEF RequestValid
<1>3. len[t] \in Nat /\ count[t] \in Nat
  BY DEF GpuInv, TypeOK
<1>4. CASE count[t] < quota[t]
  BY <1>1, <1>2, <1>3, <1>4, Room DEF HasRoom, Capacity
<1>5. CASE len[t] = 0
  BY <1>2, <1>5, Room, MetricCount DEF HasRoom, Capacity
<1> QED BY <1>1, <1>4, <1>5

LEMMA CollectStep ==
  ASSUME GpuInv, NEW t \in Thread, Collect(t)
  PROVE  GpuInv'
<1> USE GpuAssumption
<1>0. Live(t)
  BY DEF Collect, CollectBegin, CollectCheck, CollectSample, CollectDeliver, CollectReturn,
     CollectRest, Live
<1>01. Open /\ request # NoRequest /\ dataCallback
  BY <1>0, LiveOpen DEF Open, RequestValid
<1>1. CASE CollectBegin(t)
  <2>0. /\ pc[t] = "begin" /\ UNCHANGED <<api, handle, sent, fault>>
        /\ \/ /\ quota' = [quota EXCEPT ![t] = SamplesPerStream(request)]
              /\ len' = [len EXCEPT ![t] = 0]
              /\ count' = [count EXCEPT ![t] = 0]
              /\ pc' = [pc EXCEPT ![t] = "loop"]
              /\ UNCHANGED running
           \/ running' = FALSE /\ pc' = [pc EXCEPT ![t] = "done"] /\ UNCHANGED <<quota,
              len, count>>
    BY <1>01, <1>1 DEF CollectBegin, Move, buffers
  <2>01. SamplesPerStream(request) \in Nat
    BY <1>01, QuotaPositive DEF Open, RequestValid
  <2>02. quota' \in [Thread -> Nat] /\ len' \in [Thread -> Nat] /\ count' \in [Thread -> Nat]
    BY <2>0, <2>01 DEF GpuInv, TypeOK
  <2>1. TypeOK'
    BY <2>0, <2>02 DEF GpuInv, TypeOK, Pc, api, sent
  <2>2. NoFault' /\ CollectorOwned' /\ SessionInv'
    BY <1>0, <1>01, <2>0 DEF GpuInv, TypeOK, NoFault, CollectorOwned, SessionInv, Open,
       RequestValid,
       Live, Pc, api
  <2>3. BufferInv'
    BY <1>01, <2>0, QuotaPositive, MetricCount DEF GpuInv, TypeOK, BufferInv, BufferAt,
       InLoop,
       api, buffers, Open, RequestValid
  <2> QED BY <2>1, <2>2, <2>3 DEF GpuInv
<1>2. CASE CollectCheck(t)
  <2>1. TypeOK'
    BY <1>01, <1>2, MetricCount DEF GpuInv, TypeOK, Pc, Fault, api, buffers, sent, Open,
       RequestValid, Move, Undefined, CollectCheck
  <2>2. NoFault' /\ CollectorOwned' /\ SessionInv'
    BY <1>0, <1>01, <1>2 DEF GpuInv, TypeOK, NoFault, CollectorOwned, SessionInv, Open,
       RequestValid,
       Live, Pc, api, Move, Undefined, CollectCheck
  <2>3. BufferInv'
    BY <1>01, <1>2, MetricCount DEF GpuInv, TypeOK, BufferInv, BufferAt, InLoop,
       api, buffers, Open, RequestValid, Move, Undefined, CollectCheck
  <2> QED BY <2>1, <2>2, <2>3 DEF GpuInv
<1>3. CASE CollectSample(t)
  <2>1. PICK valid \in SUBSET Metric, elapsed \in BOOLEAN :
          /\ len' = IF valid # {} /\ HasRoom(t)
                    THEN [len EXCEPT ![t] = @ + Cardinality(valid)]
                    ELSE len
          /\ count' = IF count[t] < quota[t] THEN [count EXCEPT ![t] = @ + 1] ELSE count
          /\ Move(t, IF (count'[t] >= quota[t] \/ elapsed) /\ len'[t] > 0
                     THEN "deliver" ELSE "rest")
    BY <1>3 DEF CollectSample
  <2>2. pc[t] = "sample" /\ UNCHANGED <<api, running, handle, quota, sent, fault>>
    BY <1>3 DEF CollectSample
  <2>3. PICK k \in Nat : k = Cardinality(valid)
    BY ValidCount
  <2>4. k <= M /\ M \in Nat
    BY <2>3, ValidCount, MetricCount
  <2>5. /\ len' \in [Thread -> Nat] /\ len'[t] \in {len[t], len[t] + k}
        /\ \A u \in Thread \ {t} : len'[u] = len[u]
    BY <2>1, <2>3 DEF GpuInv, TypeOK
  <2>6. /\ count' \in [Thread -> Nat]
        /\ count'[t] = IF count[t] < quota[t] THEN count[t] + 1 ELSE count[t]
        /\ \A u \in Thread \ {t} : count'[u] = count[u]
    BY <2>1 DEF GpuInv, TypeOK
  <2>7. PICK at \in {"deliver", "rest"} :
          /\ pc' = [pc EXCEPT ![t] = at]
          /\ at = "deliver" => len'[t] > 0
          /\ at = "rest" => len'[t] = 0 \/ count'[t] < quota[t]
    <3> DEFINE due == (count'[t] >= quota[t] \/ elapsed) /\ len'[t] > 0
    <3>1. CASE due
      BY <2>1, <3>1 DEF Move
    <3>2. CASE ~due
      <4>1. pc' = [pc EXCEPT ![t] = "rest"]
        BY <2>1, <3>2 DEF Move
      <4>2. len'[t] \in Nat /\ count'[t] \in Nat /\ quota[t] \in Nat
        BY <2>5, <2>6 DEF GpuInv, TypeOK
      <4>3. len'[t] = 0 \/ count'[t] < quota[t]
        BY <3>2, <4>2
      <4> QED BY <4>1, <4>3
    <3> QED BY <3>1, <3>2
  <2>8. TypeOK'
    BY <2>2, <2>5, <2>6, <2>7 DEF GpuInv, TypeOK, Pc, api, sent
  <2>9. NoFault' /\ CollectorOwned' /\ SessionInv'
    BY <1>0, <2>2, <2>7 DEF GpuInv, TypeOK, NoFault, CollectorOwned, SessionInv, Open,
       RequestValid, Live, Pc, api
  <2>10. /\ quota[t] = SamplesPerStream(request) /\ quota[t] \in Nat /\ count[t] \in Nat
         /\ len[t] \in Nat /\ count[t] <= quota[t] /\ len[t] <= M * count[t]
         /\ count[t] < quota[t] \/ len[t] = 0
    BY <2>2 DEF GpuInv, TypeOK, BufferInv, BufferAt, InLoop
  <2>11. quota[t] > 0
    BY <1>01, <2>10, QuotaPositive DEF Open, RequestValid
  <2>12. len'[t] <= M * count'[t] /\ count'[t] <= quota[t]
    <3>1. CASE count[t] < quota[t]
      <4>1. len[t] + M <= M * (count[t] + 1)
        BY <2>10, <3>1, Room
      <4>2. len'[t] <= len[t] + M
        BY <2>4, <2>5, <2>10
      <4>3. count'[t] = count[t] + 1 /\ M * (count[t] + 1) \in Nat /\ len'[t] \in Nat
        BY <2>4, <2>5, <2>6, <2>10, <3>1
      <4> QED BY <2>4, <2>10, <3>1, <4>1, <4>2, <4>3
    <3>2. CASE ~(count[t] < quota[t])
      <4>1. count'[t] = quota[t] /\ len[t] = 0
        BY <2>6, <2>10, <3>2
      <4>2. M <= M * quota[t]
        BY <2>4, <2>10, <2>11, Room
      <4> QED BY <2>4, <2>5, <2>10, <4>1, <4>2
    <3> QED BY <3>1, <3>2
  <2>13. BufferAt(t)'
    BY <2>2, <2>7, <2>10, <2>12 DEF BufferAt, InLoop, api, GpuInv, TypeOK
  <2>14. ASSUME NEW u \in Thread, u # t PROVE BufferAt(u)'
    BY <2>2, <2>5, <2>6, <2>7, <2>14 DEF BufferAt, InLoop, api, GpuInv, TypeOK, BufferInv
  <2> QED BY <2>8, <2>9, <2>13, <2>14 DEF GpuInv, BufferInv
<1>4. CASE CollectDeliver(t)
  <2>1. TypeOK'
    BY <1>01, <1>4 DEF GpuInv, TypeOK, Pc, Fault, api, buffers, sent, Open,
       RequestValid, Move, Undefined, CollectDeliver
  <2>2. NoFault' /\ CollectorOwned' /\ SessionInv'
    BY <1>0, <1>01, <1>4 DEF GpuInv, TypeOK, NoFault, CollectorOwned, SessionInv, Open,
       RequestValid,
       Live, Pc, api, Move, Undefined, CollectDeliver
  <2>3. BufferInv'
    BY <1>01, <1>4 DEF GpuInv, TypeOK, BufferInv, BufferAt, InLoop,
       api, buffers, Open, RequestValid, Move, Undefined, CollectDeliver
  <2> QED BY <2>1, <2>2, <2>3 DEF GpuInv
<1>5. CASE CollectReturn(t)
  <2>1. TypeOK'
    BY <1>01, <1>5, MetricCount DEF GpuInv, TypeOK, Pc, Fault, api, buffers, sent, Open,
       RequestValid, Move, Undefined, CollectReturn
  <2>2. NoFault' /\ CollectorOwned' /\ SessionInv'
    BY <1>0, <1>01, <1>5 DEF GpuInv, TypeOK, NoFault, CollectorOwned, SessionInv, Open,
       RequestValid,
       Live, Pc, api, Move, Undefined, CollectReturn
  <2>3. BufferInv'
    BY <1>01, <1>5, MetricCount DEF GpuInv, TypeOK, BufferInv, BufferAt, InLoop,
       api, buffers, Open, RequestValid, Move, Undefined, CollectReturn
  <2> QED BY <2>1, <2>2, <2>3 DEF GpuInv
<1>6. CASE CollectRest(t)
  <2>0. /\ pc[t] = "rest" /\ pc' = [pc EXCEPT ![t] = "loop"]
        /\ UNCHANGED <<api, running, handle, quota, len, count, sent, fault>>
    BY <1>01, <1>6 DEF CollectRest, Move, buffers
  <2>1. TypeOK'
    BY <1>01, <2>0 DEF GpuInv, TypeOK, Pc, Fault, api, buffers, sent, Open,
       RequestValid
  <2>2. NoFault' /\ CollectorOwned' /\ SessionInv'
    BY <1>0, <1>01, <2>0 DEF GpuInv, TypeOK, NoFault, CollectorOwned, SessionInv, Open,
       RequestValid,
       Live, Pc, api
  <2>3. BufferInv'
    BY <1>01, <2>0 DEF GpuInv, TypeOK, BufferInv, BufferAt, InLoop,
       api, buffers, Open, RequestValid
  <2> QED BY <2>1, <2>2, <2>3 DEF GpuInv
<1> QED BY <1>1, <1>2, <1>3, <1>4, <1>5, <1>6 DEF Collect

LEMMA GpuStep ==
  ASSUME StopsFirst, ~CallbackStops, GpuInv, [Next]_vars
  PROVE  GpuInv'
<1>1. CASE App
  BY <1>1, AppStep
<1>2. ASSUME NEW t \in Thread, Collect(t) PROVE GpuInv'
  BY <1>2, CollectStep
<1>3. CASE UNCHANGED vars
  BY <1>3 DEF vars, api, buffers, sent, GpuInv, TypeOK, NoFault, CollectorOwned, Live,
     SessionInv,
     Open, RequestValid, BufferInv, BufferAt
<1> QED BY <1>1, <1>2, <1>3 DEF Next, CallbackStop

-----------------------------------------------------------------------------
(* The theorems.  Both assumptions are needed: the runs disconnect and      *)
(* selfstop show what happens without them.                                 *)

LEMMA GpuInductive ==
  ASSUME StopsFirst, ~CallbackStops
  PROVE  Spec => []GpuInv
<1>1. Init => GpuInv
  BY GpuInit_Inv
<1>2. GpuInv /\ [Next]_vars => GpuInv'
  BY GpuStep
<1> QED BY <1>1, <1>2, PTL DEF Spec

(* If the application stops its session before it disconnects, and never    *)
(* from the data callback, then whatever the interleaving with the sampling *)
(* thread, its failures and the failures of thread_create: the callback is  *)
(* set when it is called, and the request is there when it is read.         *)
THEOREM GpuNoFault ==
  ASSUME StopsFirst, ~CallbackStops
  PROVE  Spec => []NoFault
<1>1. GpuInv => NoFault
  BY DEF GpuInv
<1> QED BY <1>1, GpuInductive, PTL

(* For such an application every variable has its type: the counts of a     *)
(* buffer are numbers, and no thread is at a point its loop does not have.  *)
THEOREM GpuTypeOK ==
  ASSUME StopsFirst, ~CallbackStops
  PROVE  Spec => []TypeOK
<1>1. GpuInv => TypeOK
  BY DEF GpuInv
<1> QED BY <1>1, GpuInductive, PTL

(* For such an application a sampling thread always belongs to the handle.  *)
THEOREM GpuCollectorOwned ==
  ASSUME StopsFirst, ~CallbackStops
  PROVE  Spec => []CollectorOwned
<1>1. GpuInv => CollectorOwned
  BY DEF GpuInv
<1> QED BY <1>1, GpuInductive, PTL

(* For such an application stop returns only when the sampling thread is    *)
(* gone.                                                                    *)
THEOREM GpuQuietUnlessStarted ==
  ASSUME StopsFirst, ~CallbackStops
  PROVE  Spec => []QuietUnlessStarted
<1>1. GpuInv => QuietUnlessStarted
  BY LiveOpen DEF GpuInv, SessionInv, QuietUnlessStarted
<1> QED BY <1>1, GpuInductive, PTL

(* For such an application no sample is dropped for want of room, whatever  *)
(* the rates of the request and the number of metrics.                      *)
THEOREM GpuBufferNeverFull ==
  ASSUME StopsFirst, ~CallbackStops
  PROVE  Spec => []BufferNeverFull
<1>1. GpuInv => BufferNeverFull
  BY SampleHasRoom DEF BufferNeverFull
<1> QED BY <1>1, GpuInductive, PTL

-----------------------------------------------------------------------------
(* The refinement of CollectorSession: its safety part.                     *)

Stopping == appPc \in {"stop_flag", "stop_join", "stop_destroy"}
Mapped == <<session, batches, batch>>

LEMMA LiveSession ==
  ASSUME GpuInv, NEW t \in Thread, Live(t)
  PROVE  session = IF Stopping THEN "stopping" ELSE "active"
BY LiveOpen, GpuAssumption DEF session, Session, Stopping, GpuInv, SessionInv

LEMMA AppRefines ==
  ASSUME StopsFirst, GpuInv, GpuInv', App
  PROVE  [Promise!SNext]_Mapped
<1> USE GpuAssumption DEF Mapped, GpuInv, SessionInv
<1>1. ASSUME UNCHANGED <<appPc, fresh, handle, pc, batches, batch>>
      PROVE  UNCHANGED Mapped
  BY <1>1 DEF session, Session, Live
<1>2. CASE AllocRequest \/ FreeRequest \/ GpuInit \/ SetDataCallback \/ GpuDeinit
  BY <1>1, <1>2 DEF AllocRequest, FreeRequest, GpuInit, SetDataCallback, GpuDeinit, sent
<1>3. CASE GpuStart
  <2>1. UNCHANGED Mapped
    BY <1>3 DEF GpuStart, session, Session, Live, sent
  <2> QED BY <2>1
<1>4. CASE GpuStop
  <2>1. UNCHANGED <<batches, batch>> /\ appPc = "idle"
    BY <1>4 DEF GpuStop, sent
  <2>2. CASE handle = NoThread
    <3>1. UNCHANGED Mapped
      BY <1>4, <2>2 DEF GpuStop, session, Session, Live, sent
    <3> QED BY <3>1
  <2>3. CASE handle # NoThread
    <3>1. session \in {"active", "dead"} /\ session' = "stopping"
      BY <1>4, <2>3 DEF GpuStop, session, Session
    <3> QED BY <2>1, <3>1 DEF Promise!SNext, Promise!Stop
  <2> QED BY <2>2, <2>3
<1>5. CASE StartCreate
  <2>1. UNCHANGED <<batches, batch>> /\ session = "idle"
    BY <1>5 DEF StartCreate, sent, session, TypeOK
  <2>2. session' = "active" \/ session' = "idle"
    <3>1. ASSUME NEW t \in Thread, pc' = [pc EXCEPT ![t] = "begin"], fresh' = t,
                 appPc' = "start_store"
          PROVE  session' = "active"
      BY <3>1 DEF session, Session, Live, TypeOK
    <3>2. ASSUME appPc' = "idle", UNCHANGED handle PROVE session' = "idle"
      BY <1>5, <3>2 DEF session, StartCreate, TypeOK
    <3> QED BY <1>5, <3>1, <3>2 DEF StartCreate
  <2> QED BY <2>1, <2>2 DEF Promise!SNext, Promise!Start
<1>6. CASE StartStore
  <2>1. UNCHANGED Mapped
    BY <1>6 DEF StartStore, session, Session, Live, sent
  <2> QED BY <2>1
<1>7. CASE StopFlag \/ StopJoin
  <2>1. UNCHANGED Mapped
    BY <1>7 DEF StopFlag, StopJoin, session, Session, Live, sent
  <2> QED BY <2>1
<1>8. CASE StopDestroy
  <2>1. session = "stopping" /\ session' = "idle" /\ UNCHANGED <<batches, batch>>
    BY <1>8 DEF StopDestroy, session, sent
  <2> QED BY <2>1 DEF Promise!SNext, Promise!Stopped
<1> QED BY <1>2, <1>3, <1>4, <1>5, <1>6, <1>7, <1>8 DEF App, AppCall

LEMMA CollectRefines ==
  ASSUME GpuInv, GpuInv', NEW t \in Thread, Collect(t)
  PROVE  [Promise!SNext]_Mapped
<1> USE GpuAssumption
<1>0. Live(t)
  BY DEF Collect, CollectBegin, CollectCheck, CollectSample, CollectDeliver, CollectReturn,
     CollectRest, Live
<1>1. /\ session = IF Stopping THEN "stopping" ELSE "active"
      /\ (t = handle /\ started) \/ (t = fresh /\ appPc = "start_store")
      /\ \A u \in Thread : Live(u) => u = t
  BY <1>0, LiveSession, LiveOpen
<1>2. UNCHANGED <<appPc, fresh, handle>>
  BY DEF Collect, CollectBegin, CollectCheck, CollectSample, CollectDeliver, CollectReturn,
     CollectRest, api, Undefined
<1>3. session' \in {session, "dead"} /\ (session = "stopping" => session' = session)
  BY <1>1, <1>2 DEF session, Session, Stopping, GpuInv, SessionInv, TypeOK
<1>4. CASE UNCHANGED <<batches, batch>>
  BY <1>1, <1>3, <1>4 DEF Mapped, Promise!SNext, Promise!Die
<1>5. CASE CollectDeliver(t) /\ dataCallback /\ ~Undefined("null_callback")
  <2>1. batches' = 1 - batches /\ batch' = len[t] /\ pc' = [pc EXCEPT ![t] = "callback"]
    BY <1>5 DEF CollectDeliver, Move
  <2>2. Live(t)'
    BY <2>1 DEF Live, GpuInv, TypeOK
  <2>3. session' = session
    BY <1>1, <1>2, <2>2 DEF Stopping, session, Session, GpuInv, SessionInv, TypeOK
  <2>4. /\ RequestValid /\ quota[t] = SamplesPerStream(request)
        /\ len[t] > 0 /\ len[t] <= M * count[t] /\ count[t] <= quota[t]
        /\ len[t] \in Nat /\ count[t] \in Nat /\ quota[t] \in Nat
    BY <1>0, <1>5, LiveOpen DEF CollectDeliver, GpuInv, TypeOK, BufferInv, BufferAt,
       InLoop, Open
  <2>5. M * count[t] <= quota[t] * M /\ M * count[t] \in Nat /\ quota[t] * M \in Nat
    <3>1. M \in Nat
      BY MetricCount
    <3>2. quota[t] * M = M * count[t] + M * (quota[t] - count[t])
      BY <2>4, <3>1
    <3>3. quota[t] - count[t] \in Nat
      BY <2>4
    <3>4. M * (quota[t] - count[t]) \in Nat /\ M * count[t] \in Nat
      BY <2>4, <3>1, <3>3
    <3> QED BY <3>2, <3>4
  <2>6. len[t] \in 1 .. (SamplesPerStream(request) * M)
    BY <2>4, <2>5
  <2>7. len[t] \in BatchSizes
    BY <2>4, <2>6 DEF BatchSizes, RequestValid
  <2> QED BY <1>1, <2>1, <2>3, <2>7 DEF Promise!SNext, Promise!Deliver, Stopping
<1>6. CASE CollectDeliver(t) /\ ~dataCallback
  BY <1>4, <1>6 DEF CollectDeliver, Undefined, sent
<1>7. CASE CollectDeliver(t) /\ Undefined("null_callback")
  BY <1>4, <1>7 DEF Undefined, sent
<1>8. CASE ~CollectDeliver(t)
  BY <1>4, <1>8 DEF Collect, CollectBegin, CollectCheck, CollectSample, CollectReturn,
     CollectRest, Undefined, sent
<1> QED BY <1>5, <1>6, <1>7, <1>8

(* For an application that stops its session before it disconnects, and not *)
(* from the data callback, the backend's steps are steps of the promise:    *)
(* one session per start, batches of the right size and only while it is    *)
(* open.  (That a stop ends is checked by the run session.)                 *)
THEOREM GpuRefinesSession ==
  ASSUME StopsFirst, ~CallbackStops
  PROVE  Spec => Promise!SInit /\ [][Promise!SNext]_Mapped
<1>1. Init => Promise!SInit
  BY GpuAssumption DEF Init, Promise!SInit, session
<1>2. GpuInv /\ GpuInv' /\ [Next]_vars => [Promise!SNext]_Mapped
  <2> SUFFICES ASSUME GpuInv, GpuInv', [Next]_vars PROVE [Promise!SNext]_Mapped
    OBVIOUS
  <2>1. CASE App
    BY <2>1, AppRefines
  <2>2. ASSUME NEW t \in Thread, Collect(t) PROVE [Promise!SNext]_Mapped
    BY <2>2, CollectRefines
  <2>3. CASE UNCHANGED vars
    <3>1. UNCHANGED Mapped
      BY <2>3 DEF vars, api, sent, Mapped, session, Session, Live
    <3> QED BY <3>1
  <2> QED BY <2>1, <2>2, <2>3 DEF Next, CallbackStop
<1> QED BY <1>1, <1>2, GpuInductive, PTL DEF Spec
=============================================================================
