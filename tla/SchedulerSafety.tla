---------------------------- MODULE SchedulerSafety ----------------------------
(***************************************************************************)
(* Type correctness of Scheduler, and its safety invariants, for any       *)
(* number of contexts and workers.                                         *)
(*                                                                         *)
(* TypeOK alone is not inductive: an action that dereferences the context  *)
(* a thread holds keeps the types only if the thread holds one.  Locals    *)
(* says where each thread does, and Others that a step of one thread       *)
(* leaves the locals of the others alone.  Below, one lemma for what is    *)
(* shared by several actions, then one lemma per action: the five parts of *)
(* TypeOK, the locals of the thread that moves, the locals of the others.  *)
(***************************************************************************)
EXTENDS Scheduler, SequenceTheorems, FiniteSetTheorems, TLAPS

\* Where a worker runs no context.
Idle == {"unborn", "idle", "loop", "exited", "try_pop_one", "steal_context",
         "wait"}

\* Where a worker goes on after a send.
Resumes == {"handle", "finish", "deinit", "unset_inited", "check_load",
            "lua_ctx_init", "retire_created", "check_alive"}

\* The context that thread t holds in one of its locals, by the place it is at.
Locals(t) ==
    /\ pc[t] \in {"grab_context", "check_valid", "push_message",
                  "push_context", "release_dest"}
           => dest[t] \in Context
    /\ pc[t] \in {"init", "lua_ctx_init", "set_inited", "retire_created"}
           => created[t] \in Context
    /\ dest[t] \in Context /\ back[t] \in {"lua_ctx_init", "retire_created"}
           => created[t] \in Context
    /\ t \in Worker =>
           /\ pc[t] \notin Idle \cup {"sem_post"} => running[t] \in Context
           /\ pc[t] = "sem_post" /\ dest[t] \in Context => running[t] \in Context
           /\ dest[t] \in Context => back[t] \in Resumes
    /\ t \notin Worker =>
           /\ pc[t] \in {"push_one", "sem_post"} => dest[t] \in Context
           /\ dest[t] \in Context => back[t] \in Resumes \cup {"idle", "join"}

TypeInv == TypeOK /\ \A t \in Thread : Locals(t)

\* A remainder is less than the divisor.
LEMMA Mod ==
    ASSUME NEW a \in Int, NEW b \in Nat \ {0}
    PROVE  a % b \in 0 .. b - 1
OBVIOUS

\* What the assumptions say of the names of threads and of the null pointer.
LEMMA Constants ==
    /\ Worker \subseteq Thread
    /\ Main \in Thread
    /\ Net \in Thread
    /\ Main \notin Worker
    /\ Net \notin Worker
    /\ NoContext \notin Context
BY SchedulerAssumption DEF Thread, Worker

\* The locals of the threads other than t do not change.
Others(t) ==
    \A u \in Thread \ {t} :
        /\ pc'[u] = pc[u] /\ dest'[u] = dest[u] /\ back'[u] = back[u]
        /\ created'[u] = created[u]
        /\ u \in Worker => running'[u] = running[u]

\* A step of t keeps the locals of all threads if it keeps those of t.
LEMMA OthersLocals ==
    ASSUME NEW t \in Thread, Others(t), \A u \in Thread : Locals(u), Locals(t)'
    PROVE  \A u \in Thread : Locals(u)'
<1>. SUFFICES ASSUME NEW u \in Thread, u # t PROVE Locals(u)'
  OBVIOUS
<1>. QED BY DEF Locals, Others

\* The call of context_send keeps the types of the locals.
LEMMA CallSendType ==
    ASSUME SendType, NEW t \in Thread, NEW c \in Context, NEW m \in Message,
           NEW b \in Label, CallSend(t, c, m, b), UNCHANGED created
    PROVE  SendType'
<1>1. "grab_context" \in Label BY DEF Label
<1>. QED BY <1>1 DEF SendType, CallSend, Goto

\* So does the call of log_fmt.
LEMMA CallLogType ==
    ASSUME SendType, NEW t \in Thread, NEW b \in Label, CallLog(t, b),
           UNCHANGED created
    PROVE  SendType'
<1>1. "check_valid" \in Label /\ "log" \in Message /\ Logger \in Context
  BY SchedulerAssumption DEF Label, Message
<1>. QED BY <1>1 DEF SendType, CallLog, Goto

\* What a call leaves in the locals of its thread.
LEMMA CallLocals ==
    ASSUME SendType, NEW t \in Thread, NEW c \in Context, NEW m, NEW b,
           CallSend(t, c, m, b) \/ (c = Logger /\ CallLog(t, b)),
           UNCHANGED <<created, running>>,
           b \in {"lua_ctx_init", "retire_created"} => created[t] \in Context,
           t \in Worker => running[t] \in Context /\ b \in Resumes,
           t \notin Worker => b \in Resumes \cup {"idle", "join"}
    PROVE  Others(t) /\ Locals(t)'
<1>1. /\ pc'[t] \in {"grab_context", "check_valid"}
      /\ dest'[t] = c /\ back'[t] = b /\ created'[t] = created[t]
  BY DEF SendType, CallSend, CallLog, Goto
<1>2. Others(t) BY DEF Others, SendType, CallSend, CallLog, Goto
<1>3. t \in Worker => running'[t] = running[t] OBVIOUS
<1>4. Locals(t)' BY <1>1, <1>3 DEF Locals, Idle
<1>. QED BY <1>2, <1>4

\* register_context keeps the types.
LEMMA RegisterType ==
    ASSUME TypeOK, NEW t \in Thread, NEW c \in Context, Register(t, c)
    PROVE  TypeOK'
<1>1. ContextType' BY DEF TypeOK, ContextType, Register
<1>2. ManagerType' BY DEF TypeOK, ManagerType, Register, mgrVars
<1>3. RunType' BY DEF TypeOK, RunType, Register, runVars
<1>4. SendType'
  <2>1. "init" \in Label BY DEF Label
  <2>. QED BY <2>1 DEF TypeOK, SendType, Register, Goto, sendVars
<1>5. LoopType' BY DEF TypeOK, LoopType, Register, loopVars
<1>. QED BY <1>1, <1>2, <1>3, <1>4, <1>5 DEF TypeOK

\* repush_context scans workers that exist.
LEMMA ShortestType ==
    ASSUME TypeOK, NEW t \in Worker, shortest(t)
    PROVE  LoopType'
<1>1. t \in Thread /\ 0 \in Worker BY Constants, SchedulerAssumption DEF Worker
<1>2. target \in [Thread -> Worker] /\ scan \in [Thread -> 0 .. MAX_WORKER_NUM]
  /\ num \in [Thread -> Int] /\ sent \in 0 .. MAX_SENT BY DEF TypeOK, LoopType
<1>3. /\ m_worker_num \in 1 .. MAX_WORKER_NUM
      /\ MAX_WORKER_NUM \in Nat
      /\ queue \in [Worker -> Seq(Context)]
  BY SchedulerAssumption DEF TypeOK, ManagerType
<1>4. scan[t] \in 0 .. MAX_WORKER_NUM BY <1>1, <1>2
<1>5. scan[t] < m_worker_num =>
          /\ scan[t] \in Worker
          /\ scan[t] + 1 \in 0 .. MAX_WORKER_NUM
          /\ Len(queue[scan[t]]) \in Int
   BY <1>1,<1>3,<1>4 DEF Worker
<1>6. 0 \in 0 .. MAX_WORKER_NUM BY <1>3
<1>7. target' \in [Thread -> Worker] BY <1>1, <1>2, <1>5 DEF shortest
<1>8. scan' \in [Thread -> 0 .. MAX_WORKER_NUM]
  BY <1>1, <1>2, <1>5, <1>6 DEF shortest
<1>9. num' \in [Thread -> Int] BY <1>1, <1>2, <1>5, <1>6 DEF shortest
<1>10. sent' \in 0 .. MAX_SENT BY <1>2 DEF shortest
<1>. QED BY <1>7, <1>8, <1>9, <1>10 DEF LoopType

\* pop_message hands over a message of the queue.
LEMMA PopType ==
    ASSUME TypeOK, NEW t \in Worker, running[t] \in Context, pop_message(t)
    PROVE  ContextType' /\ RunType'
<1>1. /\ m_message_queue \in [Context -> Seq(Message)]
      /\ m_processing \in [Context -> BOOLEAN]
      /\ m_worker \in [Context -> Worker \cup {NoWorker}]
      /\ message \in [Worker -> Message]
  BY DEF TypeOK, ContextType, RunType
<1>a. m_message_queue[running[t]] \in Seq(Message) BY <1>1
<1>2. m_message_queue[running[t]] # << >>
        => /\ Head(m_message_queue[running[t]]) \in Message
           /\ Tail(m_message_queue[running[t]]) \in Seq(Message)
  BY <1>a, HeadTailProperties
<1>3. m_message_queue' \in [Context -> Seq(Message)]
  BY <1>1, <1>2 DEF pop_message
<1>4. /\ m_processing' \in [Context -> BOOLEAN]
      /\ m_worker' \in [Context -> Worker \cup {NoWorker}]
  BY <1>1 DEF pop_message
<1>5. message' \in [Worker -> Message] BY <1>1, <1>2 DEF pop_message
<1>6. UNCHANGED <<m_alloc, m_handle, m_inited, m_ref, running, handled, stolen>>
  BY DEF pop_message
<1>. QED BY <1>3, <1>4, <1>5, <1>6 DEF ContextType, RunType, TypeOK

\* stop wakes workers that exist.
LEMMA WakeupType ==
    ASSUME TypeOK, NEW t \in Thread, wakeup(t)
    PROVE  ManagerType' /\ LoopType'
<1>1. scan \in [Thread -> 0 .. MAX_WORKER_NUM] /\ sem \in [Worker -> Nat]
  /\ m_worker_num \in 1 .. MAX_WORKER_NUM /\ MAX_WORKER_NUM \in Nat
  BY SchedulerAssumption DEF TypeOK, LoopType, ManagerType
<1>2. scan[t] < m_worker_num => scan[t] \in Worker /\ scan[t] + 1 \in 0 .. MAX_WORKER_NUM
  BY <1>1 DEF Worker
<1>3. sem' \in [Worker -> Nat] BY <1>1, <1>2 DEF wakeup
<1>4. scan' \in [Thread -> 0 .. MAX_WORKER_NUM] BY <1>1, <1>2 DEF wakeup
<1>5. UNCHANGED <<queue, m_worker_num, m_worker_push_index, m_exiting,
                  m_ctx_size, target, num, sent>>
  BY DEF wakeup
<1>. QED BY <1>3, <1>4, <1>5 DEF TypeOK, ManagerType, LoopType

\* Half of a number is not more than it.
LEMMA Half ==
    ASSUME NEW n \in Nat
    PROVE  n \div 2 \in 0 .. n
OBVIOUS

\* The halves of a sequence are sequences over the same set.
LEMMA HalfType ==
    ASSUME NEW S, NEW s \in Seq(S), NEW half \in 1 .. Len(s)
    PROVE  /\ Head(s) \in S
           /\ SubSeq(s, 2, half) \in Seq(S)
           /\ SubSeq(s, half + 1, Len(s)) \in Seq(S)
<1>1. \A i \in 1 .. Len(s) : s[i] \in S OBVIOUS
<1>2. Head(s) \in S OBVIOUS
<1>3. \A i \in 2 .. half : s[i] \in S BY <1>1
<1>4. SubSeq(s, 2, half) \in Seq(S) BY <1>3, SubSeqProperties
<1>5. \A i \in half + 1 .. Len(s) : s[i] \in S BY <1>1
<1>6. SubSeq(s, half + 1, Len(s)) \in Seq(S) BY <1>5, SubSeqProperties
<1>. QED BY <1>2, <1>4, <1>6

\* try_pop_half takes contexts out of a queue.
LEMMA StealType ==
    ASSUME TypeOK, NEW t \in Worker, steal_context(t)
    PROVE  /\ ManagerType' /\ LoopType' /\ RunType'
           /\ pc'[t] \in {"attach", "push_many"} => running'[t] \in Context
<1>0. t \in Thread BY Constants
<1>1. /\ scan \in [Thread -> 0 .. MAX_WORKER_NUM]
      /\ queue \in [Worker -> Seq(Context)]
      /\ m_worker_num \in 1 .. MAX_WORKER_NUM /\ MAX_WORKER_NUM \in Nat
      /\ running \in [Worker -> Context \cup {NoContext}]
      /\ stolen \in [Worker -> Seq(Context)]
      /\ pc \in [Thread -> Label]
  BY SchedulerAssumption DEF TypeOK, LoopType, ManagerType, RunType, SendType
<1>2. UNCHANGED <<sem, m_worker_num, m_worker_push_index, m_exiting, m_ctx_size,
                  message, handled, target, num, sent>>
  BY DEF steal_context
<1>3. CASE /\ scan[t] < m_worker_num
           /\ StealFrom(t, scan[t])
           /\ scan' = [scan EXCEPT ![t] = 0]
  <2>1. scan[t] \in Worker BY <1>0, <1>1, <1>3 DEF Worker
  <2>. DEFINE s == queue[scan[t]]
              half == Len(s) \div 2
  <2>2. s \in Seq(Context) /\ Len(s) \in Nat BY <1>1, <2>1
  <2>3. half \in 1 .. Len(s)
    <3>1. half > 0 BY <1>3 DEF StealFrom
    <3>2. half \in 0 .. Len(s) BY <2>2, Half
    <3>. HIDE DEF half, s
    <3>. QED BY <2>2, <3>1, <3>2
  <2>7. /\ queue' = [queue EXCEPT ![scan[t]] = SubSeq(s, half + 1, Len(s))]
        /\ running' = [running EXCEPT ![t] = Head(s)]
        /\ stolen' = [stolen EXCEPT ![t] = SubSeq(s, 2, half)]
    BY <1>3 DEF StealFrom
  <2>. HIDE DEF half, s
  <2>6. /\ Head(s) \in Context
        /\ SubSeq(s, 2, half) \in Seq(Context)
        /\ SubSeq(s, half + 1, Len(s)) \in Seq(Context)
    BY <2>2, <2>3, HalfType
  <2>8. queue' \in [Worker -> Seq(Context)] BY <1>1, <2>1, <2>6, <2>7
  <2>9. /\ running' \in [Worker -> Context \cup {NoContext}]
        /\ running'[t] \in Context
        /\ stolen' \in [Worker -> Seq(Context)]
    BY <1>1, <2>6, <2>7
  <2>10. scan' \in [Thread -> 0 .. MAX_WORKER_NUM]
    <3>1. 0 \in 0 .. MAX_WORKER_NUM BY <1>1
    <3>. QED BY <1>1, <1>3, <3>1
  <2>. QED BY <1>2, <2>8, <2>9, <2>10 DEF TypeOK, ManagerType, LoopType, RunType
<1>4. CASE /\ scan[t] < m_worker_num
           /\ scan' = [scan EXCEPT ![t] = @ + 1]
           /\ UNCHANGED <<queue, running, stolen, pc>>
  <2>1. scan' \in [Thread -> 0 .. MAX_WORKER_NUM] BY <1>0, <1>1, <1>4
  <2>2. pc[t] = "steal_context" BY DEF steal_context
  <2>. QED BY <1>2, <1>4, <2>1, <2>2 DEF TypeOK, ManagerType, LoopType, RunType
<1>5. CASE /\ scan' = [scan EXCEPT ![t] = 0]
           /\ Goto(t, "wait")
           /\ UNCHANGED <<queue, running, stolen>>
  <2>1. scan' \in [Thread -> 0 .. MAX_WORKER_NUM] BY <1>0, <1>1, <1>5
  <2>2. pc'[t] = "wait" BY <1>0, <1>1, <1>5 DEF Goto
  <2>. QED BY <1>2, <1>5, <2>1, <2>2 DEF TypeOK, ManagerType, LoopType, RunType
<1>. QED BY <1>3, <1>4, <1>5 DEF steal_context

\* The round-robin index names a worker that exists.
LEMMA PushContextType ==
    ASSUME TypeOK, NEW t \in Thread, push_context(t)
    PROVE  ManagerType' /\ LoopType'
<1>1. /\ m_worker_push_index \in 0 .. INDEX_RANGE - 1
      /\ target \in [Thread -> Worker]
      /\ m_worker_num \in 1 .. MAX_WORKER_NUM
      /\ MAX_WORKER_NUM \in Nat
      /\ INDEX_RANGE \in Nat \ {0}
  BY SchedulerAssumption DEF TypeOK, LoopType, ManagerType
<1>2. m_worker_push_index % m_worker_num \in Worker BY <1>1, Mod DEF Worker
<1>3. (m_worker_push_index + 1) % INDEX_RANGE \in 0 .. INDEX_RANGE - 1
  <2>. DEFINE i == m_worker_push_index + 1
  <2>1. i \in Int BY <1>1
  <2>. HIDE DEF i
  <2>2. i % INDEX_RANGE \in 0 .. INDEX_RANGE - 1 BY <1>1, <2>1, Mod
  <2>. QED BY <2>2 DEF i
<1>4. target' \in [Thread -> Worker] BY <1>1, <1>2 DEF push_context
<1>5. m_worker_push_index' \in 0 .. INDEX_RANGE - 1 BY <1>3 DEF push_context
<1>6. UNCHANGED <<queue, sem, m_worker_num, m_exiting, m_ctx_size, scan, num,
                  sent>>
  BY DEF push_context
<1>. QED BY <1>4, <1>5, <1>6 DEF TypeOK, ManagerType, LoopType

\* try_pop_one takes a context out of the queue.
LEMMA TryPopType ==
    ASSUME TypeOK, NEW t \in Worker, try_pop_one(t)
    PROVE  /\ ManagerType' /\ RunType'
           /\ pc'[t] = "attach" => running'[t] \in Context
<1>0. t \in Thread BY Constants
<1>1. /\ queue \in [Worker -> Seq(Context)]
      /\ running \in [Worker -> Context \cup {NoContext}]
      /\ pc \in [Thread -> Label]
  BY DEF TypeOK, ManagerType, RunType, SendType
<1>2. queue[t] # << >> => Head(queue[t]) \in Context /\ Tail(queue[t]) \in Seq(Context)
  <2>1. queue[t] \in Seq(Context) BY <1>1
  <2>. QED BY <2>1, HeadTailProperties
<1>3. queue' \in [Worker -> Seq(Context)] BY <1>1, <1>2 DEF try_pop_one
<1>4. running' \in [Worker -> Context \cup {NoContext}]
  BY <1>1, <1>2 DEF try_pop_one
<1>5. pc'[t] = "attach" => running'[t] \in Context
  BY <1>0, <1>1, <1>2 DEF try_pop_one, Goto
<1>6. UNCHANGED <<sem, m_worker_num, m_worker_push_index, m_exiting, m_ctx_size,
                  message, handled, stolen>>
  BY DEF try_pop_one
<1>. QED BY <1>3, <1>4, <1>5, <1>6 DEF TypeOK, ManagerType, RunType

\* After register_context the thread holds the created context.
LEMMA RegisterLocals ==
    ASSUME TypeOK, NEW t \in Thread, Locals(t), NEW c \in Context, Register(t, c),
           t \in Worker => running[t] \in Context
    PROVE  Others(t) /\ Locals(t)'
<1>1. UNCHANGED <<dest, back, running>> BY DEF Register, sendVars, runVars
<1>2. pc'[t] = "init" /\ created'[t] = c BY DEF TypeOK, SendType, Register, Goto
<1>3. Others(t) BY <1>1 DEF Others, TypeOK, SendType, Register, Goto
<1>4. NoContext \notin Context BY SchedulerAssumption
<1>5. Locals(t)' BY <1>1, <1>2, <1>4 DEF Locals
<1>. QED BY <1>3, <1>5

\* The scan of repush_context starts at a worker that exists.
LEMMA RepushType ==
    ASSUME TypeOK, NEW t \in Worker, repush_context(t)
    PROVE  LoopType'
<1>1. 0 \in Worker BY SchedulerAssumption DEF Worker
<1>2. target' \in [Thread -> Worker]
  BY <1>1 DEF TypeOK, LoopType, repush_context
<1>. QED BY <1>2 DEF TypeOK, LoopType, repush_context

\* start_worker moves two threads: the caller and the new worker.
LEMMA StartWorkerType ==
    ASSUME TypeOK, \A u \in Thread : Locals(u), NEW t \in Thread,
           start_worker(t)
    PROVE  /\ ManagerType' /\ LoopType' /\ SendType'
           /\ \A u \in Thread : Locals(u)'
<1>1. /\ m_worker_num \in 1 .. MAX_WORKER_NUM
      /\ MAX_WORKER_NUM \in Nat
      /\ pc \in [Thread -> Label]
      /\ num \in [Thread -> Int]
  BY SchedulerAssumption DEF TypeOK, LoopType, ManagerType, SendType
<1>2. AfterCreate(t) \in {"handle", "grab_logger", "join"} BY DEF AfterCreate
<1>. DEFINE L == AfterCreate(t)
<1>. HIDE DEF L
<1>3. L \in Label /\ "loop" \in Label BY <1>2 DEF L, Label
<1>4. \/ pc' = [pc EXCEPT ![t] = L, ![m_worker_num] = "loop"]
      \/ pc' = [pc EXCEPT ![t] = L]
  BY DEF start_worker, Goto, L
<1>5. \/ m_worker_num' = m_worker_num
      \/ m_worker_num' = m_worker_num + 1 /\ m_worker_num < MAX_WORKER_NUM
  BY DEF start_worker
<1>6. UNCHANGED <<queue, sem, m_worker_push_index, m_exiting, m_ctx_size,
                  runVars, sendVars, target, scan, created, sent>>
  BY DEF start_worker
<1>7. num' \in [Thread -> Int] BY <1>1 DEF start_worker
<1>8. pc' \in [Thread -> Label] BY <1>1, <1>3, <1>4
<1>9. m_worker_num' \in 1 .. MAX_WORKER_NUM BY <1>1, <1>5
<1>10. ASSUME NEW u \in Thread PROVE Locals(u)'
  <2>1. Locals(u) OBVIOUS
  <2>2. pc'[u] = pc[u] \/ (u = t /\ pc'[u] = L) \/ pc'[u] = "loop" BY <1>1, <1>4
  <2>3. L \in {"handle", "grab_logger", "join"} BY <1>2 DEF L
  <2>4. UNCHANGED <<dest, back, running, created>> BY <1>6 DEF sendVars, runVars
  <2>5. CASE pc'[u] = pc[u] BY <2>1, <2>4, <2>5 DEF Locals
  <2>6. CASE pc'[u] = "loop" BY <2>1, <2>4, <2>6 DEF Locals, Idle
  <2>7. CASE u = t /\ pc'[u] = L
    <3>1. pc[t] = "start_worker" BY DEF start_worker
    <3>. QED BY <2>1, <2>3, <2>4, <2>7, <3>1 DEF Locals, Idle
  <2>. QED BY <2>2, <2>5, <2>6, <2>7
<1>. QED
  BY <1>6, <1>7, <1>8, <1>9, <1>10 DEF TypeOK, ManagerType, LoopType, SendType,
     sendVars

\* A step of grab_context keeps the types.
LEMMA GrabContextTyped ==
    ASSUME TypeInv, NEW t \in Thread, grab_context(t)
    PROVE  TypeInv'
<1>0. TypeOK /\ Locals(t) /\ NoContext \notin Context
  BY Constants DEF TypeInv
<1>1. ContextType'
  BY <1>0 DEF TypeOK, ContextType, grab_context
<1>2. ManagerType'
  BY <1>0 DEF TypeOK, ManagerType, mgrVars, grab_context
<1>3. RunType'
  BY <1>0 DEF TypeOK, RunType, runVars, grab_context
<1>4. SendType'
  BY <1>0 DEF TypeOK, SendType, Label, sendVars, grab_context, Return, Goto
<1>5. LoopType'
  BY <1>0 DEF TypeOK, LoopType, loopVars, grab_context
<1>6. Others(t)
  BY <1>0 DEF Others, TypeOK, SendType, runVars, sendVars, grab_context,
     Return, Goto
<1>7. Locals(t)'
  BY <1>0 DEF Locals, Idle, Resumes, TypeOK, RunType, SendType, runVars,
     sendVars, grab_context, Return, Goto
<1>. QED BY OthersLocals, <1>0, <1>1, <1>2, <1>3, <1>4, <1>5, <1>6, <1>7 DEF
   TypeInv, TypeOK

\* A step of check_valid keeps the types.
LEMMA CheckValidTyped ==
    ASSUME TypeInv, NEW t \in Thread, check_valid(t)
    PROVE  TypeInv'
<1>0. TypeOK /\ Locals(t) /\ NoContext \notin Context
  BY Constants DEF TypeInv
<1>1. ContextType'
  BY <1>0 DEF TypeOK, ContextType, ctxVars, check_valid
<1>2. ManagerType'
  BY <1>0 DEF TypeOK, ManagerType, mgrVars, check_valid
<1>3. RunType'
  BY <1>0 DEF TypeOK, RunType, runVars, check_valid
<1>4. SendType'
  BY <1>0 DEF TypeOK, SendType, Label, sendVars, check_valid, EndSend,
     Return, Goto
<1>5. LoopType'
  BY <1>0 DEF TypeOK, LoopType, loopVars, check_valid
<1>6. Others(t)
  BY <1>0 DEF Others, TypeOK, SendType, runVars, sendVars, check_valid,
     EndSend, Return, Goto
<1>7. Locals(t)'
  BY <1>0 DEF Locals, Idle, Resumes, TypeOK, RunType, SendType, runVars,
     sendVars, check_valid, EndSend, Return, Goto, IsValid
<1>. QED BY OthersLocals, <1>0, <1>1, <1>2, <1>3, <1>4, <1>5, <1>6, <1>7 DEF
   TypeInv, TypeOK

\* A step of push_message keeps the types.
LEMMA PushMessageTyped ==
    ASSUME TypeInv, NEW t \in Thread, push_message(t)
    PROVE  TypeInv'
<1>0. TypeOK /\ Locals(t) /\ NoContext \notin Context
  BY Constants DEF TypeInv
<1>1. ContextType'
  BY <1>0, AppendProperties DEF TypeOK, ContextType, SendType, Locals,
     push_message
<1>2. ManagerType'
  BY <1>0 DEF TypeOK, ManagerType, mgrVars, push_message
<1>3. RunType'
  BY <1>0 DEF TypeOK, RunType, runVars, push_message
<1>4. SendType'
  BY <1>0 DEF TypeOK, SendType, Label, sendVars, push_message, EndSend,
     Return, Goto
<1>5. LoopType'
  BY <1>0 DEF TypeOK, LoopType, loopVars, push_message
<1>6. Others(t)
  BY <1>0 DEF Others, TypeOK, SendType, runVars, sendVars, push_message,
     EndSend, Return, Goto
<1>7. Locals(t)'
  BY <1>0 DEF Locals, Idle, Resumes, TypeOK, RunType, SendType, runVars,
     sendVars, push_message, EndSend, Return, Goto
<1>. QED BY OthersLocals, <1>0, <1>1, <1>2, <1>3, <1>4, <1>5, <1>6, <1>7 DEF
   TypeInv, TypeOK

\* A step of push_context keeps the types.
LEMMA PushContextTyped ==
    ASSUME TypeInv, NEW t \in Thread, push_context(t)
    PROVE  TypeInv'
<1>0. TypeOK /\ Locals(t) /\ NoContext \notin Context
  BY Constants DEF TypeInv
<1>1. ContextType'
  BY <1>0 DEF TypeOK, ContextType, SendType, Locals, push_context
<1>2. ManagerType'
  BY <1>0, PushContextType
<1>3. RunType'
  BY <1>0 DEF TypeOK, RunType, runVars, push_context
<1>4. SendType'
  BY <1>0 DEF TypeOK, SendType, Label, sendVars, push_context, Goto
<1>5. LoopType'
  BY <1>0, PushContextType
<1>6. Others(t)
  BY <1>0 DEF Others, TypeOK, SendType, runVars, sendVars, push_context,
     Goto
<1>7. Locals(t)'
  BY <1>0 DEF Locals, Idle, Resumes, TypeOK, RunType, SendType, runVars,
     sendVars, push_context, Goto
<1>. QED BY OthersLocals, <1>0, <1>1, <1>2, <1>3, <1>4, <1>5, <1>6, <1>7 DEF
   TypeInv, TypeOK

\* A step of push_one keeps the types.
LEMMA PushOneTyped ==
    ASSUME TypeInv, NEW t \in Thread, push_one(t)
    PROVE  TypeInv'
<1>0. TypeOK /\ Locals(t) /\ NoContext \notin Context
  BY Constants DEF TypeInv
<1>1. ContextType'
  BY <1>0 DEF TypeOK, ContextType, ctxVars, push_one
<1>2. ManagerType'
  BY <1>0, AppendProperties DEF TypeOK, ManagerType, LoopType, SendType,
     RunType, Locals, Idle, push_one
<1>3. RunType'
  BY <1>0 DEF TypeOK, RunType, push_one
<1>4. SendType'
  BY <1>0 DEF TypeOK, SendType, Label, sendVars, push_one, Goto, AfterPush,
     EndSend, Return
<1>5. LoopType'
  BY <1>0 DEF TypeOK, LoopType, loopVars, push_one
<1>6. Others(t)
  BY <1>0, Constants DEF Others, TypeOK, SendType, RunType, sendVars,
     push_one, Goto, AfterPush, EndSend, Return
<1>7. Locals(t)'
  BY <1>0 DEF Locals, Idle, Resumes, TypeOK, RunType, SendType, sendVars,
     push_one, Goto, AfterPush, EndSend, Return
<1>. QED BY OthersLocals, <1>0, <1>1, <1>2, <1>3, <1>4, <1>5, <1>6, <1>7 DEF
   TypeInv, TypeOK

\* A step of sem_post keeps the types.
LEMMA SemPostTyped ==
    ASSUME TypeInv, NEW t \in Thread, sem_post(t)
    PROVE  TypeInv'
<1>0. TypeOK /\ Locals(t) /\ NoContext \notin Context
  BY Constants DEF TypeInv
<1>1. ContextType'
  BY <1>0 DEF TypeOK, ContextType, ctxVars, sem_post
<1>2. ManagerType'
  BY <1>0 DEF TypeOK, ManagerType, LoopType, SendType, sem_post
<1>3. RunType'
  BY <1>0 DEF TypeOK, RunType, runVars, sem_post
<1>4. SendType'
  BY <1>0 DEF TypeOK, SendType, Label, sendVars, sem_post, AfterPush,
     EndSend, Return, Goto
<1>5. LoopType'
  BY <1>0 DEF TypeOK, LoopType, loopVars, sem_post
<1>6. Others(t)
  BY <1>0 DEF Others, TypeOK, SendType, runVars, sendVars, sem_post,
     AfterPush, EndSend, Return, Goto
<1>7. Locals(t)'
  BY <1>0 DEF Locals, Idle, Resumes, TypeOK, RunType, SendType, runVars,
     sendVars, sem_post, AfterPush, EndSend, Return, Goto
<1>. QED BY OthersLocals, <1>0, <1>1, <1>2, <1>3, <1>4, <1>5, <1>6, <1>7 DEF
   TypeInv, TypeOK

\* A step of release_dest keeps the types.
LEMMA ReleaseDestTyped ==
    ASSUME TypeInv, NEW t \in Thread, release_dest(t)
    PROVE  TypeInv'
<1>0. TypeOK /\ Locals(t) /\ NoContext \notin Context
  BY Constants DEF TypeInv
<1>1. ContextType'
  BY <1>0 DEF TypeOK, ContextType, SendType, Locals, release_dest, Release
<1>2. ManagerType'
  BY <1>0 DEF TypeOK, ManagerType, mgrVars, release_dest
<1>3. RunType'
  BY <1>0 DEF TypeOK, RunType, runVars, release_dest
<1>4. SendType'
  BY <1>0 DEF TypeOK, SendType, Label, release_dest, Return, Goto
<1>5. LoopType'
  BY <1>0 DEF TypeOK, LoopType, loopVars, release_dest
<1>6. Others(t)
  BY <1>0 DEF Others, TypeOK, SendType, runVars, release_dest, Return, Goto
<1>7. Locals(t)'
  BY <1>0 DEF Locals, Idle, Resumes, TypeOK, RunType, SendType, runVars,
     release_dest, Return, Goto
<1>. QED BY OthersLocals, <1>0, <1>1, <1>2, <1>3, <1>4, <1>5, <1>6, <1>7 DEF
   TypeInv, TypeOK

\* A step of init keeps the types.
LEMMA InitTyped ==
    ASSUME TypeInv, NEW t \in Thread, init(t)
    PROVE  TypeInv'
<1>0. TypeOK /\ Locals(t) /\ NoContext \notin Context
  BY Constants DEF TypeInv
<1>1. ContextType'
  BY <1>0 DEF TypeOK, ContextType, ctxVars, init
<1>2. ManagerType'
  BY <1>0 DEF TypeOK, ManagerType, mgrVars, init
<1>3. RunType'
  BY <1>0 DEF TypeOK, RunType, runVars, init
<1>4. SendType'
  BY <1>0, SchedulerAssumption DEF TypeOK, SendType, Label, Message,
     sendVars, init, CallLog, Goto
<1>5. LoopType'
  BY <1>0 DEF TypeOK, LoopType, loopVars, init
<1>6. Others(t)
  BY <1>0 DEF Others, TypeOK, SendType, runVars, sendVars, init, CallLog,
     Goto
<1>7. Locals(t)'
  BY <1>0, SchedulerAssumption DEF Locals, Idle, Resumes, TypeOK, RunType,
     SendType, runVars, sendVars, init, CallLog, Goto
<1>. QED BY OthersLocals, <1>0, <1>1, <1>2, <1>3, <1>4, <1>5, <1>6, <1>7 DEF
   TypeInv, TypeOK

\* A step of lua_ctx_init keeps the types.
LEMMA LuaCtxInitTyped ==
    ASSUME TypeInv, NEW t \in Thread, lua_ctx_init(t)
    PROVE  TypeInv'
<1>0. TypeOK /\ Locals(t) /\ NoContext \notin Context
  BY Constants DEF TypeInv
<1>1. ContextType'
  BY <1>0, AppendProperties DEF TypeOK, ContextType, SendType, Locals,
     Message, lua_ctx_init
<1>2. ManagerType'
  BY <1>0 DEF TypeOK, ManagerType, mgrVars, lua_ctx_init
<1>3. RunType'
  BY <1>0 DEF TypeOK, RunType, runVars, lua_ctx_init
<1>4. SendType'
  BY <1>0 DEF TypeOK, SendType, Label, sendVars, lua_ctx_init, Goto
<1>5. LoopType'
  BY <1>0 DEF TypeOK, LoopType, loopVars, lua_ctx_init
<1>6. Others(t)
  BY <1>0 DEF Others, TypeOK, SendType, runVars, sendVars, lua_ctx_init,
     Goto
<1>7. Locals(t)'
  BY <1>0 DEF Locals, Idle, Resumes, TypeOK, RunType, SendType, runVars,
     sendVars, lua_ctx_init, Goto
<1>. QED BY OthersLocals, <1>0, <1>1, <1>2, <1>3, <1>4, <1>5, <1>6, <1>7 DEF
   TypeInv, TypeOK

\* A step of set_inited keeps the types.
LEMMA SetInitedTyped ==
    ASSUME TypeInv, NEW t \in Thread, set_inited(t)
    PROVE  TypeInv'
<1>0. TypeOK /\ Locals(t) /\ NoContext \notin Context
  BY Constants DEF TypeInv
<1>1. ContextType'
  BY <1>0 DEF TypeOK, ContextType, set_inited
<1>2. ManagerType'
  BY <1>0 DEF TypeOK, ManagerType, mgrVars, set_inited
<1>3. RunType'
  BY <1>0 DEF TypeOK, RunType, runVars, set_inited
<1>4. SendType'
  BY <1>0 DEF TypeOK, SendType, Label, Message, Locals, set_inited, Goto,
     SendCreated
<1>5. LoopType'
  BY <1>0 DEF TypeOK, LoopType, loopVars, set_inited
<1>6. Others(t)
  BY <1>0 DEF Others, TypeOK, SendType, runVars, set_inited, Goto,
     SendCreated
<1>7. Locals(t)'
  BY <1>0 DEF Locals, Idle, Resumes, TypeOK, RunType, SendType, runVars,
     set_inited, Goto, SendCreated
<1>. QED BY OthersLocals, <1>0, <1>1, <1>2, <1>3, <1>4, <1>5, <1>6, <1>7 DEF
   TypeInv, TypeOK

\* A step of retire_created keeps the types.
LEMMA RetireCreatedTyped ==
    ASSUME TypeInv, NEW t \in Thread, retire_created(t)
    PROVE  TypeInv'
<1>0. TypeOK /\ Locals(t) /\ NoContext \notin Context
  BY Constants DEF TypeInv
<1>1. ContextType'
  BY <1>0 DEF TypeOK, ContextType, SendType, Locals, retire_created, Retire,
     Release
<1>2. ManagerType'
  BY <1>0 DEF TypeOK, ManagerType, mgrVars, retire_created, Retire
<1>3. RunType'
  BY <1>0 DEF TypeOK, RunType, runVars, retire_created
<1>4. SendType'
  BY <1>0 DEF TypeOK, SendType, Label, Message, Locals, retire_created,
     Goto, SendCreated
<1>5. LoopType'
  BY <1>0 DEF TypeOK, LoopType, loopVars, retire_created
<1>6. Others(t)
  BY <1>0 DEF Others, TypeOK, SendType, runVars, retire_created, Goto,
     SendCreated
<1>7. Locals(t)'
  BY <1>0 DEF Locals, Idle, Resumes, TypeOK, RunType, SendType, runVars,
     retire_created, Goto, SendCreated
<1>. QED BY OthersLocals, <1>0, <1>1, <1>2, <1>3, <1>4, <1>5, <1>6, <1>7 DEF
   TypeInv, TypeOK

\* A step of check_load keeps the types.
LEMMA CheckLoadTyped ==
    ASSUME TypeInv, NEW t \in Thread, check_load(t)
    PROVE  TypeInv'
<1>0. TypeOK /\ Locals(t) /\ NoContext \notin Context
  BY Constants DEF TypeInv
<1>1. ContextType'
  BY <1>0 DEF TypeOK, ContextType, ctxVars, check_load
<1>2. ManagerType'
  BY <1>0 DEF TypeOK, ManagerType, mgrVars, check_load
<1>3. RunType'
  BY <1>0 DEF TypeOK, RunType, runVars, check_load
<1>4. SendType'
  BY <1>0 DEF TypeOK, SendType, Label, sendVars, check_load, Goto,
     AfterCreate
<1>5. LoopType'
  BY <1>0 DEF TypeOK, LoopType, ManagerType, check_load
<1>6. Others(t)
  BY <1>0 DEF Others, TypeOK, SendType, runVars, sendVars, check_load, Goto,
     AfterCreate
<1>7. Locals(t)'
  BY <1>0 DEF Locals, Idle, Resumes, TypeOK, RunType, SendType, runVars,
     sendVars, check_load, Goto, AfterCreate
<1>. QED BY OthersLocals, <1>0, <1>1, <1>2, <1>3, <1>4, <1>5, <1>6, <1>7 DEF
   TypeInv, TypeOK

\* A step of start_worker keeps the types.
LEMMA StartWorkerTyped ==
    ASSUME TypeInv, NEW t \in Thread, start_worker(t)
    PROVE  TypeInv'
<1>0. TypeOK /\ \A u \in Thread : Locals(u)
  BY DEF TypeInv
<1>1. ContextType'
  BY <1>0 DEF TypeOK, ContextType, ctxVars, start_worker
<1>2. RunType'
  BY <1>0 DEF TypeOK, RunType, runVars, start_worker
<1>. QED BY <1>0, <1>1, <1>2, StartWorkerType DEF TypeInv, TypeOK

\* A step of check_alive keeps the types.
LEMMA CheckAliveTyped ==
    ASSUME TypeInv, NEW t \in Thread, check_alive(t)
    PROVE  TypeInv'
<1>0. TypeOK /\ Locals(t) /\ NoContext \notin Context
  BY Constants DEF TypeInv
<1>1. ContextType'
  BY <1>0 DEF TypeOK, ContextType, ctxVars, check_alive
<1>2. ManagerType'
  BY <1>0 DEF TypeOK, ManagerType, mgrVars, check_alive
<1>3. RunType'
  BY <1>0 DEF TypeOK, RunType, runVars, check_alive
<1>4. SendType'
  BY <1>0, SchedulerAssumption DEF TypeOK, SendType, Label, Message,
     sendVars, check_alive, CallSend, Goto, AfterAlive
<1>5. LoopType'
  BY <1>0 DEF TypeOK, LoopType, loopVars, check_alive
<1>6. Others(t)
  BY <1>0 DEF Others, TypeOK, SendType, runVars, sendVars, check_alive,
     CallSend, Goto, AfterAlive
<1>7. Locals(t)'
  BY <1>0, SchedulerAssumption, Constants DEF Locals, Idle, Resumes, TypeOK,
     RunType, SendType, runVars, sendVars, check_alive, CallSend, Goto,
     AfterAlive
<1>. QED BY OthersLocals, <1>0, <1>1, <1>2, <1>3, <1>4, <1>5, <1>6, <1>7 DEF
   TypeInv, TypeOK

\* A step of stop keeps the types.
LEMMA StopTyped ==
    ASSUME TypeInv, NEW t \in Thread, stop(t)
    PROVE  TypeInv'
<1>0. TypeOK /\ Locals(t) /\ NoContext \notin Context
  BY Constants DEF TypeInv
<1>1. ContextType'
  BY <1>0 DEF TypeOK, ContextType, ctxVars, stop
<1>2. ManagerType'
  BY <1>0 DEF TypeOK, ManagerType, stop
<1>3. RunType'
  BY <1>0 DEF TypeOK, RunType, runVars, stop
<1>4. SendType'
  BY <1>0 DEF TypeOK, SendType, Label, sendVars, stop, Goto, AfterAlive
<1>5. LoopType'
  BY <1>0 DEF TypeOK, LoopType, loopVars, stop
<1>6. Others(t)
  BY <1>0 DEF Others, TypeOK, SendType, runVars, sendVars, stop, Goto,
     AfterAlive
<1>7. Locals(t)'
  BY <1>0 DEF Locals, Idle, Resumes, TypeOK, RunType, SendType, runVars,
     sendVars, stop, Goto, AfterAlive
<1>. QED BY OthersLocals, <1>0, <1>1, <1>2, <1>3, <1>4, <1>5, <1>6, <1>7 DEF
   TypeInv, TypeOK

\* A step of wakeup keeps the types.
LEMMA WakeupTyped ==
    ASSUME TypeInv, NEW t \in Thread, wakeup(t)
    PROVE  TypeInv'
<1>0. TypeOK /\ Locals(t) /\ NoContext \notin Context
  BY Constants DEF TypeInv
<1>1. ContextType'
  BY <1>0 DEF TypeOK, ContextType, ctxVars, wakeup
<1>2. ManagerType'
  BY <1>0, WakeupType
<1>3. RunType'
  BY <1>0 DEF TypeOK, RunType, runVars, wakeup
<1>4. SendType'
  BY <1>0 DEF TypeOK, SendType, Label, sendVars, wakeup, Goto, AfterAlive
<1>5. LoopType'
  BY <1>0, WakeupType
<1>6. Others(t)
  BY <1>0 DEF Others, TypeOK, SendType, runVars, sendVars, wakeup, Goto,
     AfterAlive
<1>7. Locals(t)'
  BY <1>0 DEF Locals, Idle, Resumes, TypeOK, RunType, SendType, runVars,
     sendVars, wakeup, Goto, AfterAlive
<1>. QED BY OthersLocals, <1>0, <1>1, <1>2, <1>3, <1>4, <1>5, <1>6, <1>7 DEF
   TypeInv, TypeOK

\* A step of loop keeps the types.
LEMMA LoopTyped ==
    ASSUME TypeInv, NEW t \in Worker, loop(t)
    PROVE  TypeInv'
<1>0. t \in Thread /\ TypeOK /\ Locals(t) /\ NoContext \notin Context
  BY Constants DEF TypeInv
<1>1. ContextType'
  BY <1>0 DEF TypeOK, ContextType, ctxVars, loop
<1>2. ManagerType'
  BY <1>0 DEF TypeOK, ManagerType, mgrVars, loop
<1>3. RunType'
  BY <1>0 DEF TypeOK, RunType, runVars, loop
<1>4. SendType'
  BY <1>0 DEF TypeOK, SendType, Label, sendVars, loop, Goto
<1>5. LoopType'
  BY <1>0 DEF TypeOK, LoopType, loopVars, loop
<1>6. Others(t)
  BY <1>0 DEF Others, TypeOK, SendType, runVars, sendVars, loop, Goto
<1>7. Locals(t)'
  BY <1>0 DEF Locals, Idle, Resumes, TypeOK, RunType, SendType, runVars,
     sendVars, loop, Goto
<1>. QED BY OthersLocals, <1>0, <1>1, <1>2, <1>3, <1>4, <1>5, <1>6, <1>7 DEF
   TypeInv, TypeOK

\* A step of try_pop_one keeps the types.
LEMMA TryPopOneTyped ==
    ASSUME TypeInv, NEW t \in Worker, try_pop_one(t)
    PROVE  TypeInv'
<1>0. t \in Thread /\ TypeOK /\ Locals(t) /\ NoContext \notin Context
  BY Constants DEF TypeInv
<1>1. ContextType'
  BY <1>0 DEF TypeOK, ContextType, ctxVars, try_pop_one
<1>2. ManagerType'
  BY <1>0, TryPopType
<1>3. RunType'
  BY <1>0, TryPopType
<1>4. SendType'
  BY <1>0 DEF TypeOK, SendType, Label, sendVars, try_pop_one, Goto
<1>5. LoopType'
  BY <1>0 DEF TypeOK, LoopType, loopVars, try_pop_one
<1>6. Others(t)
  BY <1>0, Constants DEF Others, TypeOK, SendType, RunType, sendVars,
     try_pop_one, Goto
<1>7. Locals(t)'
  BY <1>0, TryPopType DEF Locals, Idle, Resumes, TypeOK, RunType, SendType,
     sendVars, try_pop_one, Goto
<1>. QED BY OthersLocals, <1>0, <1>1, <1>2, <1>3, <1>4, <1>5, <1>6, <1>7 DEF
   TypeInv, TypeOK

\* A step of steal_context keeps the types.
LEMMA StealContextTyped ==
    ASSUME TypeInv, NEW t \in Worker, steal_context(t)
    PROVE  TypeInv'
<1>0. t \in Thread /\ TypeOK /\ Locals(t) /\ NoContext \notin Context
  BY Constants DEF TypeInv
<1>1. ContextType'
  BY <1>0 DEF TypeOK, ContextType, ctxVars, steal_context, StealFrom
<1>2. ManagerType'
  BY <1>0, StealType
<1>3. RunType'
  BY <1>0, StealType
<1>4. SendType'
  BY <1>0 DEF TypeOK, SendType, Label, sendVars, steal_context, Goto,
     StealFrom
<1>5. LoopType'
  BY <1>0, StealType
<1>6. Others(t)
  BY <1>0, Constants DEF Others, TypeOK, SendType, RunType, sendVars,
     steal_context, Goto, StealFrom
<1>7. Locals(t)'
  BY <1>0, StealType DEF Locals, Idle, Resumes, TypeOK, RunType, SendType,
     sendVars, steal_context, Goto, StealFrom
<1>. QED BY OthersLocals, <1>0, <1>1, <1>2, <1>3, <1>4, <1>5, <1>6, <1>7 DEF
   TypeInv, TypeOK

\* A step of push_many keeps the types.
LEMMA PushManyTyped ==
    ASSUME TypeInv, NEW t \in Worker, push_many(t)
    PROVE  TypeInv'
<1>0. t \in Thread /\ TypeOK /\ Locals(t) /\ NoContext \notin Context
  BY Constants DEF TypeInv
<1>1. ContextType'
  BY <1>0 DEF TypeOK, ContextType, ctxVars, push_many
<1>2. ManagerType'
  BY <1>0 DEF TypeOK, ManagerType, RunType, push_many
<1>3. RunType'
  BY <1>0 DEF TypeOK, RunType, push_many
<1>4. SendType'
  BY <1>0 DEF TypeOK, SendType, Label, sendVars, push_many, Goto
<1>5. LoopType'
  BY <1>0 DEF TypeOK, LoopType, loopVars, push_many
<1>6. Others(t)
  BY <1>0 DEF Others, TypeOK, SendType, sendVars, push_many, Goto
<1>7. Locals(t)'
  BY <1>0 DEF Locals, Idle, Resumes, TypeOK, RunType, SendType, sendVars,
     push_many, Goto
<1>. QED BY OthersLocals, <1>0, <1>1, <1>2, <1>3, <1>4, <1>5, <1>6, <1>7 DEF
   TypeInv, TypeOK

\* A step of wait keeps the types.
LEMMA WaitTyped ==
    ASSUME TypeInv, NEW t \in Worker, wait(t)
    PROVE  TypeInv'
<1>0. t \in Thread /\ TypeOK /\ Locals(t) /\ NoContext \notin Context
  BY Constants DEF TypeInv
<1>1. ContextType'
  BY <1>0 DEF TypeOK, ContextType, ctxVars, wait
<1>2. ManagerType'
  BY <1>0 DEF TypeOK, ManagerType, wait
<1>3. RunType'
  BY <1>0 DEF TypeOK, RunType, runVars, wait
<1>4. SendType'
  BY <1>0 DEF TypeOK, SendType, Label, sendVars, wait, Goto
<1>5. LoopType'
  BY <1>0 DEF TypeOK, LoopType, loopVars, wait
<1>6. Others(t)
  BY <1>0 DEF Others, TypeOK, SendType, runVars, sendVars, wait, Goto
<1>7. Locals(t)'
  BY <1>0 DEF Locals, Idle, Resumes, TypeOK, RunType, SendType, runVars,
     sendVars, wait, Goto
<1>. QED BY OthersLocals, <1>0, <1>1, <1>2, <1>3, <1>4, <1>5, <1>6, <1>7 DEF
   TypeInv, TypeOK

\* A step of attach keeps the types.
LEMMA AttachTyped ==
    ASSUME TypeInv, NEW t \in Worker, attach(t)
    PROVE  TypeInv'
<1>0. t \in Thread /\ TypeOK /\ Locals(t) /\ NoContext \notin Context
  BY Constants DEF TypeInv
<1>1. ContextType'
  BY <1>0 DEF TypeOK, ContextType, attach
<1>2. ManagerType'
  BY <1>0 DEF TypeOK, ManagerType, mgrVars, attach
<1>3. RunType'
  BY <1>0, SchedulerAssumption DEF TypeOK, RunType, attach
<1>4. SendType'
  BY <1>0 DEF TypeOK, SendType, Label, sendVars, attach, Goto
<1>5. LoopType'
  BY <1>0 DEF TypeOK, LoopType, loopVars, attach
<1>6. Others(t)
  BY <1>0 DEF Others, TypeOK, SendType, sendVars, attach, Goto
<1>7. Locals(t)'
  BY <1>0 DEF Locals, Idle, Resumes, TypeOK, RunType, SendType, sendVars,
     attach, Goto
<1>. QED BY OthersLocals, <1>0, <1>1, <1>2, <1>3, <1>4, <1>5, <1>6, <1>7 DEF
   TypeInv, TypeOK

\* A step of turn keeps the types.
LEMMA TurnTyped ==
    ASSUME TypeInv, NEW t \in Worker, turn(t)
    PROVE  TypeInv'
<1>0. t \in Thread /\ TypeOK /\ Locals(t) /\ NoContext \notin Context
  BY Constants DEF TypeInv
<1>1. ContextType'
  BY <1>0 DEF TypeOK, ContextType, turn
<1>2. ManagerType'
  BY <1>0 DEF TypeOK, ManagerType, mgrVars, turn
<1>3. RunType'
  BY <1>0 DEF TypeOK, RunType, runVars, turn
<1>4. SendType'
  BY <1>0 DEF TypeOK, SendType, Label, sendVars, turn, Goto
<1>5. LoopType'
  BY <1>0 DEF TypeOK, LoopType, loopVars, turn
<1>6. Others(t)
  BY <1>0 DEF Others, TypeOK, SendType, runVars, sendVars, turn, Goto
<1>7. Locals(t)'
  BY <1>0 DEF Locals, Idle, Resumes, TypeOK, RunType, SendType, runVars,
     sendVars, turn, Goto, MayGoOn, IsValid
<1>. QED BY OthersLocals, <1>0, <1>1, <1>2, <1>3, <1>4, <1>5, <1>6, <1>7 DEF
   TypeInv, TypeOK

\* A step of pop_message keeps the types.
LEMMA PopMessageTyped ==
    ASSUME TypeInv, NEW t \in Worker, pop_message(t)
    PROVE  TypeInv'
<1>0. t \in Thread /\ TypeOK /\ Locals(t) /\ NoContext \notin Context
  BY Constants DEF TypeInv
<1>a. running[t] \in Context
  BY <1>0 DEF Locals, Idle, pop_message
<1>1. ContextType'
  BY <1>0, <1>a, PopType
<1>2. ManagerType'
  BY <1>0 DEF TypeOK, ManagerType, mgrVars, pop_message
<1>3. RunType'
  BY <1>0, <1>a, PopType
<1>4. SendType'
  BY <1>0 DEF TypeOK, SendType, Label, sendVars, pop_message, Goto
<1>5. LoopType'
  BY <1>0 DEF TypeOK, LoopType, loopVars, pop_message
<1>6. Others(t)
  BY <1>0 DEF Others, TypeOK, SendType, sendVars, pop_message, Goto
<1>7. Locals(t)'
  BY <1>0 DEF Locals, Idle, Resumes, TypeOK, RunType, SendType, sendVars,
     pop_message, Goto, IsValid
<1>. QED BY OthersLocals, <1>0, <1>1, <1>2, <1>3, <1>4, <1>5, <1>6, <1>7 DEF
   TypeInv, TypeOK

\* A step of release_running keeps the types.
LEMMA ReleaseRunningTyped ==
    ASSUME TypeInv, NEW t \in Worker, release_running(t)
    PROVE  TypeInv'
<1>0. t \in Thread /\ TypeOK /\ Locals(t) /\ NoContext \notin Context
  BY Constants DEF TypeInv
<1>1. ContextType'
  BY <1>0 DEF TypeOK, ContextType, RunType, SendType, Locals, Idle,
     release_running, Release
<1>2. ManagerType'
  BY <1>0 DEF TypeOK, ManagerType, mgrVars, release_running
<1>3. RunType'
  BY <1>0 DEF TypeOK, RunType, release_running
<1>4. SendType'
  BY <1>0 DEF TypeOK, SendType, Label, sendVars, release_running, Goto
<1>5. LoopType'
  BY <1>0 DEF TypeOK, LoopType, loopVars, release_running
<1>6. Others(t)
  BY <1>0 DEF Others, TypeOK, SendType, sendVars, release_running, Goto
<1>7. Locals(t)'
  BY <1>0 DEF Locals, Idle, Resumes, TypeOK, RunType, SendType, sendVars,
     release_running, Goto
<1>. QED BY OthersLocals, <1>0, <1>1, <1>2, <1>3, <1>4, <1>5, <1>6, <1>7 DEF
   TypeInv, TypeOK

\* A step of lua_acts keeps the types.
LEMMA LuaActsTyped ==
    ASSUME TypeInv, NEW t \in Worker, lua_acts(t)
    PROVE  TypeInv'
<1>0. t \in Thread /\ TypeOK /\ SendType /\ Locals(t)
  BY Constants DEF TypeInv, TypeOK
<1>1. pc[t] = "handle" /\ running[t] \in Context
  BY <1>0 DEF Locals, Idle, lua_acts
<1>2. Logger \in Context /\ "data" \in Message /\ "destroy" \in Message
  BY SchedulerAssumption DEF Message
<1>3. "handle" \in Label \cap Resumes /\ "deinit" \in Label \cap Resumes
      /\ "finish" \in Label \cap Resumes
      /\ "unset_inited" \in Label \cap Resumes
  BY DEF Label, Resumes
<1>4. CASE /\ sent < MAX_SENT /\ sent' = sent + 1
           /\ UNCHANGED <<ctxVars, mgrVars, m_ctx_size, runVars, loopVars,
                          created>>
           /\ \/ \E c \in Context, m \in {"data", "destroy"} :
                     CallSend(t, c, m, "handle")
              \/ CallLog(t, "handle")
  <2>1. UNCHANGED <<ctxVars, mgrVars, m_ctx_size, runVars, loopVars, created>>
    BY <1>4
  <2>2. sent' \in 0 .. MAX_SENT
    BY <1>0, <1>4, SchedulerAssumption DEF TypeOK, LoopType
  <2>3. ContextType' /\ ManagerType' /\ RunType' /\ LoopType'
    BY <1>0, <2>1, <2>2 DEF TypeOK, ContextType, ManagerType, RunType,
       LoopType, ctxVars, mgrVars, runVars, loopVars
  <2>4. UNCHANGED created /\ UNCHANGED running
    BY <2>1 DEF runVars
  <2>5. SendType'
    BY <1>0, <1>2, <1>3, <1>4, <2>4, CallSendType, CallLogType
  <2>6. Others(t) /\ Locals(t)'
    BY <1>0, <1>1, <1>2, <1>3, <1>4, <2>4, CallLocals
  <2>. QED BY <1>0, <2>3, <2>5, <2>6, OthersLocals DEF TypeInv, TypeOK
<1>5. CASE \E c \in Context : Register(t, c)
  <2>1. TypeOK'
    BY <1>0, <1>5, RegisterType
  <2>2. Others(t) /\ Locals(t)'
    BY <1>0, <1>1, <1>5, RegisterLocals
  <2>. QED BY <1>0, <2>1, <2>2, OthersLocals DEF TypeInv
<1>. QED BY <1>4, <1>5 DEF lua_acts

\* A step of handle keeps the types.
LEMMA HandleTyped ==
    ASSUME TypeInv, NEW t \in Worker, handle(t)
    PROVE  TypeInv'
<1>0. t \in Thread /\ TypeOK /\ Locals(t) /\ NoContext \notin Context
  BY Constants DEF TypeInv
<1>1. ContextType'
  BY <1>0 DEF TypeOK, ContextType, ctxVars, handle
<1>2. ManagerType'
  BY <1>0 DEF TypeOK, ManagerType, mgrVars, handle
<1>3. RunType'
  BY <1>0 DEF TypeOK, RunType, runVars, handle
<1>4. SendType'
  BY <1>0 DEF TypeOK, SendType, Label, sendVars, handle, Goto
<1>5. LoopType'
  BY <1>0 DEF TypeOK, LoopType, loopVars, handle
<1>6. Others(t)
  BY <1>0 DEF Others, TypeOK, SendType, runVars, sendVars, handle, Goto
<1>7. Locals(t)'
  BY <1>0 DEF Locals, Idle, Resumes, TypeOK, RunType, SendType, runVars,
     sendVars, handle, Goto
<1>. QED BY OthersLocals, <1>0, <1>1, <1>2, <1>3, <1>4, <1>5, <1>6, <1>7 DEF
   TypeInv, TypeOK

\* A step of drop keeps the types.
LEMMA DropTyped ==
    ASSUME TypeInv, NEW t \in Worker, drop(t)
    PROVE  TypeInv'
<1>0. t \in Thread /\ TypeOK /\ SendType /\ Locals(t)
  BY Constants DEF TypeInv, TypeOK
<1>1. pc[t] = "drop" /\ running[t] \in Context
  BY <1>0 DEF Locals, Idle, drop
<1>2. Logger \in Context /\ "data" \in Message /\ "destroy" \in Message
  BY SchedulerAssumption DEF Message
<1>3. "handle" \in Label \cap Resumes /\ "deinit" \in Label \cap Resumes
      /\ "finish" \in Label \cap Resumes
      /\ "unset_inited" \in Label \cap Resumes
  BY DEF Label, Resumes
<1>4. CASE /\ sent < MAX_SENT /\ sent' = sent + 1
           /\ \E c \in Context : CallSend(t, c, "data", "finish")
  <2>1. UNCHANGED <<ctxVars, mgrVars, m_ctx_size, runVars, loopVars, created>>
    BY DEF drop
  <2>2. sent' \in 0 .. MAX_SENT
    BY <1>0, <1>4, SchedulerAssumption DEF TypeOK, LoopType
  <2>3. ContextType' /\ ManagerType' /\ RunType' /\ LoopType'
    BY <1>0, <2>1, <2>2 DEF TypeOK, ContextType, ManagerType, RunType,
       LoopType, ctxVars, mgrVars, runVars, loopVars
  <2>4. UNCHANGED created /\ UNCHANGED running
    BY <2>1 DEF runVars
  <2>5. SendType'
    BY <1>0, <1>2, <1>3, <1>4, <2>4, CallSendType, CallLogType
  <2>6. Others(t) /\ Locals(t)'
    BY <1>0, <1>1, <1>2, <1>3, <1>4, <2>4, CallLocals
  <2>. QED BY <1>0, <2>3, <2>5, <2>6, OthersLocals DEF TypeInv, TypeOK
<1>5. CASE /\ Goto(t, "finish")
           /\ UNCHANGED <<sendVars, sent>>
  <2>1. UNCHANGED <<ctxVars, mgrVars, m_ctx_size, runVars, loopVars, created>>
    BY DEF drop
  <2>2. sent' \in 0 .. MAX_SENT
    BY <1>0, <1>5, SchedulerAssumption DEF TypeOK, LoopType
  <2>3. ContextType' /\ ManagerType' /\ RunType' /\ LoopType'
    BY <1>0, <2>1, <2>2 DEF TypeOK, ContextType, ManagerType, RunType,
       LoopType, ctxVars, mgrVars, runVars, loopVars
  <2>4. SendType'
    BY <1>0, <1>3, <1>5, <2>1 DEF SendType, sendVars, Goto
  <2>5. Others(t)
    BY <1>0, <1>5, <2>1 DEF Others, SendType, sendVars, runVars, Goto
  <2>6. Locals(t)'
    BY <1>0, <1>1, <1>5, <2>1 DEF Locals, Idle, SendType, sendVars, runVars,
       Goto
  <2>. QED BY <1>0, <2>3, <2>4, <2>5, <2>6, OthersLocals DEF TypeInv, TypeOK
<1>. QED BY <1>4, <1>5 DEF drop

\* A step of finish keeps the types.
LEMMA FinishTyped ==
    ASSUME TypeInv, NEW t \in Worker, finish(t)
    PROVE  TypeInv'
<1>0. t \in Thread /\ TypeOK /\ Locals(t) /\ NoContext \notin Context
  BY Constants DEF TypeInv
<1>1. ContextType'
  BY <1>0 DEF TypeOK, ContextType, ctxVars, finish
<1>2. ManagerType'
  BY <1>0 DEF TypeOK, ManagerType, mgrVars, finish
<1>3. RunType'
  BY <1>0, SchedulerAssumption DEF TypeOK, RunType, Message, finish
<1>4. SendType'
  BY <1>0 DEF TypeOK, SendType, Label, sendVars, finish, Goto
<1>5. LoopType'
  BY <1>0 DEF TypeOK, LoopType, loopVars, finish
<1>6. Others(t)
  BY <1>0 DEF Others, TypeOK, SendType, sendVars, finish, Goto
<1>7. Locals(t)'
  BY <1>0 DEF Locals, Idle, Resumes, TypeOK, RunType, SendType, sendVars,
     finish, Goto
<1>. QED BY OthersLocals, <1>0, <1>1, <1>2, <1>3, <1>4, <1>5, <1>6, <1>7 DEF
   TypeInv, TypeOK

\* A step of deinit keeps the types.
LEMMA DeinitTyped ==
    ASSUME TypeInv, NEW t \in Worker, deinit(t)
    PROVE  TypeInv'
<1>0. t \in Thread /\ TypeOK /\ SendType /\ Locals(t)
  BY Constants DEF TypeInv, TypeOK
<1>1. pc[t] = "deinit" /\ running[t] \in Context
  BY <1>0 DEF Locals, Idle, deinit
<1>2. Logger \in Context /\ "data" \in Message /\ "destroy" \in Message
  BY SchedulerAssumption DEF Message
<1>3. "handle" \in Label \cap Resumes /\ "deinit" \in Label \cap Resumes
      /\ "finish" \in Label \cap Resumes
      /\ "unset_inited" \in Label \cap Resumes
  BY DEF Label, Resumes
<1>4. CASE /\ sent < MAX_SENT /\ sent' = sent + 1
           /\ \E c \in Context : CallSend(t, c, "data", "deinit")
  <2>1. UNCHANGED <<ctxVars, mgrVars, m_ctx_size, runVars, loopVars, created>>
    BY DEF deinit
  <2>2. sent' \in 0 .. MAX_SENT
    BY <1>0, <1>4, SchedulerAssumption DEF TypeOK, LoopType
  <2>3. ContextType' /\ ManagerType' /\ RunType' /\ LoopType'
    BY <1>0, <2>1, <2>2 DEF TypeOK, ContextType, ManagerType, RunType,
       LoopType, ctxVars, mgrVars, runVars, loopVars
  <2>4. UNCHANGED created /\ UNCHANGED running
    BY <2>1 DEF runVars
  <2>5. SendType'
    BY <1>0, <1>2, <1>3, <1>4, <2>4, CallSendType, CallLogType
  <2>6. Others(t) /\ Locals(t)'
    BY <1>0, <1>1, <1>2, <1>3, <1>4, <2>4, CallLocals
  <2>. QED BY <1>0, <2>3, <2>5, <2>6, OthersLocals DEF TypeInv, TypeOK
<1>5. CASE CallLog(t, "unset_inited") /\ UNCHANGED sent
  <2>1. UNCHANGED <<ctxVars, mgrVars, m_ctx_size, runVars, loopVars, created>>
    BY DEF deinit
  <2>2. sent' \in 0 .. MAX_SENT
    BY <1>0, <1>5, SchedulerAssumption DEF TypeOK, LoopType
  <2>3. ContextType' /\ ManagerType' /\ RunType' /\ LoopType'
    BY <1>0, <2>1, <2>2 DEF TypeOK, ContextType, ManagerType, RunType,
       LoopType, ctxVars, mgrVars, runVars, loopVars
  <2>4. UNCHANGED created /\ UNCHANGED running
    BY <2>1 DEF runVars
  <2>5. SendType'
    BY <1>0, <1>2, <1>3, <1>5, <2>4, CallSendType, CallLogType
  <2>6. Others(t) /\ Locals(t)'
    BY <1>0, <1>1, <1>2, <1>3, <1>5, <2>4, CallLocals
  <2>. QED BY <1>0, <2>3, <2>5, <2>6, OthersLocals DEF TypeInv, TypeOK
<1>6. CASE /\ Goto(t, "unset_inited")
           /\ UNCHANGED <<sendVars, sent>>
  <2>1. UNCHANGED <<ctxVars, mgrVars, m_ctx_size, runVars, loopVars, created>>
    BY DEF deinit
  <2>2. sent' \in 0 .. MAX_SENT
    BY <1>0, <1>6, SchedulerAssumption DEF TypeOK, LoopType
  <2>3. ContextType' /\ ManagerType' /\ RunType' /\ LoopType'
    BY <1>0, <2>1, <2>2 DEF TypeOK, ContextType, ManagerType, RunType,
       LoopType, ctxVars, mgrVars, runVars, loopVars
  <2>4. SendType'
    BY <1>0, <1>3, <1>6, <2>1 DEF SendType, sendVars, Goto
  <2>5. Others(t)
    BY <1>0, <1>6, <2>1 DEF Others, SendType, sendVars, runVars, Goto
  <2>6. Locals(t)'
    BY <1>0, <1>1, <1>6, <2>1 DEF Locals, Idle, SendType, sendVars, runVars,
       Goto
  <2>. QED BY <1>0, <2>3, <2>4, <2>5, <2>6, OthersLocals DEF TypeInv, TypeOK
<1>. QED BY <1>4, <1>5, <1>6 DEF deinit

\* A step of unset_inited keeps the types.
LEMMA UnsetInitedTyped ==
    ASSUME TypeInv, NEW t \in Worker, unset_inited(t)
    PROVE  TypeInv'
<1>0. t \in Thread /\ TypeOK /\ Locals(t) /\ NoContext \notin Context
  BY Constants DEF TypeInv
<1>1. ContextType'
  BY <1>0 DEF TypeOK, ContextType, unset_inited
<1>2. ManagerType'
  BY <1>0 DEF TypeOK, ManagerType, mgrVars, unset_inited
<1>3. RunType'
  BY <1>0 DEF TypeOK, RunType, runVars, unset_inited
<1>4. SendType'
  BY <1>0 DEF TypeOK, SendType, Label, sendVars, unset_inited, Goto
<1>5. LoopType'
  BY <1>0 DEF TypeOK, LoopType, loopVars, unset_inited
<1>6. Others(t)
  BY <1>0 DEF Others, TypeOK, SendType, runVars, sendVars, unset_inited,
     Goto
<1>7. Locals(t)'
  BY <1>0 DEF Locals, Idle, Resumes, TypeOK, RunType, SendType, runVars,
     sendVars, unset_inited, Goto
<1>. QED BY OthersLocals, <1>0, <1>1, <1>2, <1>3, <1>4, <1>5, <1>6, <1>7 DEF
   TypeInv, TypeOK

\* A step of retire_context keeps the types.
LEMMA RetireContextTyped ==
    ASSUME TypeInv, NEW t \in Worker, retire_context(t)
    PROVE  TypeInv'
<1>0. t \in Thread /\ TypeOK /\ Locals(t) /\ NoContext \notin Context
  BY Constants DEF TypeInv
<1>1. ContextType'
  BY <1>0 DEF TypeOK, ContextType, RunType, SendType, Locals, Idle,
     retire_context, Retire, Release
<1>2. ManagerType'
  BY <1>0 DEF TypeOK, ManagerType, mgrVars, retire_context, Retire
<1>3. RunType'
  BY <1>0 DEF TypeOK, RunType, runVars, retire_context
<1>4. SendType'
  BY <1>0 DEF TypeOK, SendType, Label, sendVars, retire_context, Goto
<1>5. LoopType'
  BY <1>0 DEF TypeOK, LoopType, loopVars, retire_context
<1>6. Others(t)
  BY <1>0 DEF Others, TypeOK, SendType, runVars, sendVars, retire_context,
     Goto
<1>7. Locals(t)'
  BY <1>0 DEF Locals, Idle, Resumes, TypeOK, RunType, SendType, runVars,
     sendVars, retire_context, Goto
<1>. QED BY OthersLocals, <1>0, <1>1, <1>2, <1>3, <1>4, <1>5, <1>6, <1>7 DEF
   TypeInv, TypeOK

\* A step of repush_context keeps the types.
LEMMA RepushContextTyped ==
    ASSUME TypeInv, NEW t \in Worker, repush_context(t)
    PROVE  TypeInv'
<1>0. t \in Thread /\ TypeOK /\ Locals(t) /\ NoContext \notin Context
  BY Constants DEF TypeInv
<1>1. ContextType'
  BY <1>0 DEF TypeOK, ContextType, ctxVars, repush_context
<1>2. ManagerType'
  BY <1>0 DEF TypeOK, ManagerType, mgrVars, repush_context
<1>3. RunType'
  BY <1>0 DEF TypeOK, RunType, runVars, repush_context
<1>4. SendType'
  BY <1>0 DEF TypeOK, SendType, Label, sendVars, repush_context, Goto
<1>5. LoopType'
  BY <1>0, RepushType
<1>6. Others(t)
  BY <1>0 DEF Others, TypeOK, SendType, runVars, sendVars, repush_context,
     Goto
<1>7. Locals(t)'
  BY <1>0 DEF Locals, Idle, Resumes, TypeOK, RunType, SendType, runVars,
     sendVars, repush_context, Goto
<1>. QED BY OthersLocals, <1>0, <1>1, <1>2, <1>3, <1>4, <1>5, <1>6, <1>7 DEF
   TypeInv, TypeOK

\* A step of shortest keeps the types.
LEMMA ShortestTyped ==
    ASSUME TypeInv, NEW t \in Worker, shortest(t)
    PROVE  TypeInv'
<1>0. t \in Thread /\ TypeOK /\ Locals(t) /\ NoContext \notin Context
  BY Constants DEF TypeInv
<1>1. ContextType'
  BY <1>0 DEF TypeOK, ContextType, ctxVars, shortest
<1>2. ManagerType'
  BY <1>0 DEF TypeOK, ManagerType, mgrVars, shortest
<1>3. RunType'
  BY <1>0 DEF TypeOK, RunType, runVars, shortest
<1>4. SendType'
  BY <1>0 DEF TypeOK, SendType, Label, sendVars, shortest, Goto
<1>5. LoopType'
  BY <1>0, ShortestType
<1>6. Others(t)
  BY <1>0 DEF Others, TypeOK, SendType, runVars, sendVars, shortest, Goto
<1>7. Locals(t)'
  BY <1>0 DEF Locals, Idle, Resumes, TypeOK, RunType, SendType, runVars,
     sendVars, shortest, Goto
<1>. QED BY OthersLocals, <1>0, <1>1, <1>2, <1>3, <1>4, <1>5, <1>6, <1>7 DEF
   TypeInv, TypeOK

\* A step of boot_logger keeps the types.
LEMMA BootLoggerTyped ==
    ASSUME TypeInv, NEW t \in Thread, t = Main, boot_logger
    PROVE  TypeInv'
<1>1. TypeOK /\ Locals(t) /\ t \notin Worker /\ Logger \in Context
  BY Constants, SchedulerAssumption DEF TypeInv
<1>2. Register(t, Logger)
  BY DEF boot_logger
<1>3. TypeOK'
  BY <1>1, <1>2, RegisterType
<1>4. Others(t) /\ Locals(t)'
  BY <1>1, <1>2, RegisterLocals
<1>. QED BY <1>3, <1>4, OthersLocals DEF TypeInv

\* A step of grab_logger keeps the types.
LEMMA GrabLoggerTyped ==
    ASSUME TypeInv, NEW t \in Thread, t = Main, grab_logger
    PROVE  TypeInv'
<1>0. TypeOK /\ Locals(t) /\ NoContext \notin Context
  BY Constants DEF TypeInv
<1>a. /\ Main \in Thread
      /\ Net \in Thread
      /\ Main \notin Worker
      /\ Net \notin Worker
  BY Constants
<1>1. ContextType'
  BY <1>0, SchedulerAssumption DEF TypeOK, ContextType, grab_logger
<1>2. ManagerType'
  BY <1>0 DEF TypeOK, ManagerType, mgrVars, grab_logger
<1>3. RunType'
  BY <1>0 DEF TypeOK, RunType, runVars, grab_logger
<1>4. SendType'
  BY <1>0 DEF TypeOK, SendType, Label, sendVars, grab_logger, Goto
<1>5. LoopType'
  BY <1>0 DEF TypeOK, LoopType, loopVars, grab_logger
<1>6. Others(t)
  BY <1>0 DEF Others, TypeOK, SendType, runVars, sendVars, grab_logger, Goto
<1>7. Locals(t)'
  BY <1>0 DEF Locals, Idle, Resumes, TypeOK, RunType, SendType, runVars,
     sendVars, grab_logger, Goto
<1>. QED BY OthersLocals, <1>0, <1>1, <1>2, <1>3, <1>4, <1>5, <1>6, <1>7 DEF
   TypeInv, TypeOK

\* A step of boot_root keeps the types.
LEMMA BootRootTyped ==
    ASSUME TypeInv, NEW t \in Thread, t = Main, boot_root
    PROVE  TypeInv'
<1>1. TypeOK /\ Locals(t) /\ t \notin Worker /\ Root \in Context
  BY Constants, SchedulerAssumption DEF TypeInv
<1>2. Register(t, Root)
  BY DEF boot_root
<1>3. TypeOK'
  BY <1>1, <1>2, RegisterType
<1>4. Others(t) /\ Locals(t)'
  BY <1>1, <1>2, RegisterLocals
<1>. QED BY <1>3, <1>4, OthersLocals DEF TypeInv

\* A step of response keeps the types.
LEMMA ResponseTyped ==
    ASSUME TypeInv, NEW t \in Thread, t = Net, response
    PROVE  TypeInv'
<1>0. TypeOK /\ Locals(t) /\ NoContext \notin Context
  BY Constants DEF TypeInv
<1>a. /\ Main \in Thread
      /\ Net \in Thread
      /\ Main \notin Worker
      /\ Net \notin Worker
  BY Constants
<1>1. ContextType'
  BY <1>0, <1>a, SchedulerAssumption DEF TypeOK, ContextType, ctxVars,
     response
<1>2. ManagerType'
  BY <1>0 DEF TypeOK, ManagerType, mgrVars, response
<1>3. RunType'
  BY <1>0 DEF TypeOK, RunType, runVars, response
<1>4. SendType'
  BY <1>0, <1>a, SchedulerAssumption DEF TypeOK, SendType, Label, Message,
     sendVars, response, CallSend, Goto
<1>5. LoopType'
  BY <1>0, <1>a, SchedulerAssumption DEF TypeOK, LoopType, sendVars,
     loopVars, response
<1>6. Others(t)
  BY <1>0, <1>a, SchedulerAssumption DEF Others, TypeOK, SendType, runVars,
     response, CallSend, Goto
<1>7. Locals(t)'
  BY <1>0, <1>a, SchedulerAssumption DEF Locals, Idle, Resumes, TypeOK,
     RunType, SendType, runVars, response, CallSend, Goto
<1>. QED BY OthersLocals, <1>0, <1>1, <1>2, <1>3, <1>4, <1>5, <1>6, <1>7 DEF
   TypeInv, TypeOK

\* The initial state has the types.
LEMMA InitialTyped ==
    ASSUME Init
    PROVE  TypeInv
<1>0. /\ 0 \in Worker /\ 1 \in 1 .. MAX_WORKER_NUM /\ 0 \in 0 .. INDEX_RANGE - 1
      /\ 0 \in 0 .. MAX_MESSAGE_PROC_NUM /\ 0 \in 0 .. MAX_SENT
      /\ 0 \in 0 .. MAX_WORKER_NUM
  BY SchedulerAssumption DEF Worker
<1>1. ContextType BY DEF Init, ContextType
<1>2. ManagerType
  <2>1. << >> \in Seq(Context) /\ 0 \in Nat OBVIOUS
  <2>2. queue \in [Worker -> Seq(Context)] BY <2>1 DEF Init
  <2>3. sem \in [Worker -> Nat] BY <2>1 DEF Init
  <2>4. /\ m_worker_num = 1 /\ m_worker_push_index = 0
        /\ m_exiting = FALSE /\ m_ctx_size = 0
    BY DEF Init
  <2>5. m_worker_num \in 1 .. MAX_WORKER_NUM BY <1>0, <2>4
  <2>6. m_worker_push_index \in 0 .. INDEX_RANGE - 1 BY <1>0, <2>4
  <2>7. m_exiting \in BOOLEAN BY <2>4
  <2>8. m_ctx_size \in Int BY <2>4
  <2>. QED BY <2>2, <2>3, <2>5, <2>6, <2>7, <2>8 DEF ManagerType
<1>3. RunType BY <1>0 DEF Init, RunType, Message
<1>4. SendType
  <2>1. pc \in [Thread -> Label] BY DEF Init, Label
  <2>. QED BY <2>1 DEF Init, SendType, Label, Message
<1>5. LoopType BY <1>0 DEF Init, LoopType
<1>6. ASSUME NEW t \in Thread PROVE Locals(t)
  <2>1. /\ pc[t] \in {"boot_logger", "idle", "loop", "unborn"}
        /\ dest[t] = NoContext
    BY DEF Init
  <2>2. t \in Worker => pc[t] \in {"loop", "unborn"}
    BY Constants DEF Init
  <2>. QED BY <2>1, <2>2, Constants DEF Locals, Idle
<1>. QED BY <1>1, <1>2, <1>3, <1>4, <1>5, <1>6 DEF TypeInv, TypeOK

\* Every step of the specification keeps the types.
LEMMA NextTyped ==
    ASSUME TypeInv, Next
    PROVE  TypeInv'
<1>1. ASSUME NEW t \in Thread, Send(t) PROVE TypeInv'
  BY <1>1, GrabContextTyped, CheckValidTyped, PushMessageTyped,
     PushContextTyped,
     PushOneTyped, SemPostTyped, ReleaseDestTyped DEF Send
<1>2. ASSUME NEW t \in Thread, Create(t) PROVE TypeInv'
  BY <1>2, InitTyped, LuaCtxInitTyped, SetInitedTyped, RetireCreatedTyped,
     CheckLoadTyped, StartWorkerTyped DEF Create
<1>3. ASSUME NEW t \in Thread, Stop(t) PROVE TypeInv'
  BY <1>3, CheckAliveTyped, StopTyped, WakeupTyped DEF Stop
<1>4. ASSUME Boot PROVE TypeInv'
  BY <1>4, Constants, BootLoggerTyped, GrabLoggerTyped, BootRootTyped DEF Boot
<1>5. ASSUME NEW w \in Worker, WorkerProcess(w) PROVE TypeInv'
  BY <1>5, LoopTyped, TryPopOneTyped, StealContextTyped, PushManyTyped,
     WaitTyped, AttachTyped, TurnTyped, PopMessageTyped,
     ReleaseRunningTyped, LuaActsTyped, HandleTyped, DropTyped,
     FinishTyped, DeinitTyped, UnsetInitedTyped, RetireContextTyped,
     RepushContextTyped, ShortestTyped DEF WorkerProcess
<1>6. ASSUME response PROVE TypeInv'
  BY <1>6, Constants, ResponseTyped
<1>. QED BY <1>1, <1>2, <1>3, <1>4, <1>5, <1>6 DEF Next, Step

\* A step that changes nothing keeps the types.
LEMMA StutterTyped ==
    ASSUME TypeInv, UNCHANGED vars
    PROVE  TypeInv'
<1>1. UNCHANGED <<ctxVars, mgrVars, m_ctx_size, pc, runVars, sendVars,
                  loopVars, created, sent>>
  BY DEF vars
<1>2. ContextType' BY <1>1 DEF TypeInv, TypeOK, ContextType, ctxVars
<1>3. ManagerType' BY <1>1 DEF TypeInv, TypeOK, ManagerType, mgrVars
<1>4. RunType' BY <1>1 DEF TypeInv, TypeOK, RunType, runVars
<1>5. SendType' BY <1>1 DEF TypeInv, TypeOK, SendType, sendVars
<1>6. LoopType' BY <1>1 DEF TypeInv, TypeOK, LoopType, loopVars
<1>7. ASSUME NEW t \in Thread PROVE Locals(t)'
  <2>1. Locals(t) BY DEF TypeInv
  <2>. QED BY <1>1, <2>1 DEF Locals, sendVars, runVars
<1>. QED BY <1>2, <1>3, <1>4, <1>5, <1>6, <1>7 DEF TypeInv, TypeOK

\* The scheduler's variables keep their types, for any number of contexts and
\* workers; and a thread that holds a context - a sender, a creator, a worker
\* in the middle of a round - holds a context and not the null pointer, which
\* is what makes every access to a context in the model meaningful.
THEOREM HoldersHold == Spec => []TypeInv
BY InitialTyped, NextTyped, StutterTyped, PTL DEF Spec

\* The type invariant of Scheduler.
THEOREM TypeCorrect == Spec => []TypeOK
<1>1. TypeInv => TypeOK BY DEF TypeInv
<1>. QED BY <1>1, HoldersHold, PTL

-----------------------------------------------------------------------------
(* Where a thread stands, and what it then holds.                           *)

\* The places of context_send, and of context_create up to the send.
Sending == {"grab_context", "check_valid", "push_message", "push_context",
            "push_one", "sem_post", "release_dest"}
Creating == {"init", "lua_ctx_init", "set_inited", "retire_created"}

\* The converse of Locals: a thread holds a context only at these places.
Place(t) ==
    /\ dest[t] # NoContext => pc[t] \in Sending
    /\ created[t] # NoContext =>
           \/ pc[t] \in Creating
           \/ /\ dest[t] # NoContext
              /\ type[t] = "log"
              /\ back[t] \in {"lua_ctx_init", "retire_created"}
    /\ pc[t] \in {"lua_ctx_init", "retire_created"} => created[t] # Logger
    /\ dest[t] # NoContext /\ back[t] \in {"lua_ctx_init", "retire_created"}
           => created[t] # Logger
    /\ dest[t] # NoContext /\ type[t] = "log" =>
           /\ dest[t] = Logger
           /\ pc[t] \notin {"grab_context", "release_dest"}
    /\ pc[t] \in {"grab_context", "check_valid", "push_message"}
           => type[t] # "init"
    /\ t \in Worker =>
           /\ running[t] # NoContext => pc[t] \notin Idle
           /\ pc[t] = "sem_post" /\ dest[t] = NoContext
                  => running[t] = NoContext
           /\ stolen[t] # << >> => pc[t] = "push_many"
           /\ t >= m_worker_num <=> pc[t] = "unborn"

Places == \A t \in Thread : Place(t)

Has(s, c) == \E i \in 1 .. Len(s) : s[i] = c
Distinct(s) == \A i, j \in 1 .. Len(s) : s[i] = s[j] => i = j

\* Nothing is known of a context that has not been created.
Fresh(c) ==
    /\ ~m_handle[c] /\ ~m_inited[c] /\ ~m_processing[c] /\ m_ref[c] = 0
    /\ m_message_queue[c] = << >> /\ m_worker[c] = NoWorker
    /\ \A t \in Thread : /\ created[t] # c
                         /\ dest[t] = c => pc[t] = "grab_context"
    /\ \A w \in Worker : /\ running[w] # c
                         /\ ~Has(queue[w], c) /\ ~Has(stolen[w], c)

\* Until Root is created there is only the logger, and nobody has logged or
\* told a context to end.
Booting ==
    /\ \A c \in Context \ {Logger} : m_alloc[c] = "none"
    /\ m_alloc[Logger] # "none" => m_handle[Logger]
    /\ \A t \in Thread :
           /\ pc[t] \notin {"check_alive", "stop", "wakeup", "handle", "drop",
                            "deinit", "unset_inited", "retire_context",
                            "lua_ctx_init", "retire_created"}
           /\ pc[t] \in {"init", "set_inited", "check_load", "start_worker"}
                  => t = Main
           /\ dest[t] # NoContext =>
                /\ back[t] = IF t = Main THEN "check_load" ELSE "idle"
                /\ type[t] \in {"init", "data"}
                /\ type[t] = "data" => dest[t] # Logger
    /\ m_message_queue[Logger] = << >>
    /\ ~m_exiting

BootLabels == {"boot_logger", "grab_logger", "boot_root"}

\* The main thread creates the logger, then Root.
Start ==
    /\ m_alloc[Root] = "none" => Booting
    /\ pc[Main] \in BootLabels => m_alloc[Root] = "none"
    /\ pc[Main] = "boot_logger" <=> m_alloc[Logger] = "none"

Birth == Start /\ \A c \in Context : m_alloc[c] = "none" => Fresh(c)

Kind == {"queued", "carried", "run", "pushed"}
Owns(k, t, c) ==
    \/ k = "queued" /\ t \in Worker /\ Has(queue[t], c)
    \/ k = "carried" /\ t \in Worker /\ Has(stolen[t], c)
    \/ k = "run" /\ t \in Worker /\ running[t] = c /\ pc[t] # "release_running"
    \/ k = "pushed" /\ \/ created[t] = c
                       \/ dest[t] = c /\ pc[t] \in {"push_context", "push_one"}

OneOwner ==
    \A c \in Context, k, l \in Kind, t, u \in Thread :
        Owns(k, t, c) /\ Owns(l, u, c) => k = l /\ t = u

QueuesDistinct == \A w \in Worker : Distinct(queue[w]) /\ Distinct(stolen[w])

HasOwner(c) == \E k \in Kind, t \in Thread : Owns(k, t, c)

Accepts(c) == \/ m_inited[c]
              \/ m_message_queue[c] # << >>
              \/ \E t \in Thread : pc[t] = "push_message" /\ dest[t] = c

Processing ==
    \A c \in Context :
        /\ HasOwner(c) => m_processing[c]
        /\ m_processing[c] /\ Accepts(c) => HasOwner(c)
        /\ m_message_queue[c] # << >> => m_processing[c]

\* A context that is being created takes no messages but the one it sends
\* itself.
Untold(t) ==
    created[t] # NoContext =>
        /\ ~m_inited[created[t]]
        /\ \A u \in Thread : pc[u] = "push_message" => dest[u] # created[t]
        /\ m_message_queue[created[t]] # << >> => pc[t] = "set_inited"

Unborn == \A t \in Thread : Untold(t)

Attached ==
    /\ \A c \in Context : m_worker[c] # NoWorker =>
           running[m_worker[c]] = c /\ pc[m_worker[c]] # "release_running"
    /\ \A w \in Worker :
           \/ pc[w] \in {"attach", "push_many", "repush_context", "shortest"}
           \/ pc[w] = "push_one" /\ dest[w] = NoContext
           => m_worker[running[w]] = NoWorker

Ownership == OneOwner /\ QueuesDistinct /\ Processing /\ Unborn /\ Attached

\* The types of the variables, one by one, and what the constants are.
LEMMA Types ==
    ASSUME TypeInv
    PROVE  /\ pc \in [Thread -> Label]
           /\ dest \in [Thread -> Context \cup {NoContext}]
           /\ type \in [Thread -> Message]
           /\ back \in [Thread -> Label]
           /\ created \in [Thread -> Context \cup {NoContext}]
           /\ target \in [Thread -> Worker]
           /\ scan \in [Thread -> 0 .. MAX_WORKER_NUM]
           /\ running \in [Worker -> Context \cup {NoContext}]
           /\ message \in [Worker -> Message]
           /\ stolen \in [Worker -> Seq(Context)]
           /\ queue \in [Worker -> Seq(Context)]
           /\ sem \in [Worker -> Nat]
           /\ m_worker_num \in 1 .. MAX_WORKER_NUM
           /\ m_ctx_size \in Int
           /\ m_exiting \in BOOLEAN
           /\ m_alloc \in [Context -> {"none", "live", "deleted"}]
           /\ m_handle \in [Context -> BOOLEAN]
           /\ m_inited \in [Context -> BOOLEAN]
           /\ m_ref \in [Context -> Int]
           /\ m_processing \in [Context -> BOOLEAN]
           /\ m_message_queue \in [Context -> Seq(Message)]
           /\ m_worker \in [Context -> Worker \cup {NoWorker}]
           /\ Worker \subseteq Thread /\ Main \in Thread /\ Net \in Thread
           /\ Main \notin Worker /\ Net \notin Worker /\ Main # Net
           /\ NoContext \notin Context /\ NoWorker \notin Worker
           /\ Logger \in Context /\ Root \in Context /\ Root # Logger
           /\ \A t \in Thread : Locals(t)
BY Constants, SchedulerAssumption DEF TypeInv, TypeOK, ContextType,
   ManagerType, RunType, SendType, LoopType

\* Workers are numbered.
LEMMA Workers ==
    /\ MAX_WORKER_NUM \in Nat \ {0}
    /\ \A w : w \in Worker <=> w \in Nat /\ w < MAX_WORKER_NUM
BY SchedulerAssumption DEF Worker

\* Every step keeps the places.
LEMMA PlacesNext ==
    ASSUME TypeInv, TypeInv', Places, Next
    PROVE  Places'
<1>. SUFFICES ASSUME NEW u \in Thread PROVE Place(u)'
  BY DEF Places
<1>1. /\ pc \in [Thread -> Label]
      /\ dest \in [Thread -> Context \cup {NoContext}]
      /\ type \in [Thread -> Message]
      /\ back \in [Thread -> Label]
      /\ created \in [Thread -> Context \cup {NoContext}]
      /\ running \in [Worker -> Context \cup {NoContext}]
      /\ stolen \in [Worker -> Seq(Context)]
      /\ Worker \subseteq Thread /\ Main \notin Worker /\ Net \notin Worker
      /\ Logger \in Context /\ Root \in Context /\ Root # Logger
      /\ NoContext \notin Context
      /\ \A t \in Thread : Locals(t) /\ Place(t)
      /\ m_worker_num \in Int
  <2>1. m_worker_num \in 1 .. MAX_WORKER_NUM BY Types
  <2>2. m_worker_num \in Int BY <2>1
  <2>. QED BY Types, <2>2 DEF Places
<1>2. ASSUME NEW t \in Thread, grab_context(t) PROVE Place(u)'
  BY <1>1, <1>2 DEF grab_context, Goto, Return, mgrVars, runVars, sendVars,
     Place, Locals, Resumes, Idle, Sending, Creating
<1>3. ASSUME NEW t \in Thread, check_valid(t) PROVE Place(u)'
  BY <1>1, <1>3 DEF check_valid, EndSend, Goto, IsValid, Return, mgrVars,
     runVars, sendVars, Place, Locals, Resumes, Idle, Sending, Creating
<1>4. ASSUME NEW t \in Thread, push_message(t) PROVE Place(u)'
  BY <1>1, <1>4 DEF push_message, EndSend, Goto, Return, mgrVars, runVars,
     sendVars, Place, Locals, Resumes, Idle, Sending, Creating
<1>5. ASSUME NEW t \in Thread, push_context(t) PROVE Place(u)'
  BY <1>1, <1>5 DEF push_context, Goto, runVars, sendVars, Place, Locals, Resumes, Idle, Sending, Creating
<1>6. ASSUME NEW t \in Thread, push_one(t) PROVE Place(u)'
  BY <1>1, <1>6 DEF push_one, AfterPush, EndSend, Goto, Return, sendVars,
     Place, Locals, Resumes, Idle, Sending, Creating
<1>7. ASSUME NEW t \in Thread, sem_post(t) PROVE Place(u)'
  BY <1>1, <1>7 DEF sem_post, AfterPush, EndSend, Goto, Return, runVars,
     sendVars, Place, Locals, Resumes, Idle, Sending, Creating
<1>8. ASSUME NEW t \in Thread, release_dest(t) PROVE Place(u)'
  BY <1>1, <1>8 DEF release_dest, Goto, Release, Return, mgrVars, runVars,
     Place, Locals, Resumes, Idle, Sending, Creating
<1>9. ASSUME NEW t \in Thread, init(t) PROVE Place(u)'
  BY <1>1, <1>9 DEF init, CallLog, Goto, mgrVars, runVars, sendVars, Place,
     Locals, Resumes, Idle, Sending, Creating
<1>10. ASSUME NEW t \in Thread, lua_ctx_init(t) PROVE Place(u)'
  BY <1>1, <1>10 DEF lua_ctx_init, Goto, mgrVars, runVars, sendVars, Place,
     Locals, Resumes, Idle, Sending, Creating
<1>11. ASSUME NEW t \in Thread, set_inited(t) PROVE Place(u)'
  BY <1>1, <1>11 DEF set_inited, Goto, SendCreated, mgrVars, runVars, Place,
     Locals, Resumes, Idle, Sending, Creating
<1>12. ASSUME NEW t \in Thread, retire_created(t) PROVE Place(u)'
  BY <1>1, <1>12 DEF retire_created, Goto, Release, Retire, SendCreated,
     mgrVars, runVars, Place, Locals, Resumes, Idle, Sending, Creating
<1>13. ASSUME NEW t \in Thread, check_load(t) PROVE Place(u)'
  BY <1>1, <1>13 DEF check_load, AfterCreate, Goto, mgrVars, runVars,
     sendVars, Place, Locals, Resumes, Idle, Sending, Creating
<1>14. ASSUME NEW t \in Thread, start_worker(t) PROVE Place(u)'
  <2>. DEFINE L == AfterCreate(t)
  <2>1. L \in {"handle", "grab_logger", "join"} BY DEF AfterCreate
  <2>. HIDE DEF L
  <2>2. UNCHANGED <<dest, type, back, created, running, stolen>>
    BY <1>14 DEF start_worker, sendVars, runVars
  <2>3. pc[t] = "start_worker" BY <1>14 DEF start_worker
  <2>4. CASE /\ m_worker_num < MAX_WORKER_NUM
             /\ m_worker_num' = m_worker_num + 1
             /\ pc' = [pc EXCEPT ![t] = L, ![m_worker_num] = "loop"]
    <3>1. m_worker_num \in Worker BY <2>4, Types, Workers
    <3>2. pc[m_worker_num] = "unborn" /\ m_worker_num # t
      BY <1>1, <2>3, <3>1 DEF Place
    <3>3. pc'[u] = IF u = t THEN L ELSE IF u = m_worker_num THEN "loop" ELSE pc[u]
      BY <1>1, <2>4, <3>1, <3>2
    <3>4. ASSUME u \in Worker
          PROVE  u >= m_worker_num' <=> u >= m_worker_num /\ u # m_worker_num
      BY <1>1, <2>4, <3>4, Workers
    <3>. QED
      BY <1>1, <2>1, <2>2, <2>3, <3>1, <3>2, <3>3, <3>4 DEF Place, Idle, Creating, Sending
  <2>5. CASE UNCHANGED m_worker_num /\ pc' = [pc EXCEPT ![t] = L]
    BY <1>1, <2>1, <2>2, <2>3, <2>5 DEF Place, Idle, Creating, Sending
  <2>. QED BY <1>14, <2>4, <2>5 DEF start_worker, Goto, L
<1>15. ASSUME NEW t \in Thread, check_alive(t) PROVE Place(u)'
  BY <1>1, <1>15 DEF check_alive, AfterAlive, CallSend, Goto, mgrVars,
     runVars, sendVars, Place, Locals, Resumes, Idle, Sending, Creating
<1>16. ASSUME NEW t \in Thread, stop(t) PROVE Place(u)'
  BY <1>1, <1>16 DEF stop, AfterAlive, Goto, runVars, sendVars, Place,
     Locals, Resumes, Idle, Sending, Creating
<1>17. ASSUME NEW t \in Thread, wakeup(t) PROVE Place(u)'
  BY <1>1, <1>17 DEF wakeup, AfterAlive, Goto, runVars, sendVars, Place,
     Locals, Resumes, Idle, Sending, Creating
<1>18. ASSUME NEW t \in Worker, loop(t) PROVE Place(u)'
  BY <1>1, <1>18 DEF loop, Goto, mgrVars, runVars, sendVars, Place, Locals, Resumes, Idle, Sending, Creating
<1>19. ASSUME NEW t \in Worker, try_pop_one(t) PROVE Place(u)'
  BY <1>1, <1>19 DEF try_pop_one, Goto, sendVars, Place, Locals, Resumes, Idle,
     Sending, Creating
<1>20. ASSUME NEW t \in Worker, steal_context(t) PROVE Place(u)'
  <2>1. /\ UNCHANGED <<dest, type, back, created, m_worker_num>>
        /\ pc[t] = "steal_context"
        /\ t \in Thread
    BY <1>1, <1>20 DEF steal_context, sendVars
  <2>2. CASE scan[t] < m_worker_num /\ StealFrom(t, scan[t])
    <3>. DEFINE s == queue[scan[t]]
                half == Len(s) \div 2
    <3>1. scan[t] \in Worker BY <2>1, <2>2, Types, Workers
    <3>2. s \in Seq(Context) BY <3>1, Types
    <3>a. half \in 0 .. Len(s)
      <4>1. Len(s) \in Nat BY <3>2
      <4>. QED BY <4>1, Half
    <3>3. /\ half > 0
          /\ running' = [running EXCEPT ![t] = Head(s)]
          /\ stolen' = [stolen EXCEPT ![t] = SubSeq(s, 2, half)]
          /\ pc' = [pc EXCEPT ![t] = IF half > 1 THEN "push_many" ELSE "attach"]
      BY <2>2 DEF StealFrom, Goto
    <3>. HIDE DEF half
    <3>4. ~ (half > 1) => SubSeq(s, 2, half) = << >>
      <4>. HIDE DEF s
      <4>. QED BY <3>2, <3>3, <3>a
    <3>. HIDE DEF s
    <3>. QED BY <1>1, <2>1, <3>3, <3>4 DEF Place, Idle, Creating, Sending
  <2>3. CASE UNCHANGED <<running, stolen, pc>>
    BY <1>1, <2>1, <2>3 DEF Place
  <2>4. CASE UNCHANGED <<running, stolen>> /\ Goto(t, "wait")
    BY <1>1, <2>1, <2>4 DEF Place, Goto, Idle, Creating, Sending
  <2>. QED BY <1>20, <2>2, <2>3, <2>4 DEF steal_context
<1>21. ASSUME NEW t \in Worker, push_many(t) PROVE Place(u)'
  BY <1>1, <1>21 DEF push_many, Goto, sendVars, Place, Locals, Resumes, Idle,
     Sending, Creating
<1>22. ASSUME NEW t \in Worker, wait(t) PROVE Place(u)'
  BY <1>1, <1>22 DEF wait, Goto, runVars, sendVars, Place, Locals, Resumes, Idle,
     Sending, Creating
<1>23. ASSUME NEW t \in Worker, attach(t) PROVE Place(u)'
  BY <1>1, <1>23 DEF attach, Goto, mgrVars, sendVars, Place, Locals, Resumes, Idle,
     Sending, Creating
<1>24. ASSUME NEW t \in Worker, turn(t) PROVE Place(u)'
  BY <1>1, <1>24 DEF turn, Goto, IsValid, MayGoOn, mgrVars, runVars,
     sendVars, Place, Locals, Resumes, Idle, Sending, Creating
<1>25. ASSUME NEW t \in Worker, pop_message(t) PROVE Place(u)'
  BY <1>1, <1>25 DEF pop_message, Goto, IsValid, mgrVars, sendVars, Place,
     Locals, Resumes, Idle, Sending, Creating
<1>26. ASSUME NEW t \in Worker, release_running(t) PROVE Place(u)'
  BY <1>1, <1>26 DEF release_running, Goto, Release, mgrVars, sendVars,
     Place, Locals, Resumes, Idle, Sending, Creating
<1>27. ASSUME NEW t \in Worker, lua_acts(t) PROVE Place(u)'
  BY <1>1, <1>27 DEF lua_acts, CallLog, CallSend, Goto, Register, mgrVars,
     runVars, sendVars, Place, Locals, Resumes, Idle, Sending, Creating
<1>28. ASSUME NEW t \in Worker, handle(t) PROVE Place(u)'
  BY <1>1, <1>28 DEF handle, Goto, mgrVars, runVars, sendVars, Place,
     Locals, Resumes, Idle, Sending, Creating
<1>29. ASSUME NEW t \in Worker, drop(t) PROVE Place(u)'
  BY <1>1, <1>29 DEF drop, CallSend, Goto, mgrVars, runVars, sendVars,
     Place, Locals, Resumes, Idle, Sending, Creating
<1>30. ASSUME NEW t \in Worker, finish(t) PROVE Place(u)'
  BY <1>1, <1>30 DEF finish, Goto, mgrVars, sendVars, Place, Locals, Resumes, Idle,
     Sending, Creating
<1>31. ASSUME NEW t \in Worker, deinit(t) PROVE Place(u)'
  BY <1>1, <1>31 DEF deinit, CallLog, CallSend, Goto, mgrVars, runVars,
     sendVars, Place, Locals, Resumes, Idle, Sending, Creating
<1>32. ASSUME NEW t \in Worker, unset_inited(t) PROVE Place(u)'
  BY <1>1, <1>32 DEF unset_inited, Goto, mgrVars, runVars, sendVars, Place,
     Locals, Resumes, Idle, Sending, Creating
<1>33. ASSUME NEW t \in Worker, retire_context(t) PROVE Place(u)'
  BY <1>1, <1>33 DEF retire_context, Goto, Release, Retire, mgrVars,
     runVars, sendVars, Place, Locals, Resumes, Idle, Sending, Creating
<1>34. ASSUME NEW t \in Worker, repush_context(t) PROVE Place(u)'
  BY <1>1, <1>34 DEF repush_context, Goto, mgrVars, runVars, sendVars,
     Place, Locals, Resumes, Idle, Sending, Creating
<1>35. ASSUME NEW t \in Worker, shortest(t) PROVE Place(u)'
  BY <1>1, <1>35 DEF shortest, Goto, mgrVars, runVars, sendVars, Place,
     Locals, Resumes, Idle, Sending, Creating
<1>36. ASSUME boot_logger PROVE Place(u)'
  BY <1>1, <1>36 DEF boot_logger, Goto, Register, mgrVars, runVars,
     sendVars, Place, Locals, Resumes, Idle, Sending, Creating
<1>37. ASSUME grab_logger PROVE Place(u)'
  BY <1>1, <1>37 DEF grab_logger, Goto, mgrVars, runVars, sendVars, Place,
     Locals, Resumes, Idle, Sending, Creating
<1>38. ASSUME boot_root PROVE Place(u)'
  BY <1>1, <1>38 DEF boot_root, Goto, Register, mgrVars, runVars, sendVars,
     Place, Locals, Resumes, Idle, Sending, Creating
<1>39. ASSUME response PROVE Place(u)'
  BY <1>1, <1>39 DEF response, CallSend, Goto, mgrVars, runVars, Place,
     Locals, Resumes, Idle, Sending, Creating
<1>40. ASSUME NEW t \in Thread, Send(t) PROVE Place(u)'
  BY <1>40, <1>2, <1>3, <1>4, <1>5, <1>6, <1>7, <1>8 DEF Send
<1>41. ASSUME NEW t \in Thread, Create(t) PROVE Place(u)'
  BY <1>41, <1>9, <1>10, <1>11, <1>12, <1>13, <1>14 DEF Create
<1>42. ASSUME NEW t \in Thread, Stop(t) PROVE Place(u)'
  BY <1>42, <1>15, <1>16, <1>17 DEF Stop
<1>43. ASSUME NEW t \in Worker, WorkerProcess(t) PROVE Place(u)'
  BY <1>43, <1>18, <1>19, <1>20, <1>21, <1>22, <1>23, <1>24, <1>25, <1>26,
     <1>27, <1>28, <1>29, <1>30, <1>31, <1>32, <1>33, <1>34, <1>35 DEF
     WorkerProcess
<1>. QED
  BY <1>40, <1>41, <1>42, <1>43, <1>36, <1>37, <1>38, <1>39 DEF Next, Step,
     Boot

\* What the elements of a sequence are after Append, Head and Tail, SubSeq and
\* concatenation.
LEMMA HasAppend ==
    ASSUME NEW S, NEW s \in Seq(S), NEW x \in S, NEW c
    PROVE  Has(Append(s, x), c) <=> Has(s, c) \/ x = c
<1>1. /\ Len(Append(s, x)) = Len(s) + 1
      /\ \A i \in 1 .. Len(s) : Append(s, x)[i] = s[i]
      /\ Append(s, x)[Len(s) + 1] = x
      /\ Len(s) \in Nat
  OBVIOUS
<1>2. Has(Append(s, x), c) => Has(s, c) \/ x = c
  <2>. SUFFICES ASSUME NEW i \in 1 .. Len(s) + 1, Append(s, x)[i] = c
                PROVE  Has(s, c) \/ x = c
    BY <1>1 DEF Has
  <2>1. i \in 1 .. Len(s) \/ i = Len(s) + 1 BY <1>1
  <2>. QED BY <1>1, <2>1 DEF Has
<1>3. Has(s, c) => Has(Append(s, x), c)
  <2>. SUFFICES ASSUME NEW i \in 1 .. Len(s), s[i] = c
                PROVE  Has(Append(s, x), c)
    BY DEF Has
  <2>1. i \in 1 .. Len(Append(s, x)) BY <1>1
  <2>. QED BY <1>1, <2>1 DEF Has
<1>4. x = c => Has(Append(s, x), c)
  <2>1. Len(s) + 1 \in 1 .. Len(Append(s, x)) BY <1>1
  <2>. QED BY <1>1, <2>1 DEF Has
<1>. QED BY <1>2, <1>3, <1>4

\* What a sequence has is its head or in its tail.
LEMMA HasTail ==
    ASSUME NEW S, NEW s \in Seq(S), s # << >>, NEW c
    PROVE  Has(s, c) <=> Head(s) = c \/ Has(Tail(s), c)
<1>1. /\ Len(s) \in Nat \ {0}
      /\ Head(s) = s[1]
      /\ Len(Tail(s)) = Len(s) - 1
      /\ \A i \in 1 .. Len(s) - 1 : Tail(s)[i] = s[i + 1]
  OBVIOUS
<1>2. Has(s, c) => Head(s) = c \/ Has(Tail(s), c)
  <2>. SUFFICES ASSUME NEW i \in 1 .. Len(s), s[i] = c, i # 1
                PROVE  Has(Tail(s), c)
    BY <1>1 DEF Has
  <2>1. i - 1 \in 1 .. Len(s) - 1 /\ (i - 1) + 1 = i BY <1>1
  <2>2. Tail(s)[i - 1] = c BY <1>1, <2>1
  <2>. QED BY <1>1, <2>1, <2>2 DEF Has
<1>3. Has(Tail(s), c) => Has(s, c)
  <2>. SUFFICES ASSUME NEW i \in 1 .. Len(s) - 1, Tail(s)[i] = c
                PROVE  Has(s, c)
    BY <1>1 DEF Has
  <2>1. i + 1 \in 1 .. Len(s) /\ s[i + 1] = c BY <1>1
  <2>. QED BY <2>1 DEF Has
<1>4. Head(s) = c => Has(s, c)
  <2>1. 1 \in 1 .. Len(s) BY <1>1
  <2>. QED BY <1>1, <2>1 DEF Has
<1>. QED BY <1>2, <1>3, <1>4

\* What a part of a sequence has is what stands at its positions.
LEMMA HasSub ==
    ASSUME NEW S, NEW s \in Seq(S), NEW a \in Nat \ {0}, NEW b \in 0 .. Len(s), NEW c
    PROVE  Has(SubSeq(s, a, b), c) <=> \E i \in a .. b : s[i] = c
<1>1. Len(s) \in Nat OBVIOUS
<1>2. CASE a <= b
  <2>1. /\ Len(SubSeq(s, a, b)) = b - a + 1
        /\ \A i \in 1 .. b - a + 1 : SubSeq(s, a, b)[i] = s[a + i - 1]
    BY <1>1, <1>2
  <2>2. ASSUME NEW i \in 1 .. b - a + 1
        PROVE  a + i - 1 \in a .. b
    BY <1>1, <1>2
  <2>3. Has(SubSeq(s, a, b), c) => \E i \in a .. b : s[i] = c
    BY <2>1, <2>2 DEF Has
  <2>4. ASSUME NEW i \in a .. b
        PROVE  i - a + 1 \in 1 .. b - a + 1 /\ a + (i - a + 1) - 1 = i
    BY <1>1, <1>2
  <2>5. (\E i \in a .. b : s[i] = c) => Has(SubSeq(s, a, b), c)
    <3>. SUFFICES ASSUME NEW i \in a .. b, s[i] = c
                  PROVE  Has(SubSeq(s, a, b), c)
      OBVIOUS
    <3>1. SubSeq(s, a, b)[i - a + 1] = c BY <2>1, <2>4
    <3>. QED BY <2>1, <2>4, <3>1 DEF Has
  <2>. QED BY <2>3, <2>5
<1>3. CASE ~ (a <= b)
  <2>1. SubSeq(s, a, b) = << >> BY <1>1, <1>3
  <2>. QED BY <1>3, <2>1 DEF Has
<1>. QED BY <1>2, <1>3

\* A concatenation has what either part has.
LEMMA HasConcat ==
    ASSUME NEW S, NEW s \in Seq(S), NEW r \in Seq(S), NEW c
    PROVE  Has(s \o r, c) <=> Has(s, c) \/ Has(r, c)
<1>1. /\ Len(s) \in Nat /\ Len(r) \in Nat
      /\ Len(s \o r) = Len(s) + Len(r)
      /\ \A i \in 1 .. Len(s) + Len(r) :
             (s \o r)[i] = IF i <= Len(s) THEN s[i] ELSE r[i - Len(s)]
  OBVIOUS
<1>2. Has(s \o r, c) => Has(s, c) \/ Has(r, c)
  <2>. SUFFICES ASSUME NEW i \in 1 .. Len(s) + Len(r), (s \o r)[i] = c
                PROVE  Has(s, c) \/ Has(r, c)
    BY <1>1 DEF Has
  <2>1. i \in 1 .. Len(s) \/ (i - Len(s) \in 1 .. Len(r) /\ ~ (i <= Len(s)))
    BY <1>1
  <2>. QED BY <1>1, <2>1 DEF Has
<1>3. ASSUME NEW i \in 1 .. Len(s), s[i] = c PROVE Has(s \o r, c)
  <2>1. i \in 1 .. Len(s \o r) /\ (s \o r)[i] = c BY <1>1, <1>3
  <2>. QED BY <2>1 DEF Has
<1>4. ASSUME NEW i \in 1 .. Len(r), r[i] = c PROVE Has(s \o r, c)
  <2>1. i + Len(s) \in 1 .. Len(s \o r) /\ (s \o r)[i + Len(s)] = c
    BY <1>1, <1>4
  <2>. QED BY <2>1 DEF Has
<1>. QED BY <1>2, <1>3, <1>4 DEF Has


\* When such a sequence has no duplicates.
LEMMA DistinctAppend ==
    ASSUME NEW S, NEW s \in Seq(S), NEW x \in S, Distinct(s), ~Has(s, x)
    PROVE  Distinct(Append(s, x))
<1>1. /\ Len(Append(s, x)) = Len(s) + 1
      /\ \A i \in 1 .. Len(s) : Append(s, x)[i] = s[i]
      /\ Append(s, x)[Len(s) + 1] = x
      /\ Len(s) \in Nat
  OBVIOUS
<1>. SUFFICES ASSUME NEW i \in 1 .. Len(s) + 1, NEW j \in 1 .. Len(s) + 1,
                     Append(s, x)[i] = Append(s, x)[j]
              PROVE  i = j
  BY <1>1 DEF Distinct
<1>2. \A k \in 1 .. Len(s) + 1 : k \in 1 .. Len(s) \/ k = Len(s) + 1 BY <1>1
<1>3. \A k \in 1 .. Len(s) : s[k] # x BY DEF Has
<1>4. CASE i \in 1 .. Len(s) /\ j \in 1 .. Len(s) BY <1>1, <1>4 DEF Distinct
<1>5. CASE i = Len(s) + 1 /\ j \in 1 .. Len(s) BY <1>1, <1>3, <1>5
<1>6. CASE i \in 1 .. Len(s) /\ j = Len(s) + 1 BY <1>1, <1>3, <1>6
<1>. QED BY <1>2, <1>4, <1>5, <1>6

\* Popping the head of a queue without repetitions removes that context from it.
LEMMA DistinctTail ==
    ASSUME NEW S, NEW s \in Seq(S), s # << >>, Distinct(s)
    PROVE  Distinct(Tail(s)) /\ ~Has(Tail(s), Head(s))
<1>1. /\ Len(s) \in Nat \ {0}
      /\ Head(s) = s[1]
      /\ Len(Tail(s)) = Len(s) - 1
      /\ \A i \in 1 .. Len(s) - 1 : Tail(s)[i] = s[i + 1]
  OBVIOUS
<1>2. Distinct(Tail(s))
  <2>. SUFFICES ASSUME NEW i \in 1 .. Len(s) - 1, NEW j \in 1 .. Len(s) - 1,
                       Tail(s)[i] = Tail(s)[j]
                PROVE  i = j
    BY <1>1 DEF Distinct
  <2>1. i + 1 \in 1 .. Len(s) /\ j + 1 \in 1 .. Len(s) BY <1>1
  <2>2. s[i + 1] = s[j + 1] BY <1>1
  <2>3. i + 1 = j + 1 BY <2>1, <2>2 DEF Distinct
  <2>. QED BY <2>3
<1>3. ASSUME NEW i \in 1 .. Len(s) - 1 PROVE Tail(s)[i] # Head(s)
  <2>1. i + 1 \in 1 .. Len(s) /\ 1 \in 1 .. Len(s) /\ i + 1 # 1 BY <1>1
  <2>. QED BY <1>1, <2>1 DEF Distinct
<1>. QED BY <1>1, <1>2, <1>3 DEF Has

\* A part of a sequence without repetitions has none.
LEMMA DistinctSub ==
    ASSUME NEW S, NEW s \in Seq(S), Distinct(s),
           NEW a \in Nat \ {0}, NEW b \in 0 .. Len(s)
    PROVE  Distinct(SubSeq(s, a, b))
<1>1. Len(s) \in Nat OBVIOUS
<1>2. CASE a <= b
  <2>1. /\ Len(SubSeq(s, a, b)) = b - a + 1
        /\ \A i \in 1 .. b - a + 1 : SubSeq(s, a, b)[i] = s[a + i - 1]
    BY <1>1, <1>2
  <2>. SUFFICES ASSUME NEW i \in 1 .. b - a + 1, NEW j \in 1 .. b - a + 1,
                       SubSeq(s, a, b)[i] = SubSeq(s, a, b)[j]
                PROVE  i = j
    BY <2>1 DEF Distinct
  <2>2. a + i - 1 \in 1 .. Len(s) /\ a + j - 1 \in 1 .. Len(s) BY <1>1, <1>2
  <2>3. s[a + i - 1] = s[a + j - 1] BY <2>1
  <2>4. a + i - 1 = a + j - 1 BY <2>2, <2>3 DEF Distinct
  <2>. QED BY <2>4
<1>3. CASE ~ (a <= b)
  <2>1. SubSeq(s, a, b) = << >> BY <1>1, <1>3
  <2>. QED BY <2>1 DEF Distinct
<1>. QED BY <1>2, <1>3

\* Disjoint sequences without repetitions make one without repetitions.
LEMMA DistinctConcat ==
    ASSUME NEW S, NEW s \in Seq(S), NEW r \in Seq(S), Distinct(s), Distinct(r),
           \A x \in S : ~ (Has(s, x) /\ Has(r, x))
    PROVE  Distinct(s \o r)
<1>1. /\ Len(s) \in Nat /\ Len(r) \in Nat
      /\ Len(s \o r) = Len(s) + Len(r)
      /\ \A i \in 1 .. Len(s) + Len(r) :
             (s \o r)[i] = IF i <= Len(s) THEN s[i] ELSE r[i - Len(s)]
      /\ \A i \in 1 .. Len(s) : s[i] \in S
  OBVIOUS
<1>. SUFFICES ASSUME NEW i \in 1 .. Len(s) + Len(r),
                     NEW j \in 1 .. Len(s) + Len(r), (s \o r)[i] = (s \o r)[j]
              PROVE  i = j
  BY <1>1 DEF Distinct
<1>2. ASSUME NEW k \in 1 .. Len(s) + Len(r)
      PROVE  \/ k \in 1 .. Len(s) /\ k <= Len(s)
             \/ (k - Len(s) \in 1 .. Len(r) /\ ~ (k <= Len(s)))
  BY <1>1
<1>3. \A k \in 1 .. Len(s), l \in 1 .. Len(r) : s[k] # r[l] BY <1>1 DEF Has
<1>4. CASE i <= Len(s) /\ j <= Len(s)
  <2>1. i \in 1 .. Len(s) /\ j \in 1 .. Len(s) BY <1>2, <1>4
  <2>2. s[i] = s[j] BY <1>1, <1>4
  <2>. QED BY <2>1, <2>2 DEF Distinct
<1>5. CASE i <= Len(s) /\ ~ (j <= Len(s))
  <2>1. i \in 1 .. Len(s) /\ j - Len(s) \in 1 .. Len(r) BY <1>2, <1>5
  <2>2. s[i] = r[j - Len(s)] BY <1>1, <1>5
  <2>. QED BY <1>3, <2>1, <2>2
<1>6. CASE ~ (i <= Len(s)) /\ j <= Len(s)
  <2>1. j \in 1 .. Len(s) /\ i - Len(s) \in 1 .. Len(r) BY <1>2, <1>6
  <2>2. s[j] = r[i - Len(s)] BY <1>1, <1>6
  <2>. QED BY <1>3, <2>1, <2>2
<1>7. CASE ~ (i <= Len(s)) /\ ~ (j <= Len(s))
  <2>1. i - Len(s) \in 1 .. Len(r) /\ j - Len(s) \in 1 .. Len(r) BY <1>2, <1>7
  <2>2. r[i - Len(s)] = r[j - Len(s)] BY <1>1, <1>7
  <2>3. i - Len(s) = j - Len(s) BY <2>1, <2>2 DEF Distinct
  <2>. QED BY <1>1, <2>3
<1>. QED BY <1>4, <1>5, <1>6, <1>7

\* What push_one puts into the queue it has chosen.
Pushing(t) == IF dest[t] # NoContext THEN dest[t] ELSE running[t]

\* push_one adds the pushed context to the target worker's queue and nothing to
\* any other (context_queue.cpp:19-31).
LEMMA PushOneMoves ==
    ASSUME TypeInv, NEW t \in Thread, push_one(t)
    PROVE  /\ Pushing(t) \in Context /\ target[t] \in Worker
           /\ \A w \in Worker : \A c :
                  Has(queue'[w], c) <=>
                      Has(queue[w], c) \/ (w = target[t] /\ c = Pushing(t))
           /\ \A w \in Worker :
                  Distinct(queue[w]) /\ ~Has(queue[w], Pushing(t))
                      => Distinct(queue'[w])
<1>1. Pushing(t) \in Context /\ target[t] \in Worker
  <2>1. pc[t] = "push_one" BY DEF push_one
  <2>. QED BY <2>1, Types DEF Pushing, Locals, Idle
<1>2. queue' = [queue EXCEPT ![target[t]] = Append(@, Pushing(t))]
  BY DEF push_one, Pushing
<1>3. ASSUME NEW w \in Worker
      PROVE  queue[w] \in Seq(Context) /\ queue'[w] =
                 IF w = target[t] THEN Append(queue[w], Pushing(t)) ELSE queue[w]
  <2>1. queue \in [Worker -> Seq(Context)] BY Types
  <2>. QED BY <1>1, <1>2, <2>1
<1>. QED BY <1>1, <1>3, HasAppend, DistinctAppend

\* What try_pop_one takes.
LEMMA TryPopMoves ==
    ASSUME TypeInv, NEW t \in Worker, try_pop_one(t), queue[t] # << >>
    PROVE  /\ running'[t] \in Context
           /\ \A w \in Worker \ {t} : running'[w] = running[w]
           /\ \A w \in Worker : \A c :
                  Has(queue[w], c) <=>
                      Has(queue'[w], c) \/ (w = t /\ c = running'[t])
           /\ \A w \in Worker : Distinct(queue[w])
                  => Distinct(queue'[w]) /\ (w = t => ~Has(queue'[w], running'[t]))
<1>1. queue \in [Worker -> Seq(Context)] /\ queue[t] \in Seq(Context) BY Types
<1>2. running \in [Worker -> Context \cup {NoContext}] BY Types
<1>3. Head(queue[t]) \in Context BY <1>1
<1>4. /\ queue' = [queue EXCEPT ![t] = Tail(@)]
      /\ running' = [running EXCEPT ![t] = Head(queue[t])]
  BY DEF try_pop_one
<1>5. running'[t] = Head(queue[t]) BY <1>2, <1>4
<1>6. \A w \in Worker :
          queue'[w] = IF w = t THEN Tail(queue[w]) ELSE queue[w]
  BY <1>1, <1>4
<1>7. ASSUME NEW c
      PROVE  Has(queue[t], c) <=> Head(queue[t]) = c \/ Has(Tail(queue[t]), c)
  BY <1>1, HasTail
<1>8. Distinct(queue[t]) => /\ Distinct(Tail(queue[t]))
                            /\ ~Has(Tail(queue[t]), Head(queue[t]))
  BY <1>1, DistinctTail
<1>. QED BY <1>2, <1>3, <1>4, <1>5, <1>6, <1>7, <1>8

\* What try_pop_half takes: the first context to run, the rest of the first half
\* to carry.
LEMMA StealMoves ==
    ASSUME TypeInv, NEW t \in Worker, NEW v \in Worker, StealFrom(t, v),
           stolen[t] = << >>
    PROVE  /\ v # t
           /\ running'[t] \in Context
           /\ \A w \in Worker \ {t} : running'[w] = running[w]
           /\ \A w \in Worker \ {t} : stolen'[w] = stolen[w]
           /\ \A w \in Worker \ {v} : queue'[w] = queue[w]
           /\ \A c : Has(queue[v], c) <=> \/ Has(queue'[v], c)
                                          \/ Has(stolen'[t], c)
                                          \/ c = running'[t]
           /\ Distinct(queue[v]) =>
                  /\ Distinct(queue'[v]) /\ Distinct(stolen'[t])
                  /\ \A c : ~ (Has(queue'[v], c) /\ Has(stolen'[t], c))
                  /\ ~Has(queue'[v], running'[t])
                  /\ ~Has(stolen'[t], running'[t])
           /\ pc' = [pc EXCEPT ![t] = pc'[t]]
           /\ pc'[t] \in {"attach", "push_many"}
           /\ pc'[t] = "attach" => stolen'[t] = << >>
<1>. DEFINE s == queue[v]
            half == Len(s) \div 2
<1>1. /\ queue \in [Worker -> Seq(Context)]
      /\ running \in [Worker -> Context \cup {NoContext}]
      /\ stolen \in [Worker -> Seq(Context)]
      /\ pc \in [Thread -> Label] /\ t \in Thread
  BY Types
<1>2. s \in Seq(Context) BY <1>1
<1>3. Len(s) \in Nat /\ half \in 0 .. Len(s)
  <2>1. Len(s) \in Nat BY <1>2
  <2>. QED BY <2>1, Half
<1>4. /\ v # t
      /\ half > 0
      /\ running' = [running EXCEPT ![t] = Head(s)]
      /\ stolen' = [stolen EXCEPT ![t] = SubSeq(s, 2, half)]
      /\ queue' = [queue EXCEPT ![v] = SubSeq(s, half + 1, Len(s))]
      /\ pc' = [pc EXCEPT ![t] = IF half > 1 THEN "push_many" ELSE "attach"]
  BY DEF StealFrom, Goto
<1>. HIDE DEF half
<1>5. /\ running'[t] = Head(s)
      /\ \A w \in Worker \ {t} : running'[w] = running[w]
      /\ \A w \in Worker \ {t} : stolen'[w] = stolen[w]
      /\ \A w \in Worker \ {v} : queue'[w] = queue[w]
      /\ stolen'[t] = SubSeq(s, 2, half)
      /\ queue'[v] = SubSeq(s, half + 1, Len(s))
      /\ pc'[t] = IF half > 1 THEN "push_many" ELSE "attach"
  BY <1>1, <1>4
<1>. HIDE DEF s
<1>6. half \in Nat /\ half + 1 \in Nat \ {0} /\ Len(s) \in 0 .. Len(s)
  BY <1>3
<1>7. Head(s) = s[1] /\ Head(s) \in Context BY <1>2, <1>3, <1>4
<1>8. \A c : Has(stolen'[t], c) <=> \E i \in 2 .. half : s[i] = c
  BY <1>2, <1>3, <1>5, HasSub
<1>9. \A c : Has(queue'[v], c) <=> \E i \in half + 1 .. Len(s) : s[i] = c
  BY <1>2, <1>5, <1>6, HasSub
<1>10. ASSUME NEW c
       PROVE  Has(s, c) <=> \/ Has(queue'[v], c) \/ Has(stolen'[t], c)
                            \/ c = running'[t]
  <2>. DEFINE n == Len(s)
  <2>1. n \in Nat /\ half \in 1 .. n BY <1>3, <1>4
  <2>. HIDE DEF n
  <2>2. /\ \A i \in 1 .. n : i = 1 \/ i \in 2 .. half \/ i \in half + 1 .. n
        /\ 1 \in 1 .. n
        /\ \A i \in 2 .. half : i \in 1 .. n
        /\ \A i \in half + 1 .. n : i \in 1 .. n
    BY <2>1
  <2>3. Has(s, c) <=> \E i \in 1 .. n : s[i] = c BY DEF Has, n
  <2>4. Has(queue'[v], c) <=> \E i \in half + 1 .. n : s[i] = c BY <1>9 DEF n
  <2>. QED BY <1>5, <1>7, <1>8, <2>2, <2>3, <2>4
<1>11. ASSUME Distinct(s)
       PROVE  /\ Distinct(queue'[v]) /\ Distinct(stolen'[t])
              /\ \A c : ~ (Has(queue'[v], c) /\ Has(stolen'[t], c))
              /\ ~Has(queue'[v], running'[t])
              /\ ~Has(stolen'[t], running'[t])
  <2>1. Distinct(queue'[v]) /\ Distinct(stolen'[t])
    BY <1>2, <1>3, <1>5, <1>6, <1>11, DistinctSub
  <2>2. \A i \in 2 .. half, j \in half + 1 .. Len(s) : s[i] # s[j]
    <3>1. ASSUME NEW i \in 2 .. half, NEW j \in half + 1 .. Len(s)
          PROVE  i \in 1 .. Len(s) /\ j \in 1 .. Len(s) /\ i # j
      BY <1>3
    <3>. QED BY <1>11, <3>1 DEF Distinct
  <2>3. \A i \in 2 .. half : s[i] # s[1]
    <3>1. ASSUME NEW i \in 2 .. half
          PROVE  i \in 1 .. Len(s) /\ 1 \in 1 .. Len(s) /\ i # 1
      BY <1>3
    <3>. QED BY <1>11, <3>1 DEF Distinct
  <2>4. \A i \in half + 1 .. Len(s) : s[i] # s[1]
    <3>1. ASSUME NEW i \in half + 1 .. Len(s)
          PROVE  i \in 1 .. Len(s) /\ 1 \in 1 .. Len(s) /\ i # 1
      BY <1>3, <1>4
    <3>. QED BY <1>11, <3>1 DEF Distinct
  <2>. QED BY <1>5, <1>7, <1>8, <1>9, <2>1, <2>2, <2>3, <2>4
<1>12. pc'[t] = "attach" => stolen'[t] = << >>
  <2>1. ~ (half > 1) => SubSeq(s, 2, half) = << >> BY <1>2, <1>3, <1>4
  <2>. QED BY <1>5, <2>1
<1>13. pc' = [pc EXCEPT ![t] = pc'[t]] /\ pc'[t] \in {"attach", "push_many"}
  BY <1>1, <1>4, <1>5
<1>. QED BY <1>4, <1>5, <1>7, <1>10, <1>11, <1>12, <1>13 DEF s

\* Stealing creates nothing.
LEMMA StealLess ==
    ASSUME TypeInv, NEW t \in Worker, NEW v \in Worker, StealFrom(t, v),
           stolen[t] = << >>, NEW w \in Worker, NEW c
    PROVE  /\ Has(queue'[w], c) => Has(queue[w], c)
           /\ Has(stolen'[w], c) => Has(stolen[w], c) \/ Has(queue[v], c)
           /\ running'[w] = c => running[w] = c \/ Has(queue[v], c)
<1>1. /\ \A u \in Worker \ {t} : running'[u] = running[u]
      /\ \A u \in Worker \ {t} : stolen'[u] = stolen[u]
      /\ \A u \in Worker \ {v} : queue'[u] = queue[u]
      /\ \A x : Has(queue[v], x) <=> \/ Has(queue'[v], x)
                                     \/ Has(stolen'[t], x)
                                     \/ x = running'[t]
  BY StealMoves
<1>. QED BY <1>1

\* push_many empties the thief's hands into its own queue.
LEMMA PushManyMoves ==
    ASSUME TypeInv, NEW t \in Worker, push_many(t)
    PROVE  /\ stolen'[t] = << >>
           /\ \A w \in Worker \ {t} :
                  stolen'[w] = stolen[w] /\ queue'[w] = queue[w]
           /\ \A c : Has(queue'[t], c) <=> Has(queue[t], c) \/ Has(stolen[t], c)
           /\ /\ Distinct(queue[t]) /\ Distinct(stolen[t])
              /\ \A c \in Context : ~ (Has(queue[t], c) /\ Has(stolen[t], c))
              => Distinct(queue'[t])
<1>1. /\ queue \in [Worker -> Seq(Context)]
      /\ stolen \in [Worker -> Seq(Context)]
  BY Types
<1>2. queue[t] \in Seq(Context) /\ stolen[t] \in Seq(Context) BY <1>1
<1>3. /\ queue'[t] = queue[t] \o stolen[t]
      /\ stolen'[t] = << >>
      /\ \A w \in Worker \ {t} : stolen'[w] = stolen[w] /\ queue'[w] = queue[w]
  BY <1>1 DEF push_many
<1>. QED BY <1>2, <1>3, HasConcat, DistinctConcat

\* start_worker moves its own thread and starts a worker that was not running.
LEMMA StartWorkerMoves ==
    ASSUME TypeInv, Places, NEW t \in Thread, start_worker(t), NEW u \in Thread
    PROVE  \/ pc'[u] = pc[u]
           \/ u = t /\ pc'[u] = AfterCreate(t)
           \/ u \in Worker /\ pc[u] = "unborn" /\ pc'[u] = "loop" /\ u # t
<1>1. pc \in [Thread -> Label] /\ \A w \in Worker : Place(w)
  BY Types DEF Places
<1>2. pc[t] = "start_worker" BY DEF start_worker
<1>3. CASE m_worker_num < MAX_WORKER_NUM /\
           pc' = [pc EXCEPT ![t] = AfterCreate(t), ![m_worker_num] = "loop"]
  <2>1. m_worker_num \in Worker /\ m_worker_num \in Int BY <1>3, Types, Workers
  <2>2. pc[m_worker_num] = "unborn" BY <1>1, <2>1 DEF Place
  <2>. QED BY <1>1, <1>2, <1>3, <2>1, <2>2
<1>4. CASE pc' = [pc EXCEPT ![t] = AfterCreate(t)] BY <1>1, <1>4
<1>. QED BY <1>3, <1>4 DEF start_worker, Goto

\* The scan of steal_context, below the number of workers, is at a worker.
LEMMA ScanWorker ==
    ASSUME TypeInv, NEW t \in Worker, scan[t] < m_worker_num
    PROVE  scan[t] \in Worker
<1>1. t \in Thread /\ scan[t] \in 0 .. MAX_WORKER_NUM
  /\ m_worker_num \in 1 .. MAX_WORKER_NUM
  BY Types
<1>. QED BY <1>1, Workers

\* Once there is a context besides the logger, the start of the process is over.
LEMMA Booted ==
    ASSUME TypeInv, Birth, NEW c \in Context, c # Logger, m_alloc[c] # "none"
    PROVE  m_alloc[Root] # "none" /\ m_alloc[Logger] # "none"
<1>1. m_alloc[Root] # "none" BY DEF Birth, Start, Booting
<1>. QED BY <1>1, Types DEF Birth, Start, BootLabels

\* A context that is not created stays untouched.
LEMMA FreshNext ==
    ASSUME TypeInv, TypeInv', Places, Birth, Next, NEW c \in Context
    PROVE  m_alloc'[c] = "none" => Fresh(c)'
<1>1. /\ pc \in [Thread -> Label]
      /\ dest \in [Thread -> Context \cup {NoContext}]
      /\ created \in [Thread -> Context \cup {NoContext}]
      /\ running \in [Worker -> Context \cup {NoContext}]
      /\ m_alloc \in [Context -> {"none", "live", "deleted"}]
      /\ m_handle \in [Context -> BOOLEAN]
      /\ m_inited \in [Context -> BOOLEAN]
      /\ m_ref \in [Context -> Int]
      /\ m_processing \in [Context -> BOOLEAN]
      /\ m_message_queue \in [Context -> Seq(Message)]
      /\ m_worker \in [Context -> Worker \cup {NoWorker}]
      /\ Worker \subseteq Thread /\ Main \notin Worker
      /\ Main \in Thread /\ Net \in Thread
      /\ Logger \in Context /\ Root \in Context /\ Root # Logger
      /\ NoContext \notin Context
      /\ \A t \in Thread : Locals(t)
      /\ \A t \in Worker : pc[t] # "unborn" => running[t] # c \/ m_alloc[c] # "none"
      /\ m_alloc[c] = "none" => Fresh(c)
  BY Types DEF Birth, Fresh
<1>2. ASSUME NEW t \in Thread, grab_context(t) PROVE m_alloc'[c] = "none" => Fresh(c)'
  BY <1>1, <1>2 DEF grab_context, Goto, Return, mgrVars, runVars, sendVars,
     Fresh, Locals, Idle
<1>3. ASSUME NEW t \in Thread, check_valid(t) PROVE m_alloc'[c] = "none" => Fresh(c)'
  BY <1>1, <1>3 DEF check_valid, EndSend, Goto, IsValid, Return, ctxVars,
     mgrVars, runVars, sendVars, Fresh, Locals, Idle
<1>4. ASSUME NEW t \in Thread, push_message(t) PROVE m_alloc'[c] = "none" => Fresh(c)'
  BY <1>1, <1>4 DEF push_message, EndSend, Goto, Return, mgrVars, runVars,
     sendVars, Fresh, Locals, Idle
<1>5. ASSUME NEW t \in Thread, push_context(t) PROVE m_alloc'[c] = "none" => Fresh(c)'
  BY <1>1, <1>5 DEF push_context, Goto, runVars, sendVars, Fresh, Locals,
     Idle
<1>6. ASSUME NEW t \in Thread, push_one(t) PROVE m_alloc'[c] = "none" => Fresh(c)'
  <2>1. /\ \A w \in Worker : Has(queue'[w], c) => Has(queue[w], c) \/ c = Pushing(t)
        /\ Pushing(t) \in Context
    BY <1>6, PushOneMoves
  <2>2. m_alloc[c] = "none" => c # Pushing(t)
    BY <1>1, <1>6 DEF Fresh, Pushing, push_one, Locals, Idle
  <2>3. m_alloc[c] = "none" => \A w \in Worker : ~Has(queue'[w], c)
    BY <1>1, <2>1, <2>2 DEF Fresh
  <2>. HIDE DEF Fresh
  <2>4. UNCHANGED <<ctxVars, stolen, created>> BY <1>6 DEF push_one
  <2>5. \A u \in Thread : dest'[u] = c => dest[u] = c /\ (u # t => pc'[u] = pc[u])
    BY <1>1, <1>6 DEF push_one, AfterPush, EndSend, Return, Goto, sendVars
  <2>6. \A w \in Worker : running'[w] = c => running[w] = c
    BY <1>1, <1>6 DEF push_one
  <2>. QED
    BY <1>1, <1>6, <2>3, <2>4, <2>5, <2>6 DEF Fresh, ctxVars, push_one
<1>7. ASSUME NEW t \in Thread, sem_post(t) PROVE m_alloc'[c] = "none" => Fresh(c)'
  BY <1>1, <1>7 DEF sem_post, AfterPush, EndSend, Goto, Return, ctxVars,
     runVars, sendVars, Fresh, Locals, Idle
<1>8. ASSUME NEW t \in Thread, release_dest(t) PROVE m_alloc'[c] = "none" => Fresh(c)'
  BY <1>1, <1>8 DEF release_dest, Goto, Release, Return, mgrVars, runVars,
     Fresh, Locals, Idle
<1>9. ASSUME NEW t \in Thread, init(t) PROVE m_alloc'[c] = "none" => Fresh(c)'
  <2>1. created[t] \in Context /\ m_alloc[created[t]] # "none"
    <3>1. created[t] \in Context BY <1>1, <1>9 DEF init, Locals
    <3>. QED BY <3>1 DEF Birth, Fresh
  <2>2. created[t] # Logger => m_alloc[Logger] # "none" BY <2>1, Booted
  <2>. QED
    BY <1>1, <1>9, <2>2 DEF init, CallLog, Goto, ctxVars, mgrVars, runVars,
       sendVars, Fresh, Locals, Idle
<1>10. ASSUME NEW t \in Thread, lua_ctx_init(t) PROVE m_alloc'[c] = "none" => Fresh(c)'
  BY <1>1, <1>10 DEF lua_ctx_init, Goto, mgrVars, runVars, sendVars, Fresh,
     Locals, Idle
<1>11. ASSUME NEW t \in Thread, set_inited(t) PROVE m_alloc'[c] = "none" => Fresh(c)'
  BY <1>1, <1>11 DEF set_inited, Goto, SendCreated, mgrVars, runVars, Fresh,
     Locals, Idle
<1>12. ASSUME NEW t \in Thread, retire_created(t) PROVE m_alloc'[c] = "none" => Fresh(c)'
  BY <1>1, <1>12 DEF retire_created, Goto, Release, Retire, SendCreated,
     mgrVars, runVars, Fresh, Locals, Idle
<1>13. ASSUME NEW t \in Thread, check_load(t) PROVE m_alloc'[c] = "none" => Fresh(c)'
  BY <1>1, <1>13 DEF check_load, AfterCreate, Goto, ctxVars, mgrVars,
     runVars, sendVars, Fresh, Locals, Idle
<1>14. ASSUME NEW t \in Thread, start_worker(t) PROVE m_alloc'[c] = "none" => Fresh(c)'
  <2>1. \A u \in Thread : u # t => pc'[u] = pc[u] \/ pc[u] = "unborn"
    BY <1>14, StartWorkerMoves
  <2>2. UNCHANGED <<ctxVars, queue, stolen, running, created, dest>>
    BY <1>14 DEF start_worker, runVars, sendVars
  <2>. QED BY <1>1, <1>14, <2>1, <2>2 DEF Fresh, ctxVars, start_worker
<1>15. ASSUME NEW t \in Thread, check_alive(t) PROVE m_alloc'[c] = "none" => Fresh(c)'
  BY <1>1, <1>15 DEF check_alive, AfterAlive, CallSend, Goto, ctxVars,
     mgrVars, runVars, sendVars, Fresh, Locals, Idle
<1>16. ASSUME NEW t \in Thread, stop(t) PROVE m_alloc'[c] = "none" => Fresh(c)'
  BY <1>1, <1>16 DEF stop, AfterAlive, Goto, ctxVars, runVars, sendVars,
     Fresh, Locals, Idle
<1>17. ASSUME NEW t \in Thread, wakeup(t) PROVE m_alloc'[c] = "none" => Fresh(c)'
  BY <1>1, <1>17 DEF wakeup, AfterAlive, Goto, ctxVars, runVars, sendVars,
     Fresh, Locals, Idle
<1>18. ASSUME NEW t \in Worker, loop(t) PROVE m_alloc'[c] = "none" => Fresh(c)'
  BY <1>1, <1>18 DEF loop, Goto, ctxVars, mgrVars, runVars, sendVars, Fresh,
     Locals, Idle
<1>19. ASSUME NEW t \in Worker, try_pop_one(t) PROVE m_alloc'[c] = "none" => Fresh(c)'
  <2>1. UNCHANGED <<ctxVars, stolen, created, dest>>
    BY <1>19 DEF try_pop_one, sendVars
  <2>2. m_alloc[c] = "none" => /\ \A w \in Worker : ~Has(queue'[w], c)
                               /\ \A w \in Worker : running'[w] # c
    <3>1. CASE queue[t] = << >>
      BY <1>1, <1>19, <3>1 DEF Fresh, try_pop_one
    <3>2. CASE queue[t] # << >>
      BY <1>1, <1>19, <3>2, TryPopMoves DEF Fresh
    <3>. QED BY <3>1, <3>2
  <2>3. \A u \in Thread : pc'[u] = pc[u] \/ pc[u] # "grab_context"
    BY <1>1, <1>19 DEF try_pop_one, Goto
  <2>. QED BY <1>1, <2>1, <2>2, <2>3 DEF Fresh, ctxVars
<1>20. ASSUME NEW t \in Worker, steal_context(t) PROVE m_alloc'[c] = "none" => Fresh(c)'
  <2>1. UNCHANGED <<ctxVars, created, dest>> /\ pc[t] = "steal_context"
    BY <1>20 DEF steal_context, sendVars
  <2>2. m_alloc[c] = "none" => /\ \A w \in Worker : ~Has(queue'[w], c)
                               /\ \A w \in Worker : ~Has(stolen'[w], c)
                               /\ \A w \in Worker : running'[w] # c
    <3>1. CASE UNCHANGED <<queue, running, stolen>> BY <1>1, <3>1 DEF Fresh
    <3>2. CASE scan[t] < m_worker_num /\ StealFrom(t, scan[t])
      <4>1. scan[t] \in Worker BY <1>1, <3>2, ScanWorker
      <4>2. stolen[t] = << >> BY <1>1, <2>1 DEF Places, Place
      <4>3. \A w \in Worker :
                /\ Has(queue'[w], c) => Has(queue[w], c)
                /\ Has(stolen'[w], c) => Has(stolen[w], c) \/ Has(queue[scan[t]], c)
                /\ running'[w] = c => running[w] = c \/ Has(queue[scan[t]], c)
        BY <3>2, <4>1, <4>2, StealLess
      <4>. QED BY <1>1, <4>1, <4>3 DEF Fresh
    <3>. QED BY <1>20, <3>1, <3>2 DEF steal_context
  <2>3. \A u \in Thread : pc'[u] = pc[u] \/ pc[u] # "grab_context"
    BY <1>1, <1>20 DEF steal_context, StealFrom, Goto
  <2>. QED BY <1>1, <2>1, <2>2, <2>3 DEF Fresh, ctxVars
<1>21. ASSUME NEW t \in Worker, push_many(t) PROVE m_alloc'[c] = "none" => Fresh(c)'
  <2>1. UNCHANGED <<ctxVars, created, dest, running>>
    BY <1>21 DEF push_many, sendVars
  <2>2. m_alloc[c] = "none" => /\ \A w \in Worker : ~Has(queue'[w], c)
                               /\ \A w \in Worker : ~Has(stolen'[w], c)
    <3>1. ~Has(<< >>, c) BY DEF Has
    <3>2. /\ stolen'[t] = << >>
          /\ \A w \in Worker \ {t} : stolen'[w] = stolen[w] /\ queue'[w] = queue[w]
          /\ Has(queue'[t], c) => Has(queue[t], c) \/ Has(stolen[t], c)
      BY <1>21, PushManyMoves
    <3>. QED BY <1>1, <3>1, <3>2 DEF Fresh
  <2>3. \A u \in Thread : pc'[u] = pc[u] \/ pc[u] # "grab_context"
    BY <1>1, <1>21 DEF push_many, Goto
  <2>. QED BY <1>1, <2>1, <2>2, <2>3 DEF Fresh, ctxVars
<1>22. ASSUME NEW t \in Worker, wait(t) PROVE m_alloc'[c] = "none" => Fresh(c)'
  BY <1>1, <1>22 DEF wait, Goto, ctxVars, runVars, sendVars, Fresh, Locals,
     Idle
<1>23. ASSUME NEW t \in Worker, attach(t) PROVE m_alloc'[c] = "none" => Fresh(c)'
  BY <1>1, <1>23 DEF attach, Goto, mgrVars, sendVars, Fresh, Locals, Idle
<1>24. ASSUME NEW t \in Worker, turn(t) PROVE m_alloc'[c] = "none" => Fresh(c)'
  BY <1>1, <1>24 DEF turn, Goto, IsValid, MayGoOn, mgrVars, runVars,
     sendVars, Fresh, Locals, Idle
<1>25. ASSUME NEW t \in Worker, pop_message(t) PROVE m_alloc'[c] = "none" => Fresh(c)'
  BY <1>1, <1>25 DEF pop_message, Goto, IsValid, mgrVars, sendVars, Fresh,
     Locals, Idle
<1>26. ASSUME NEW t \in Worker, release_running(t) PROVE m_alloc'[c] = "none" => Fresh(c)'
  BY <1>1, <1>26 DEF release_running, Goto, Release, mgrVars, sendVars,
     Fresh, Locals, Idle
<1>27. ASSUME NEW t \in Worker, lua_acts(t) PROVE m_alloc'[c] = "none" => Fresh(c)'
  <2>1. running[t] \in Context /\ m_alloc[running[t]] # "none"
    <3>1. running[t] \in Context BY <1>1, <1>27 DEF lua_acts, Locals, Idle
    <3>. QED BY <3>1 DEF Birth, Fresh
  <2>2. running[t] # Logger => m_alloc[Logger] # "none" BY <2>1, Booted
  <2>3. ASSUME NEW x \in Context, NEW m, CallSend(t, x, m, "handle"),
               UNCHANGED <<ctxVars, mgrVars, runVars, created>>
        PROVE  m_alloc'[c] = "none" => Fresh(c)'
    BY <1>1, <2>3 DEF CallSend, Goto, ctxVars, mgrVars, runVars, Fresh
  <2>4. CASE /\ CallLog(t, "handle")
             /\ UNCHANGED <<ctxVars, mgrVars, runVars, created>>
    BY <1>1, <1>27, <2>2, <2>4 DEF lua_acts, CallLog, Goto, ctxVars, mgrVars,
       runVars, Fresh
  <2>5. ASSUME NEW x \in Context, Register(t, x)
        PROVE  m_alloc'[c] = "none" => Fresh(c)'
    BY <1>1, <1>27, <2>5 DEF lua_acts, Register, Goto, mgrVars, runVars,
       sendVars, Fresh
  <2>. QED BY <1>27, <2>3, <2>4, <2>5 DEF lua_acts
<1>28. ASSUME NEW t \in Worker, handle(t) PROVE m_alloc'[c] = "none" => Fresh(c)'
  BY <1>1, <1>28 DEF handle, Goto, ctxVars, mgrVars, runVars, sendVars,
     Fresh, Locals, Idle
<1>29. ASSUME NEW t \in Worker, drop(t) PROVE m_alloc'[c] = "none" => Fresh(c)'
  BY <1>1, <1>29 DEF drop, CallSend, Goto, ctxVars, mgrVars, runVars,
     sendVars, Fresh, Locals, Idle
<1>30. ASSUME NEW t \in Worker, finish(t) PROVE m_alloc'[c] = "none" => Fresh(c)'
  BY <1>1, <1>30 DEF finish, Goto, ctxVars, mgrVars, sendVars, Fresh,
     Locals, Idle
<1>31. ASSUME NEW t \in Worker, deinit(t) PROVE m_alloc'[c] = "none" => Fresh(c)'
  <2>1. running[t] \in Context /\ m_alloc[running[t]] # "none"
    <3>1. running[t] \in Context BY <1>1, <1>31 DEF deinit, Locals, Idle
    <3>. QED BY <3>1 DEF Birth, Fresh
  <2>2. running[t] # Logger => m_alloc[Logger] # "none" BY <2>1, Booted
  <2>. QED
    BY <1>1, <1>31, <2>2 DEF deinit, CallLog, CallSend, Goto, ctxVars, mgrVars,
     runVars, sendVars, Fresh, Locals, Idle
<1>32. ASSUME NEW t \in Worker, unset_inited(t) PROVE m_alloc'[c] = "none" => Fresh(c)'
  BY <1>1, <1>32 DEF unset_inited, Goto, mgrVars, runVars, sendVars, Fresh,
     Locals, Idle
<1>33. ASSUME NEW t \in Worker, retire_context(t) PROVE m_alloc'[c] = "none" => Fresh(c)'
  BY <1>1, <1>33 DEF retire_context, Goto, Release, Retire, mgrVars,
     runVars, sendVars, Fresh, Locals, Idle
<1>34. ASSUME NEW t \in Worker, repush_context(t) PROVE m_alloc'[c] = "none" => Fresh(c)'
  BY <1>1, <1>34 DEF repush_context, Goto, ctxVars, mgrVars, runVars,
     sendVars, Fresh, Locals, Idle
<1>35. ASSUME NEW t \in Worker, shortest(t) PROVE m_alloc'[c] = "none" => Fresh(c)'
  BY <1>1, <1>35 DEF shortest, Goto, ctxVars, mgrVars, runVars, sendVars,
     Fresh, Locals, Idle
<1>36. ASSUME boot_logger PROVE m_alloc'[c] = "none" => Fresh(c)'
  BY <1>1, <1>36 DEF boot_logger, Goto, Register, mgrVars, runVars,
     sendVars, Fresh, Locals, Idle
<1>37. ASSUME grab_logger PROVE m_alloc'[c] = "none" => Fresh(c)'
  <2>1. m_alloc[Logger] # "none" BY <1>37 DEF grab_logger, Birth, Start
  <2>. QED
    BY <1>1, <1>37, <2>1 DEF grab_logger, Goto, mgrVars, runVars, sendVars,
       Fresh, Locals, Idle
<1>38. ASSUME boot_root PROVE m_alloc'[c] = "none" => Fresh(c)'
  BY <1>1, <1>38 DEF boot_root, Goto, Register, mgrVars, runVars, sendVars,
     Fresh, Locals, Idle
<1>39. ASSUME response PROVE m_alloc'[c] = "none" => Fresh(c)'
  BY <1>1, <1>39 DEF response, CallSend, Goto, ctxVars, mgrVars, runVars,
     Fresh, Locals, Idle
<1>40. ASSUME NEW t \in Thread, Send(t) PROVE m_alloc'[c] = "none" =>
   Fresh(c)'
  BY <1>40, <1>2, <1>3, <1>4, <1>5, <1>6, <1>7, <1>8 DEF Send
<1>41. ASSUME NEW t \in Thread, Create(t) PROVE m_alloc'[c] = "none" =>
   Fresh(c)'
  BY <1>41, <1>9, <1>10, <1>11, <1>12, <1>13, <1>14 DEF Create
<1>42. ASSUME NEW t \in Thread, Stop(t) PROVE m_alloc'[c] = "none" =>
   Fresh(c)'
  BY <1>42, <1>15, <1>16, <1>17 DEF Stop
<1>43. ASSUME NEW t \in Worker, WorkerProcess(t) PROVE m_alloc'[c] = "none" =>
   Fresh(c)'
  BY <1>43, <1>18, <1>19, <1>20, <1>21, <1>22, <1>23, <1>24, <1>25, <1>26,
     <1>27, <1>28, <1>29, <1>30, <1>31, <1>32, <1>33, <1>34, <1>35 DEF
     WorkerProcess
<1>. QED
  BY <1>40, <1>41, <1>42, <1>43, <1>36, <1>37, <1>38, <1>39 DEF Next, Step,
     Boot


\* A step inside context_send, or one that only moves a worker, keeps the order
\* in which the process starts.
LEMMA StartKept ==
    ASSUME TypeInv, Start, NEW t \in Thread,
           \A c \in Context : m_alloc'[c] = "none" <=> m_alloc[c] = "none",
           m_alloc[Root] = "none" =>
               /\ m_handle'[Logger] = m_handle[Logger]
               /\ m_message_queue'[Logger] = m_message_queue[Logger]
               /\ m_exiting' = m_exiting,
           \A u \in Thread \ {t} : pc'[u] = pc[u] /\ dest'[u] = dest[u],
           UNCHANGED <<back, type>>,
           dest'[t] = dest[t] \/ dest'[t] = NoContext,
           \/ pc'[t] \in {"check_valid", "push_message", "push_context",
                          "push_one", "sem_post", "release_dest", "loop",
                          "release_running"}
           \/ pc'[t] = back[t] /\ dest[t] \in Context
           \/ pc[t] = "pop_message" /\ m_alloc[Root] # "none"
              /\ pc'[t] \in {"handle", "drop"},
           pc[t] \notin BootLabels
    PROVE  Start'
<1>1. /\ Main \in Thread /\ NoContext \notin Context /\ Root \in Context
      /\ Logger \in Context /\ Locals(t)
  BY Types
<1>2. pc'[Main] \notin BootLabels \/ pc'[Main] = pc[Main]
  BY <1>1 DEF BootLabels, Locals, Resumes
<1>4. CASE m_alloc[Root] # "none"
  BY <1>1, <1>2, <1>4 DEF Start, BootLabels
<1>5. CASE m_alloc[Root] = "none"
  BY <1>1, <1>2, <1>5 DEF Start, Booting, BootLabels
<1>. QED BY <1>4, <1>5

\* The process starts in this order.
LEMMA StartNext ==
    ASSUME TypeInv, TypeInv', Places, Birth, Next
    PROVE  Start'
<1>1. /\ pc \in [Thread -> Label]
      /\ dest \in [Thread -> Context \cup {NoContext}]
      /\ type \in [Thread -> Message]
      /\ back \in [Thread -> Label]
      /\ created \in [Thread -> Context \cup {NoContext}]
      /\ running \in [Worker -> Context \cup {NoContext}]
      /\ m_alloc \in [Context -> {"none", "live", "deleted"}]
      /\ m_handle \in [Context -> BOOLEAN]
      /\ m_message_queue \in [Context -> Seq(Message)]
      /\ Worker \subseteq Thread /\ Main \notin Worker
      /\ Main \in Thread /\ Net \in Thread /\ Main # Net
      /\ Logger \in Context /\ Root \in Context /\ Root # Logger
      /\ NoContext \notin Context
      /\ \A t \in Thread : Locals(t) /\ Place(t)
      /\ \A c \in Context : m_alloc[c] = "none" => Fresh(c)
      /\ Start
  BY Types DEF Birth, Places
<1>2. ASSUME NEW t \in Thread, grab_context(t) PROVE Start'
  <2>1. /\ t \in Thread /\ UNCHANGED <<m_exiting, back, type>>
        /\ pc[t] \notin BootLabels
    BY <1>1, <1>2 DEF grab_context, BootLabels,
       mgrVars, sendVars, Return, Goto
  <2>2. \A u \in Thread \ {t} : pc'[u] = pc[u] /\ dest'[u] = dest[u]
    BY <1>1, <1>2 DEF grab_context, sendVars, Goto, Return, Goto
  <2>3. \A c \in Context : m_alloc'[c] = "none" <=> m_alloc[c] = "none"
    BY <1>1, <1>2 DEF grab_context, ctxVars
  <2>4. UNCHANGED <<m_handle, m_message_queue>> BY <1>2 DEF grab_context, ctxVars
  <2>5. /\ dest'[t] = dest[t] \/ dest'[t] = NoContext
        /\ \/ pc'[t] \in {"check_valid", "push_message", "push_context",
                          "push_one", "sem_post", "release_dest", "loop",
                          "release_running"}
           \/ pc'[t] = back[t] /\ dest[t] \in Context
    BY <1>1, <1>2, <2>1 DEF grab_context, Locals, sendVars, Goto, Return, Goto
  <2>. QED BY <1>1, <2>1, <2>2, <2>3, <2>4, <2>5, StartKept
<1>3. ASSUME NEW t \in Thread, check_valid(t) PROVE Start'
  <2>1. /\ t \in Thread /\ UNCHANGED <<m_exiting, back, type>>
        /\ pc[t] \notin BootLabels
    BY <1>1, <1>3 DEF check_valid, BootLabels,
       mgrVars, sendVars, EndSend, Return, Goto
  <2>2. \A u \in Thread \ {t} : pc'[u] = pc[u] /\ dest'[u] = dest[u]
    BY <1>1, <1>3 DEF check_valid, sendVars, Goto, EndSend, Return, Goto
  <2>3. \A c \in Context : m_alloc'[c] = "none" <=> m_alloc[c] = "none"
    BY <1>1, <1>3 DEF check_valid, ctxVars
  <2>4. UNCHANGED <<m_handle, m_message_queue>> BY <1>3 DEF check_valid, ctxVars
  <2>5. /\ dest'[t] = dest[t] \/ dest'[t] = NoContext
        /\ \/ pc'[t] \in {"check_valid", "push_message", "push_context",
                          "push_one", "sem_post", "release_dest", "loop",
                          "release_running"}
           \/ pc'[t] = back[t] /\ dest[t] \in Context
    BY <1>1, <1>3, <2>1 DEF check_valid, Locals, sendVars, Goto, EndSend, Return, Goto
  <2>. QED BY <1>1, <2>1, <2>2, <2>3, <2>4, <2>5, StartKept
<1>4. ASSUME NEW t \in Thread, push_message(t) PROVE Start'
  <2>1. /\ t \in Thread /\ UNCHANGED <<m_exiting, back, type>>
        /\ pc[t] \notin BootLabels
    BY <1>1, <1>4 DEF push_message, BootLabels,
       mgrVars, sendVars, EndSend, Return, Goto
  <2>2. \A u \in Thread \ {t} : pc'[u] = pc[u] /\ dest'[u] = dest[u]
    BY <1>1, <1>4 DEF push_message, sendVars, Goto, EndSend, Return, Goto
  <2>3. \A c \in Context : m_alloc'[c] = "none" <=> m_alloc[c] = "none"
    BY <1>1, <1>4 DEF push_message, ctxVars
  <2>4. m_alloc[Root] = "none" => FALSE
    <3>1. /\ dest[t] \in Context /\ m_alloc[dest[t]] # "none"
          /\ type[t] # "init" /\ pc[t] = "push_message"
      BY <1>1, <1>4 DEF push_message, Locals, Place, Fresh
    <3>. QED BY <1>1, <3>1 DEF Start, Booting
  <2>5. /\ dest'[t] = dest[t] \/ dest'[t] = NoContext
        /\ \/ pc'[t] \in {"check_valid", "push_message", "push_context",
                          "push_one", "sem_post", "release_dest", "loop",
                          "release_running"}
           \/ pc'[t] = back[t] /\ dest[t] \in Context
    BY <1>1, <1>4, <2>1 DEF push_message, Locals, sendVars, Goto, EndSend, Return, Goto
  <2>. QED BY <1>1, <2>1, <2>2, <2>3, <2>4, <2>5, StartKept
<1>5. ASSUME NEW t \in Thread, push_context(t) PROVE Start'
  BY <1>1, <1>5 DEF push_context, Goto, sendVars, Start, Booting,
     Resumes, BootLabels, Fresh, Locals, Place, Creating, Sending
<1>6. ASSUME NEW t \in Thread, push_one(t) PROVE Start'
  BY <1>1, <1>6 DEF push_one, AfterPush, EndSend, Goto, Return, ctxVars,
     sendVars, Start, Booting, Resumes, BootLabels, Fresh, Locals, Place, Creating,
     Sending
<1>7. ASSUME NEW t \in Thread, sem_post(t) PROVE Start'
  <2>1. /\ t \in Thread /\ UNCHANGED <<m_exiting, back, type>>
        /\ pc[t] \notin BootLabels
    BY <1>1, <1>7 DEF sem_post, BootLabels,
       mgrVars, sendVars, EndSend, Return, Goto, AfterPush
  <2>2. \A u \in Thread \ {t} : pc'[u] = pc[u] /\ dest'[u] = dest[u]
    BY <1>1, <1>7 DEF sem_post, sendVars, Goto, EndSend, Return, Goto, AfterPush
  <2>3. \A c \in Context : m_alloc'[c] = "none" <=> m_alloc[c] = "none"
    BY <1>1, <1>7 DEF sem_post, ctxVars
  <2>4. UNCHANGED <<m_handle, m_message_queue>> BY <1>7 DEF sem_post, ctxVars
  <2>5. /\ dest'[t] = dest[t] \/ dest'[t] = NoContext
        /\ \/ pc'[t] \in {"check_valid", "push_message", "push_context",
                          "push_one", "sem_post", "release_dest", "loop",
                          "release_running"}
           \/ pc'[t] = back[t] /\ dest[t] \in Context
    BY <1>1, <1>7, <2>1 DEF sem_post, Locals, sendVars, Goto, EndSend, Return, Goto, AfterPush
  <2>. QED BY <1>1, <2>1, <2>2, <2>3, <2>4, <2>5, StartKept
<1>8. ASSUME NEW t \in Thread, release_dest(t) PROVE Start'
  <2>1. /\ t \in Thread /\ UNCHANGED <<m_exiting, back, type>>
        /\ pc[t] \notin BootLabels
    BY <1>1, <1>8 DEF release_dest, BootLabels,
       mgrVars, sendVars, Return, Goto
  <2>2. \A u \in Thread \ {t} : pc'[u] = pc[u] /\ dest'[u] = dest[u]
    BY <1>1, <1>8 DEF release_dest, sendVars, Goto, Return, Goto
  <2>3. \A c \in Context : m_alloc'[c] = "none" <=> m_alloc[c] = "none"
    BY <1>1, <1>8 DEF release_dest, ctxVars, Release, Locals, Fresh
  <2>4. UNCHANGED <<m_handle, m_message_queue>> BY <1>8 DEF release_dest, ctxVars
  <2>5. /\ dest'[t] = dest[t] \/ dest'[t] = NoContext
        /\ \/ pc'[t] \in {"check_valid", "push_message", "push_context",
                          "push_one", "sem_post", "release_dest", "loop",
                          "release_running"}
           \/ pc'[t] = back[t] /\ dest[t] \in Context
    BY <1>1, <1>8, <2>1 DEF release_dest, Locals, sendVars, Goto, Return, Goto
  <2>. QED BY <1>1, <2>1, <2>2, <2>3, <2>4, <2>5, StartKept
<1>9. ASSUME NEW t \in Thread, init(t) PROVE Start'
  BY <1>1, <1>9 DEF init, CallLog, Goto, ctxVars, mgrVars, sendVars, Start,
     Booting, Resumes, BootLabels, Fresh, Locals, Place, Creating, Sending
<1>10. ASSUME NEW t \in Thread, lua_ctx_init(t) PROVE Start'
  BY <1>1, <1>10 DEF lua_ctx_init, Goto, mgrVars, sendVars, Start, Booting,
     Resumes, BootLabels, Fresh, Locals, Place, Creating, Sending
<1>11. ASSUME NEW t \in Thread, set_inited(t) PROVE Start'
  BY <1>1, <1>11 DEF set_inited, Goto, SendCreated, mgrVars, Start, Booting,
     Resumes, BootLabels, Fresh, Locals, Place, Creating, Sending
<1>12. ASSUME NEW t \in Thread, retire_created(t) PROVE Start'
  BY <1>1, <1>12 DEF retire_created, Goto, Release, Retire, SendCreated,
     mgrVars, Start, Booting, Resumes, BootLabels, Fresh, Locals, Place, Creating,
     Sending
<1>13. ASSUME NEW t \in Thread, check_load(t) PROVE Start'
  BY <1>1, <1>13 DEF check_load, AfterCreate, Goto, ctxVars, mgrVars,
     sendVars, Start, Booting, Resumes, BootLabels, Fresh, Locals, Place, Creating,
     Sending
<1>14. ASSUME NEW t \in Thread, start_worker(t) PROVE Start'
  BY <1>1, <1>14 DEF start_worker, AfterCreate, Goto, ctxVars, sendVars,
     Start, Booting, Resumes, BootLabels, Fresh, Locals, Place, Creating, Sending
<1>15. ASSUME NEW t \in Thread, check_alive(t) PROVE Start'
  BY <1>1, <1>15 DEF check_alive, AfterAlive, CallSend, Goto, ctxVars,
     mgrVars, sendVars, Start, Booting, Resumes, BootLabels, Fresh, Locals, Place,
     Creating, Sending
<1>16. ASSUME NEW t \in Thread, stop(t) PROVE Start'
  BY <1>1, <1>16 DEF stop, AfterAlive, Goto, ctxVars, sendVars, Start,
     Booting, Resumes, BootLabels, Fresh, Locals, Place, Creating, Sending
<1>17. ASSUME NEW t \in Thread, wakeup(t) PROVE Start'
  BY <1>1, <1>17 DEF wakeup, AfterAlive, Goto, ctxVars, sendVars, Start,
     Booting, Resumes, BootLabels, Fresh, Locals, Place, Creating, Sending
<1>18. ASSUME NEW t \in Worker, loop(t) PROVE Start'
  BY <1>1, <1>18 DEF loop, Goto, ctxVars, mgrVars, sendVars, Start, Booting,
     Resumes, BootLabels, Fresh, Locals, Place, Creating, Sending
<1>19. ASSUME NEW t \in Worker, try_pop_one(t) PROVE Start'
  BY <1>1, <1>19 DEF try_pop_one, Goto, ctxVars, sendVars, Start, Booting,
     Resumes, BootLabels, Fresh, Locals, Place, Creating, Sending
<1>20. ASSUME NEW t \in Worker, steal_context(t) PROVE Start'
  <2>1. UNCHANGED <<ctxVars, m_exiting, created, sendVars>>
    BY <1>20 DEF steal_context
  <2>2. \A u \in Thread : pc'[u] = pc[u] \/ (u # Main /\ pc'[u] \in
            {"steal_context", "wait", "push_many", "attach"})
    BY <1>1, <1>20 DEF steal_context, StealFrom, Goto
  <2>. QED
    BY <1>1, <2>1, <2>2 DEF Start, Booting, BootLabels, ctxVars, sendVars
<1>21. ASSUME NEW t \in Worker, push_many(t) PROVE Start'
  BY <1>1, <1>21 DEF push_many, Goto, ctxVars, sendVars, Start, Booting,
     Resumes, BootLabels, Fresh, Locals, Place, Creating, Sending
<1>22. ASSUME NEW t \in Worker, wait(t) PROVE Start'
  BY <1>1, <1>22 DEF wait, Goto, ctxVars, sendVars, Start, Booting,
     Resumes, BootLabels, Fresh, Locals, Place, Creating, Sending
<1>23. ASSUME NEW t \in Worker, attach(t) PROVE Start'
  BY <1>1, <1>23 DEF attach, Goto, mgrVars, sendVars, Start, Booting,
     Resumes, BootLabels, Fresh, Locals, Place, Creating, Sending
<1>24. ASSUME NEW t \in Worker, turn(t) PROVE Start'
  BY <1>1, <1>24 DEF turn, Goto, IsValid, MayGoOn, mgrVars, sendVars, Start,
     Booting, Resumes, BootLabels, Fresh, Locals, Place, Creating, Sending
<1>25. ASSUME NEW t \in Worker, pop_message(t) PROVE Start'
  <2>1. /\ t \in Thread /\ UNCHANGED <<m_exiting, back, type>>
        /\ pc[t] \notin BootLabels
    BY <1>1, <1>25 DEF pop_message, BootLabels,
       mgrVars, sendVars
  <2>2. \A u \in Thread \ {t} : pc'[u] = pc[u] /\ dest'[u] = dest[u]
    BY <1>1, <1>25 DEF pop_message, sendVars, Goto
  <2>3. \A c \in Context : m_alloc'[c] = "none" <=> m_alloc[c] = "none"
    BY <1>1, <1>25 DEF pop_message, ctxVars
  <2>4. m_alloc[Root] = "none" =>
            /\ UNCHANGED <<m_handle, m_message_queue>>
            /\ pc'[t] = "release_running"
    <3>1. running[t] \in Context /\ m_alloc[running[t]] # "none"
      BY <1>1, <1>25 DEF pop_message, Locals, Idle, Fresh
    <3>2. m_alloc[Root] = "none" => running[t] = Logger /\ m_message_queue[Logger] = << >>
      BY <1>1, <3>1 DEF Start, Booting
    <3>. QED BY <1>1, <1>25, <2>1, <3>2 DEF pop_message, Goto
  <2>5. /\ dest'[t] = dest[t] \/ dest'[t] = NoContext
        /\ \/ pc'[t] \in {"check_valid", "push_message", "push_context",
                          "push_one", "sem_post", "release_dest", "loop",
                          "release_running"}
           \/ pc'[t] = back[t] /\ dest[t] \in Context
           \/ pc[t] = "pop_message" /\ pc'[t] \in {"handle", "drop"}
    BY <1>1, <1>25, <2>1 DEF pop_message, Locals, sendVars, Goto
  <2>. QED BY <1>1, <2>1, <2>2, <2>3, <2>4, <2>5, StartKept
<1>26. ASSUME NEW t \in Worker, release_running(t) PROVE Start'
  BY <1>1, <1>26 DEF release_running, Goto, Release, mgrVars, sendVars,
     Start, Booting, Resumes, BootLabels, Fresh, Locals, Place, Creating, Sending
<1>27. ASSUME NEW t \in Worker, lua_acts(t) PROVE Start'
  BY <1>1, <1>27 DEF lua_acts, CallLog, CallSend, Goto, Register, ctxVars,
     mgrVars, sendVars, Start, Booting, Resumes, BootLabels, Fresh, Locals, Place,
     Creating, Sending
<1>28. ASSUME NEW t \in Worker, handle(t) PROVE Start'
  BY <1>1, <1>28 DEF handle, Goto, ctxVars, mgrVars, sendVars, Start,
     Booting, Resumes, BootLabels, Fresh, Locals, Place, Creating, Sending
<1>29. ASSUME NEW t \in Worker, drop(t) PROVE Start'
  BY <1>1, <1>29 DEF drop, CallSend, Goto, ctxVars, mgrVars, sendVars,
     Start, Booting, Resumes, BootLabels, Fresh, Locals, Place, Creating, Sending
<1>30. ASSUME NEW t \in Worker, finish(t) PROVE Start'
  BY <1>1, <1>30 DEF finish, Goto, ctxVars, mgrVars, sendVars, Start,
     Booting, Resumes, BootLabels, Fresh, Locals, Place, Creating, Sending
<1>31. ASSUME NEW t \in Worker, deinit(t) PROVE Start'
  BY <1>1, <1>31 DEF deinit, CallLog, CallSend, Goto, ctxVars, mgrVars,
     sendVars, Start, Booting, Resumes, BootLabels, Fresh, Locals, Place, Creating,
     Sending
<1>32. ASSUME NEW t \in Worker, unset_inited(t) PROVE Start'
  BY <1>1, <1>32 DEF unset_inited, Goto, mgrVars, sendVars, Start, Booting,
     Resumes, BootLabels, Fresh, Locals, Place, Creating, Sending
<1>33. ASSUME NEW t \in Worker, retire_context(t) PROVE Start'
  BY <1>1, <1>33 DEF retire_context, Goto, Release, Retire, mgrVars,
     sendVars, Start, Booting, Resumes, BootLabels, Fresh, Locals, Place, Creating,
     Sending
<1>34. ASSUME NEW t \in Worker, repush_context(t) PROVE Start'
  BY <1>1, <1>34 DEF repush_context, Goto, ctxVars, mgrVars, sendVars,
     Start, Booting, Resumes, BootLabels, Fresh, Locals, Place, Creating, Sending
<1>35. ASSUME NEW t \in Worker, shortest(t) PROVE Start'
  BY <1>1, <1>35 DEF shortest, Goto, ctxVars, mgrVars, sendVars, Start,
     Booting, Resumes, BootLabels, Fresh, Locals, Place, Creating, Sending
<1>36. ASSUME boot_logger PROVE Start'
  BY <1>1, <1>36 DEF boot_logger, Goto, Register, mgrVars, sendVars, Start,
     Booting, Resumes, BootLabels, Fresh, Locals, Place, Creating, Sending
<1>37. ASSUME grab_logger PROVE Start'
  BY <1>1, <1>37 DEF grab_logger, Goto, mgrVars, sendVars, Start, Booting,
     Resumes, BootLabels, Fresh, Locals, Place, Creating, Sending
<1>38. ASSUME boot_root PROVE Start'
  BY <1>1, <1>38 DEF boot_root, Goto, Register, mgrVars, sendVars, Start,
     Booting, Resumes, BootLabels, Fresh, Locals, Place, Creating, Sending
<1>39. ASSUME response PROVE Start'
  BY <1>1, <1>39 DEF response, CallSend, Goto, ctxVars, mgrVars, Start,
     Booting, Resumes, BootLabels, Fresh, Locals, Place, Creating, Sending
<1>40. ASSUME NEW t \in Thread, Send(t) PROVE Start'
  BY <1>40, <1>2, <1>3, <1>4, <1>5, <1>6, <1>7, <1>8 DEF Send
<1>41. ASSUME NEW t \in Thread, Create(t) PROVE Start'
  BY <1>41, <1>9, <1>10, <1>11, <1>12, <1>13, <1>14 DEF Create
<1>42. ASSUME NEW t \in Thread, Stop(t) PROVE Start'
  BY <1>42, <1>15, <1>16, <1>17 DEF Stop
<1>43. ASSUME NEW t \in Worker, WorkerProcess(t) PROVE Start'
  BY <1>43, <1>18, <1>19, <1>20, <1>21, <1>22, <1>23, <1>24, <1>25, <1>26,
     <1>27, <1>28, <1>29, <1>30, <1>31, <1>32, <1>33, <1>34, <1>35 DEF
     WorkerProcess
<1>. QED
  BY <1>40, <1>41, <1>42, <1>43, <1>36, <1>37, <1>38, <1>39 DEF Next, Step,
     Boot

-----------------------------------------------------------------------------
(* At most one place processes a context.                                   *)

SameOwners ==
    \A k \in Kind, u \in Thread, c \in Context :
        Owns(k, u, c)' <=> Owns(k, u, c)

\* The steps that leave every context where it is.
QuietStep(t) ==
    \/ grab_context(t) \/ check_valid(t) \/ push_context(t) \/ sem_post(t)
    \/ release_dest(t) \/ init(t) \/ lua_ctx_init(t) \/ set_inited(t)
    \/ check_load(t) \/ start_worker(t) \/ check_alive(t) \/ stop(t)
    \/ wakeup(t)
    \/ push_message(t) /\ m_processing[dest[t]]
    \/ /\ t \in Worker
       /\ \/ loop(t) \/ wait(t) \/ attach(t) \/ turn(t) \/ release_running(t)
          \/ handle(t) \/ drop(t) \/ finish(t) \/ deinit(t) \/ unset_inited(t)
          \/ retire_context(t) \/ repush_context(t) \/ shortest(t)
          \/ try_pop_one(t) /\ queue[t] = << >>
          \/ steal_context(t) /\ UNCHANGED <<queue, running, stolen>>
          \/ pop_message(t) /\ m_message_queue[running[t]] # << >>
          \/ lua_acts(t) /\ UNCHANGED created
    \/ t = Main /\ grab_logger
    \/ t = Net /\ response

\* A step that touches no queue, no running context and no created one leaves every
\* ownership as it was.
LEMMA QuietOwners ==
    ASSUME TypeInv, Places, NEW t \in Thread, QuietStep(t)
    PROVE  SameOwners
<1>. SUFFICES ASSUME NEW k \in Kind, NEW u \in Thread, NEW c \in Context
              PROVE  Owns(k, u, c)' <=> Owns(k, u, c)
  BY DEF SameOwners
<1>1. /\ pc \in [Thread -> Label]
      /\ dest \in [Thread -> Context \cup {NoContext}]
      /\ created \in [Thread -> Context \cup {NoContext}]
      /\ running \in [Worker -> Context \cup {NoContext}]
      /\ Worker \subseteq Thread /\ Main \notin Worker /\ Net \notin Worker
      /\ NoContext \notin Context
      /\ Locals(t) /\ Place(t)
  BY Types DEF Places
<1>2. CASE grab_context(t)
  BY <1>1, <1>2 DEF grab_context, Goto, Return, mgrVars, runVars, sendVars,
     Owns, Locals, Place, Idle, Creating, Sending, Resumes
<1>3. CASE check_valid(t)
  BY <1>1, <1>3 DEF check_valid, EndSend, Goto, IsValid, Return, mgrVars,
     runVars, sendVars, Owns, Locals, Place, Idle, Creating, Sending,
     Resumes
<1>4. CASE push_context(t)
  BY <1>1, <1>4 DEF push_context, Goto, runVars, sendVars, Owns, Locals,
     Place, Idle, Creating, Sending, Resumes
<1>5. CASE sem_post(t)
  BY <1>1, <1>5 DEF sem_post, AfterPush, EndSend, Goto, Return, runVars,
     sendVars, Owns, Locals, Place, Idle, Creating, Sending, Resumes
<1>6. CASE release_dest(t)
  BY <1>1, <1>6 DEF release_dest, Goto, Release, Return, mgrVars, runVars,
     Owns, Locals, Place, Idle, Creating, Sending, Resumes
<1>7. CASE init(t)
  BY <1>1, <1>7 DEF init, CallLog, Goto, mgrVars, runVars, sendVars, Owns,
     Locals, Place, Idle, Creating, Sending, Resumes
<1>8. CASE lua_ctx_init(t)
  BY <1>1, <1>8 DEF lua_ctx_init, Goto, mgrVars, runVars, sendVars, Owns,
     Locals, Place, Idle, Creating, Sending, Resumes
<1>9. CASE set_inited(t)
  BY <1>1, <1>9 DEF set_inited, Goto, SendCreated, mgrVars, runVars, Owns,
     Locals, Place, Idle, Creating, Sending, Resumes
<1>10. CASE check_load(t)
  BY <1>1, <1>10 DEF check_load, AfterCreate, Goto, mgrVars, runVars,
     sendVars, Owns, Locals, Place, Idle, Creating, Sending, Resumes
<1>11. CASE check_alive(t)
  BY <1>1, <1>11 DEF check_alive, AfterAlive, CallSend, Goto, mgrVars,
     runVars, sendVars, Owns, Locals, Place, Idle, Creating, Sending,
     Resumes
<1>12. CASE stop(t)
  BY <1>1, <1>12 DEF stop, AfterAlive, Goto, runVars, sendVars, Owns,
     Locals, Place, Idle, Creating, Sending, Resumes
<1>13. CASE wakeup(t)
  BY <1>1, <1>13 DEF wakeup, AfterAlive, Goto, runVars, sendVars, Owns,
     Locals, Place, Idle, Creating, Sending, Resumes
<1>14. CASE start_worker(t)
  <2>1. \A v \in Thread :
            \/ pc'[v] = pc[v]
            \/ v = t /\ pc'[v] = AfterCreate(t)
            \/ v \in Worker /\ pc[v] = "unborn" /\ pc'[v] = "loop"
    BY <1>14, StartWorkerMoves
  <2>2. AfterCreate(t) \in {"handle", "grab_logger", "join"} BY DEF AfterCreate
  <2>3. UNCHANGED <<queue, stolen, running, created, dest>>
    BY <1>14 DEF start_worker, runVars, sendVars
  <2>. QED BY <1>1, <1>14, <2>1, <2>2, <2>3 DEF Owns, start_worker
<1>15. CASE push_message(t) /\ m_processing[dest[t]]
  BY <1>1, <1>15 DEF push_message, EndSend, Goto, Return, mgrVars, runVars,
     sendVars, Owns, Locals, Place, Idle, Creating, Sending, Resumes
<1>16. CASE t \in Worker /\ loop(t)
  BY <1>1, <1>16 DEF loop, Goto, mgrVars, runVars, sendVars, Owns, Locals,
     Place, Idle, Creating, Sending, Resumes
<1>17. CASE t \in Worker /\ wait(t)
  BY <1>1, <1>17 DEF wait, Goto, runVars, sendVars, Owns, Locals, Place,
     Idle, Creating, Sending, Resumes
<1>18. CASE t \in Worker /\ attach(t)
  BY <1>1, <1>18 DEF attach, Goto, mgrVars, sendVars, Owns, Locals, Place,
     Idle, Creating, Sending, Resumes
<1>19. CASE t \in Worker /\ turn(t)
  BY <1>1, <1>19 DEF turn, Goto, IsValid, MayGoOn, mgrVars, runVars,
     sendVars, Owns, Locals, Place, Idle, Creating, Sending, Resumes
<1>20. CASE t \in Worker /\ release_running(t)
  BY <1>1, <1>20 DEF release_running, Goto, Release, mgrVars, sendVars,
     Owns, Locals, Place, Idle, Creating, Sending, Resumes
<1>21. CASE t \in Worker /\ handle(t)
  BY <1>1, <1>21 DEF handle, Goto, mgrVars, runVars, sendVars, Owns, Locals,
     Place, Idle, Creating, Sending, Resumes
<1>22. CASE t \in Worker /\ drop(t)
  BY <1>1, <1>22 DEF drop, CallSend, Goto, mgrVars, runVars, sendVars, Owns,
     Locals, Place, Idle, Creating, Sending, Resumes
<1>23. CASE t \in Worker /\ finish(t)
  BY <1>1, <1>23 DEF finish, Goto, mgrVars, sendVars, Owns, Locals, Place,
     Idle, Creating, Sending, Resumes
<1>24. CASE t \in Worker /\ deinit(t)
  BY <1>1, <1>24 DEF deinit, CallLog, CallSend, Goto, mgrVars, runVars,
     sendVars, Owns, Locals, Place, Idle, Creating, Sending, Resumes
<1>25. CASE t \in Worker /\ unset_inited(t)
  BY <1>1, <1>25 DEF unset_inited, Goto, mgrVars, runVars, sendVars, Owns,
     Locals, Place, Idle, Creating, Sending, Resumes
<1>26. CASE t \in Worker /\ retire_context(t)
  BY <1>1, <1>26 DEF retire_context, Goto, Release, Retire, mgrVars,
     runVars, sendVars, Owns, Locals, Place, Idle, Creating, Sending,
     Resumes
<1>27. CASE t \in Worker /\ repush_context(t)
  BY <1>1, <1>27 DEF repush_context, Goto, mgrVars, runVars, sendVars, Owns,
     Locals, Place, Idle, Creating, Sending, Resumes
<1>28. CASE t \in Worker /\ shortest(t)
  BY <1>1, <1>28 DEF shortest, Goto, mgrVars, runVars, sendVars, Owns,
     Locals, Place, Idle, Creating, Sending, Resumes
<1>29. CASE t \in Worker /\ try_pop_one(t) /\ queue[t] = << >>
  BY <1>1, <1>29 DEF try_pop_one, Goto, sendVars, Owns, Locals, Place, Idle,
     Creating, Sending, Resumes
<1>30. CASE /\ t \in Worker /\ steal_context(t)
           /\ UNCHANGED <<queue, running, stolen>>
  <2>1. UNCHANGED <<created, dest>> BY <1>30 DEF steal_context, sendVars
  <2>2. pc'[u] = pc[u] \/ (/\ u = t /\ pc[t] = "steal_context"
                           /\ pc'[u] \in {"wait", "push_many", "attach"})
    BY <1>1, <1>30 DEF steal_context, StealFrom, Goto
  <2>. QED BY <1>1, <1>30, <2>1, <2>2 DEF Owns
<1>31. CASE /\ t \in Worker /\ pop_message(t)
           /\ m_message_queue[running[t]] # << >>
  BY <1>1, <1>31 DEF pop_message, Goto, IsValid, mgrVars, sendVars, Owns,
     Locals, Place, Idle, Creating, Sending, Resumes
<1>32. CASE t \in Worker /\ lua_acts(t) /\ UNCHANGED created
  <2>1. UNCHANGED <<queue, stolen, running, created>> /\ pc[t] = "handle"
    BY <1>32 DEF lua_acts, mgrVars, runVars, Register
  <2>2. \A v \in Thread \ {t} : pc'[v] = pc[v] /\ dest'[v] = dest[v]
    BY <1>1, <1>32 DEF lua_acts, CallSend, CallLog, Register, Goto, sendVars
  <2>3. pc'[t] \in {"grab_context", "check_valid", "init"}
    BY <1>1, <1>32 DEF lua_acts, CallSend, CallLog, Register, Goto
  <2>. QED BY <1>1, <2>1, <2>2, <2>3 DEF Owns
<1>33. CASE t = Main /\ grab_logger
  BY <1>1, <1>33 DEF grab_logger, Goto, mgrVars, runVars, sendVars, Owns,
     Locals, Place, Idle, Creating, Sending, Resumes
<1>34. CASE t = Net /\ response
  BY <1>1, <1>34 DEF response, CallSend, Goto, mgrVars, runVars, Owns,
     Locals, Place, Idle, Creating, Sending, Resumes
<1>. QED BY <1>2, <1>3, <1>4, <1>5, <1>6, <1>7, <1>8, <1>9, <1>10, <1>11, <1>12, <1>13,
   <1>14, <1>15, <1>16, <1>17, <1>18, <1>19, <1>20, <1>21, <1>22, <1>23,
   <1>24, <1>25, <1>26, <1>27, <1>28, <1>29, <1>30, <1>31, <1>32, <1>33, <1>34
   DEF QuietStep

\* Then nothing changes for the owners.
LEMMA SameOwnersKept ==
    ASSUME SameOwners
    PROVE  /\ OneOwner => OneOwner'
           /\ \A c \in Context : HasOwner(c)' <=> HasOwner(c)
<1>1. OneOwner => OneOwner'
  <2>. SUFFICES ASSUME OneOwner,
                       NEW c \in Context, NEW k \in Kind, NEW l \in Kind,
                       NEW t \in Thread, NEW u \in Thread,
                       Owns(k, t, c)', Owns(l, u, c)'
                PROVE  k = l /\ t = u
    BY DEF OneOwner
  <2>1. Owns(k, t, c) /\ Owns(l, u, c) BY DEF SameOwners
  <2>. QED BY <2>1 DEF OneOwner
<1>2. \A c \in Context : HasOwner(c)' <=> HasOwner(c) BY DEF SameOwners, HasOwner
<1>. QED BY <1>1, <1>2

\* The step in which context x goes from one place to another, finds its first
\* place, or leaves its last.
Moved(x, k0, t0, l0, u0) ==
    \A k \in Kind, u \in Thread, c \in Context :
        Owns(k, u, c)' <=> \/ Owns(k, u, c) /\ ~ (c = x /\ k = k0 /\ u = t0)
                           \/ c = x /\ k = l0 /\ u = u0
Found(x, l0, u0) ==
    \A k \in Kind, u \in Thread, c \in Context :
        Owns(k, u, c)' <=> Owns(k, u, c) \/ (c = x /\ k = l0 /\ u = u0)
Lost(x, k0, t0) ==
    \A k \in Kind, u \in Thread, c \in Context :
        Owns(k, u, c)' <=> Owns(k, u, c) /\ ~ (c = x /\ k = k0 /\ u = t0)

\* A context that moves from one place to another still has one owner.
LEMMA MovedKept ==
    ASSUME OneOwner, NEW x \in Context, NEW k0 \in Kind, NEW t0 \in Thread,
           NEW l0 \in Kind, NEW u0 \in Thread, Owns(k0, t0, x),
           Moved(x, k0, t0, l0, u0)
    PROVE  OneOwner' /\ \A c \in Context : HasOwner(c)' <=> HasOwner(c)
<1>. USE DEF Moved
<1>1. OneOwner'
  <2>. SUFFICES ASSUME NEW c \in Context, NEW k \in Kind, NEW l \in Kind,
                       NEW t \in Thread, NEW u \in Thread,
                       Owns(k, t, c)', Owns(l, u, c)'
                PROVE  k = l /\ t = u
    BY DEF OneOwner
  <2>1. c = x => k = l0 /\ t = u0 BY DEF OneOwner
  <2>2. c = x => l = l0 /\ u = u0 BY DEF OneOwner
  <2>3. c # x => Owns(k, t, c) /\ Owns(l, u, c) OBVIOUS
  <2>. QED BY <2>1, <2>2, <2>3 DEF OneOwner
<1>2. ASSUME NEW c \in Context PROVE HasOwner(c)' <=> HasOwner(c)
  <2>1. CASE c = x
    <3>1. HasOwner(c) BY <2>1 DEF HasOwner
    <3>2. HasOwner(c)' BY <2>1 DEF HasOwner
    <3>. QED BY <3>1, <3>2
  <2>2. CASE c # x BY <2>2 DEF HasOwner
  <2>. QED BY <2>1, <2>2
<1>. QED BY <1>1, <1>2

\* A context that finds its first place.
LEMMA NewKept ==
    ASSUME OneOwner, NEW x \in Context, ~HasOwner(x),
           NEW l0 \in Kind, NEW u0 \in Thread, Found(x, l0, u0)
    PROVE  OneOwner' /\ \A c \in Context : HasOwner(c)' <=> HasOwner(c) \/ c = x
<1>. USE DEF Found
<1>1. OneOwner'
  <2>. SUFFICES ASSUME NEW c \in Context, NEW k \in Kind, NEW l \in Kind,
                       NEW t \in Thread, NEW u \in Thread,
                       Owns(k, t, c)', Owns(l, u, c)'
                PROVE  k = l /\ t = u
    BY DEF OneOwner
  <2>1. CASE c = x BY <2>1 DEF HasOwner
  <2>2. CASE c # x BY <2>2 DEF OneOwner
  <2>. QED BY <2>1, <2>2
<1>2. ASSUME NEW c \in Context PROVE HasOwner(c)' <=> HasOwner(c) \/ c = x
  BY DEF HasOwner
<1>. QED BY <1>1, <1>2

\* A context that leaves its last place.
LEMMA LostKept ==
    ASSUME OneOwner, NEW x \in Context, NEW k0 \in Kind, NEW t0 \in Thread,
           Owns(k0, t0, x), Lost(x, k0, t0)
    PROVE  OneOwner' /\ \A c \in Context : HasOwner(c)' <=> HasOwner(c) /\ c # x
<1>. USE DEF Lost
<1>1. OneOwner'
  <2>. SUFFICES ASSUME NEW c \in Context, NEW k \in Kind, NEW l \in Kind,
                       NEW t \in Thread, NEW u \in Thread,
                       Owns(k, t, c)', Owns(l, u, c)'
                PROVE  k = l /\ t = u
    BY DEF OneOwner
  <2>. QED BY DEF OneOwner
<1>2. ASSUME NEW c \in Context PROVE HasOwner(c)' <=> HasOwner(c) /\ c # x
  <2>1. CASE c = x
    <3>1. \A k \in Kind, u \in Thread : ~ Owns(k, u, c)' BY <2>1 DEF OneOwner
    <3>. QED BY <2>1, <3>1 DEF HasOwner
  <2>2. CASE c # x BY <2>2 DEF HasOwner
  <2>. QED BY <2>1, <2>2
<1>. QED BY <1>1, <1>2

OwnedOnce == OneOwner /\ QueuesDistinct

\* push_one moves the context it pushes from its thread to the queue.
LEMMA PushOneOwners ==
    ASSUME TypeInv, Places, OwnedOnce, NEW t \in Thread, push_one(t)
    PROVE  OwnedOnce' /\ \A c \in Context : HasOwner(c)' <=> HasOwner(c)
<1>. DEFINE x == Pushing(t)
            src == IF dest[t] # NoContext THEN "pushed" ELSE "run"
<1>1. /\ pc \in [Thread -> Label]
      /\ dest \in [Thread -> Context \cup {NoContext}]
      /\ created \in [Thread -> Context \cup {NoContext}]
      /\ running \in [Worker -> Context \cup {NoContext}]
      /\ Worker \subseteq Thread
      /\ NoContext \notin Context
      /\ Locals(t) /\ Place(t)
  BY Types DEF Places
<1>2. /\ pc[t] = "push_one" /\ UNCHANGED <<stolen, created>>
      /\ \A u \in Thread \ {t} : pc'[u] = pc[u] /\ dest'[u] = dest[u]
      /\ dest'[t] = dest[t] \/ dest'[t] = NoContext
      /\ dest[t] = NoContext => t \in Worker /\ dest'[t] = NoContext
      /\ pc'[t] \in {"sem_post", "loop", "release_dest"} \cup Resumes \cup {"idle", "join"}
  BY <1>1 DEF push_one, AfterPush, EndSend, Return, Goto, sendVars, Locals
<1>3. \A w \in Worker : running'[w] = IF w = t /\ dest[t] = NoContext
                                        THEN NoContext ELSE running[w]
  BY <1>1 DEF push_one
<1>4. /\ x \in Context /\ target[t] \in Worker
      /\ \A w \in Worker, c \in Context :
             Has(queue'[w], c) <=>
                 Has(queue[w], c) \/ (w = target[t] /\ c = x)
      /\ \A w \in Worker :
             Distinct(queue[w]) /\ ~Has(queue[w], x) => Distinct(queue'[w])
  BY PushOneMoves
<1>5. /\ dest[t] # NoContext => x = dest[t] /\ created[t] # x
      /\ dest[t] = NoContext => x = running[t] /\ created[t] = NoContext
  BY <1>1, <1>2 DEF Pushing, Place, Creating
<1>. HIDE DEF x
<1>6. src \in Kind /\ Owns(src, t, x)
  BY <1>1, <1>2, <1>4, <1>5 DEF Owns, Kind
<1>7. Moved(x, src, t, "queued", target[t])
  <2>. SUFFICES ASSUME NEW k \in Kind, NEW u \in Thread, NEW c \in Context
                PROVE  Owns(k, u, c)' <=>
                           \/ Owns(k, u, c) /\ ~ (c = x /\ k = src /\ u = t)
                           \/ c = x /\ k = "queued" /\ u = target[t]
    BY DEF Moved
  <2>1. CASE k = "queued" BY <1>1, <1>2, <1>4, <2>1 DEF Owns
  <2>2. CASE k = "carried" BY <1>1, <1>2, <2>2 DEF Owns
  <2>3. CASE k = "run" BY <1>1, <1>2, <1>3, <1>4, <1>5, <2>3 DEF Owns, Resumes
  <2>4. CASE k = "pushed" BY <1>1, <1>2, <1>4, <1>5, <2>4 DEF Owns, Resumes
  <2>. QED BY <2>1, <2>2, <2>3, <2>4 DEF Kind
<1>8. "queued" \in Kind /\ target[t] \in Thread BY <1>1, <1>4 DEF Kind
<1>. HIDE DEF src
<1>9. OneOwner' /\ \A c \in Context : HasOwner(c)' <=> HasOwner(c)
  <2>1. OneOwner BY DEF OwnedOnce
  <2>. QED BY <1>4, <1>6, <1>7, <1>8, <2>1, MovedKept
<1>10. \A w \in Worker : ~Has(queue[w], x)
  BY <1>1, <1>2, <1>4, <1>5, <1>6 DEF OwnedOnce, OneOwner, Owns, Kind, src
<1>11. QueuesDistinct'
  BY <1>2, <1>4, <1>10 DEF OwnedOnce, QueuesDistinct
<1>. QED BY <1>9, <1>11 DEF OwnedOnce

\* try_pop_one moves the head of the queue to the worker.
LEMMA TryPopOwners ==
    ASSUME TypeInv, Places, OwnedOnce, NEW t \in Worker, try_pop_one(t),
           queue[t] # << >>
    PROVE  OwnedOnce' /\ \A c \in Context : HasOwner(c)' <=> HasOwner(c)
<1>. DEFINE x == running'[t]
<1>1. /\ pc \in [Thread -> Label]
      /\ Worker \subseteq Thread /\ t \in Thread
      /\ NoContext \notin Context
      /\ Locals(t) /\ Place(t)
  BY Types DEF Places
<1>2. /\ pc[t] = "try_pop_one" /\ UNCHANGED <<stolen, created, dest>>
      /\ \A u \in Thread \ {t} : pc'[u] = pc[u]
      /\ pc'[t] = "attach"
      /\ running[t] = NoContext
  BY <1>1 DEF try_pop_one, Goto, sendVars, Place, Idle
<1>3. /\ x \in Context
      /\ \A w \in Worker \ {t} : running'[w] = running[w]
      /\ \A w \in Worker, c \in Context :
             Has(queue[w], c) <=> Has(queue'[w], c) \/ (w = t /\ c = x)
      /\ \A w \in Worker : Distinct(queue[w])
             => Distinct(queue'[w]) /\ (w = t => ~Has(queue'[w], x))
  BY TryPopMoves
<1>. HIDE DEF x
<1>4. "queued" \in Kind /\ "run" \in Kind /\ Owns("queued", t, x)
  BY <1>3 DEF Kind, Owns
<1>5. running'[t] = x BY DEF x
<1>6. Distinct(queue[t]) BY DEF OwnedOnce, QueuesDistinct
<1>7. Moved(x, "queued", t, "run", t)
  <2>. SUFFICES ASSUME NEW k \in Kind, NEW u \in Thread, NEW c \in Context
                PROVE  Owns(k, u, c)' <=>
                           \/ Owns(k, u, c) /\ ~ (c = x /\ k = "queued" /\ u = t)
                           \/ c = x /\ k = "run" /\ u = t
    BY DEF Moved
  <2>1. CASE k = "queued" BY <1>3, <1>6, <2>1 DEF Owns
  <2>2. CASE k = "carried" BY <1>2, <2>2 DEF Owns
  <2>3. CASE k = "run" BY <1>1, <1>2, <1>3, <1>5, <2>3 DEF Owns
  <2>4. CASE k = "pushed" BY <1>2, <2>4 DEF Owns
  <2>. QED BY <2>1, <2>2, <2>3, <2>4 DEF Kind
<1>8. OneOwner' /\ \A c \in Context : HasOwner(c)' <=> HasOwner(c)
  <2>1. OneOwner BY DEF OwnedOnce
  <2>. QED BY <1>1, <1>3, <1>4, <1>7, <2>1, MovedKept
<1>9. QueuesDistinct' BY <1>2, <1>3 DEF OwnedOnce, QueuesDistinct
<1>. QED BY <1>8, <1>9 DEF OwnedOnce

\* Stealing moves half a queue, one context to the worker and the rest to its
\* hands.
LEMMA StealOwners ==
    ASSUME TypeInv, Places, OwnedOnce, NEW t \in Worker, steal_context(t),
           scan[t] < m_worker_num, StealFrom(t, scan[t])
    PROVE  OwnedOnce' /\ \A c \in Context : HasOwner(c)' <=> HasOwner(c)
<1>0. PICK v \in Worker : v = scan[t] BY ScanWorker
<1>1. /\ pc \in [Thread -> Label]
      /\ Worker \subseteq Thread /\ t \in Thread /\ v \in Worker
      /\ NoContext \notin Context
      /\ Locals(t) /\ Place(t)
  BY Types DEF Places
<1>2. /\ pc[t] = "steal_context" /\ UNCHANGED <<created, dest>>
      /\ running[t] = NoContext /\ stolen[t] = << >>
  BY <1>1 DEF steal_context, sendVars, Place, Idle
<1>3. Distinct(queue[v]) BY <1>1 DEF OwnedOnce, QueuesDistinct
<1>4. /\ v # t
      /\ running'[t] \in Context
      /\ \A w \in Worker \ {t} : running'[w] = running[w]
      /\ \A w \in Worker \ {t} : stolen'[w] = stolen[w]
      /\ \A w \in Worker \ {v} : queue'[w] = queue[w]
      /\ \A c : Has(queue[v], c) <=> \/ Has(queue'[v], c)
                                     \/ Has(stolen'[t], c)
                                     \/ c = running'[t]
      /\ Distinct(queue'[v]) /\ Distinct(stolen'[t])
      /\ \A c : ~ (Has(queue'[v], c) /\ Has(stolen'[t], c))
      /\ ~Has(queue'[v], running'[t])
      /\ ~Has(stolen'[t], running'[t])
      /\ pc' = [pc EXCEPT ![t] = pc'[t]]
      /\ pc'[t] \in {"attach", "push_many"}
  BY <1>0, <1>1, <1>2, <1>3, StealMoves
<1>5. \A u \in Thread \ {t} : pc'[u] = pc[u] BY <1>1, <1>4
<1>6. \A c : ~Has(stolen[t], c) BY <1>2 DEF Has
\* Where a place of the new state comes from.
<1>7. ASSUME NEW k \in Kind, NEW u \in Thread, NEW c \in Context, Owns(k, u, c)'
      PROVE  \/ /\ Owns(k, u, c)
                /\ k = "queued" /\ u = v => Has(queue'[v], c)
                /\ ~ (k = "run" /\ u = t) /\ ~ (k = "carried" /\ u = t)
             \/ /\ Owns("queued", v, c)
                /\ \/ k = "run" /\ u = t /\ c = running'[t]
                   \/ k = "carried" /\ u = t /\ Has(stolen'[t], c)
  <2>1. CASE k = "queued" BY <1>1, <1>4, <1>7, <2>1 DEF Owns
  <2>2. CASE k = "carried" BY <1>1, <1>4, <1>7, <2>2 DEF Owns
  <2>3. CASE k = "run" BY <1>1, <1>2, <1>4, <1>5, <1>7, <2>3 DEF Owns
  <2>4. CASE k = "pushed" BY <1>1, <1>2, <1>4, <1>5, <1>7, <2>4 DEF Owns
  <2>. QED BY <2>1, <2>2, <2>3, <2>4 DEF Kind
<1>8. "queued" \in Kind /\ v \in Thread BY <1>1 DEF Kind
<1>9. OneOwner'
  <2>. SUFFICES ASSUME NEW c \in Context, NEW k \in Kind, NEW l \in Kind,
                       NEW u \in Thread, NEW w \in Thread,
                       Owns(k, u, c)', Owns(l, w, c)'
                PROVE  k = l /\ u = w
    BY DEF OneOwner
  <2>1. CASE Owns("queued", v, c)
    <3>1. Owns(k, u, c) => k = "queued" /\ u = v
      BY <1>8, <2>1 DEF OwnedOnce, OneOwner
    <3>2. Owns(l, w, c) => l = "queued" /\ w = v
      BY <1>8, <2>1 DEF OwnedOnce, OneOwner
    <3>3. \/ k = "queued" /\ u = v /\ Has(queue'[v], c)
          \/ k = "run" /\ u = t /\ c = running'[t]
          \/ k = "carried" /\ u = t /\ Has(stolen'[t], c)
      BY <1>7, <3>1
    <3>4. \/ l = "queued" /\ w = v /\ Has(queue'[v], c)
          \/ l = "run" /\ w = t /\ c = running'[t]
          \/ l = "carried" /\ w = t /\ Has(stolen'[t], c)
      BY <1>7, <3>2
    <3>. QED BY <1>4, <3>3, <3>4
  <2>2. CASE ~Owns("queued", v, c)
    <3>1. Owns(k, u, c) /\ Owns(l, w, c) BY <1>7, <2>2
    <3>. QED BY <3>1 DEF OwnedOnce, OneOwner
  <2>. QED BY <2>1, <2>2
<1>10. ASSUME NEW c \in Context PROVE HasOwner(c)' <=> HasOwner(c)
  <2>1. HasOwner(c)' => HasOwner(c) BY <1>7, <1>8 DEF HasOwner
  <2>2. ASSUME NEW k \in Kind, NEW u \in Thread, Owns(k, u, c) PROVE HasOwner(c)'
    <3>1. "run" \in Kind /\ "carried" \in Kind BY DEF Kind
    <3>2. CASE k = "queued" /\ u = v
      <4>1. \/ Has(queue'[v], c)
            \/ Has(stolen'[t], c)
            \/ c = running'[t]
        BY <1>4, <2>2, <3>2 DEF Owns
      <4>2. \/ Owns("queued", v, c)'
            \/ Owns("carried", t, c)'
            \/ Owns("run", t, c)'
        BY <1>1, <1>4, <4>1 DEF Owns
      <4>. QED BY <1>1, <1>8, <3>1, <4>2 DEF HasOwner
    <3>3. CASE ~ (k = "queued" /\ u = v)
      <4>1. Owns(k, u, c)'
        BY <1>1, <1>2, <1>4, <1>5, <1>6, <2>2, <3>3 DEF Owns
      <4>. QED BY <4>1 DEF HasOwner
    <3>. QED BY <3>2, <3>3
  <2>. QED BY <2>1, <2>2 DEF HasOwner
<1>11. QueuesDistinct'
  BY <1>1, <1>4 DEF OwnedOnce, QueuesDistinct
<1>. QED BY <1>9, <1>10, <1>11 DEF OwnedOnce

\* push_many moves what the worker carries to its queue.
LEMMA PushManyOwners ==
    ASSUME TypeInv, Places, OwnedOnce, NEW t \in Worker, push_many(t)
    PROVE  OwnedOnce' /\ \A c \in Context : HasOwner(c)' <=> HasOwner(c)
<1>1. /\ pc \in [Thread -> Label]
      /\ Worker \subseteq Thread /\ t \in Thread
  BY Types
<1>2. /\ pc[t] = "push_many" /\ UNCHANGED <<created, dest, running>>
      /\ pc'[t] = "attach"
      /\ \A u \in Thread \ {t} : pc'[u] = pc[u]
  BY <1>1 DEF push_many, sendVars, Goto
<1>3. \A c \in Context : ~ (Has(queue[t], c) /\ Has(stolen[t], c))
  <2>1. "queued" \in Kind /\ "carried" \in Kind BY DEF Kind
  <2>2. ASSUME NEW c \in Context, Has(queue[t], c), Has(stolen[t], c) PROVE FALSE
    <3>1. Owns("queued", t, c) /\ Owns("carried", t, c) BY <2>2 DEF Owns
    <3>. QED BY <1>1, <2>1, <3>1 DEF OwnedOnce, OneOwner
  <2>. QED BY <2>2
<1>4. Distinct(queue[t]) /\ Distinct(stolen[t]) BY DEF OwnedOnce, QueuesDistinct
<1>5. /\ stolen'[t] = << >>
      /\ \A w \in Worker \ {t} :
             stolen'[w] = stolen[w] /\ queue'[w] = queue[w]
      /\ \A c : Has(queue'[t], c) <=> Has(queue[t], c) \/ Has(stolen[t], c)
      /\ Distinct(queue'[t])
  BY <1>3, <1>4, PushManyMoves
<1>6. \A c : ~Has(stolen'[t], c) BY <1>5 DEF Has
<1>7. ASSUME NEW k \in Kind, NEW u \in Thread, NEW c \in Context, Owns(k, u, c)'
      PROVE  /\ ~ (k = "carried" /\ u = t)
             /\ Owns(k, u, c) \/ (k = "queued" /\ u = t /\ Owns("carried", t, c))
  <2>1. CASE k = "queued" BY <1>5, <1>7, <2>1 DEF Owns
  <2>2. CASE k = "carried" BY <1>5, <1>6, <1>7, <2>2 DEF Owns
  <2>3. CASE k = "run" BY <1>1, <1>2, <1>7, <2>3 DEF Owns
  <2>4. CASE k = "pushed" BY <1>1, <1>2, <1>7, <2>4 DEF Owns
  <2>. QED BY <2>1, <2>2, <2>3, <2>4 DEF Kind
<1>8. "queued" \in Kind /\ "carried" \in Kind BY DEF Kind
<1>9. OneOwner'
  <2>. SUFFICES ASSUME NEW c \in Context, NEW k \in Kind, NEW l \in Kind,
                       NEW u \in Thread, NEW w \in Thread,
                       Owns(k, u, c)', Owns(l, w, c)'
                PROVE  k = l /\ u = w
    BY DEF OneOwner
  <2>1. CASE Owns("carried", t, c)
    <3>1. Owns(k, u, c) => k = "carried" /\ u = t
      BY <1>1, <1>8, <2>1 DEF OwnedOnce, OneOwner
    <3>2. Owns(l, w, c) => l = "carried" /\ w = t
      BY <1>1, <1>8, <2>1 DEF OwnedOnce, OneOwner
    <3>3. k = "queued" /\ u = t BY <1>7, <3>1
    <3>4. l = "queued" /\ w = t BY <1>7, <3>2
    <3>. QED BY <3>3, <3>4
  <2>2. CASE ~Owns("carried", t, c)
    <3>1. Owns(k, u, c) /\ Owns(l, w, c) BY <1>7, <2>2
    <3>. QED BY <3>1 DEF OwnedOnce, OneOwner
  <2>. QED BY <2>1, <2>2
<1>10. ASSUME NEW c \in Context PROVE HasOwner(c)' <=> HasOwner(c)
  <2>1. HasOwner(c)' => HasOwner(c) BY <1>1, <1>7, <1>8 DEF HasOwner
  <2>2. ASSUME NEW k \in Kind, NEW u \in Thread, Owns(k, u, c)
        PROVE  Owns(k, u, c)' \/ Owns("queued", t, c)'
    <3>1. CASE k = "queued" BY <1>5, <2>2, <3>1 DEF Owns
    <3>2. CASE k = "carried" BY <1>5, <2>2, <3>2 DEF Owns
    <3>3. CASE k = "run" BY <1>1, <1>2, <2>2, <3>3 DEF Owns
    <3>4. CASE k = "pushed" BY <1>1, <1>2, <2>2, <3>4 DEF Owns
    <3>. QED BY <3>1, <3>2, <3>3, <3>4 DEF Kind
  <2>. QED BY <1>1, <1>8, <2>1, <2>2 DEF HasOwner
<1>11. QueuesDistinct'
  <2>1. Distinct(<< >>) BY DEF Distinct
  <2>. QED BY <1>5, <2>1 DEF OwnedOnce, QueuesDistinct
<1>. QED BY <1>9, <1>10, <1>11 DEF OwnedOnce

\* push_message takes up a context that nobody processes.
LEMMA PushMessageOwners ==
    ASSUME TypeInv, Places, OwnedOnce, NEW t \in Thread, push_message(t),
           ~HasOwner(dest[t]), ~m_processing[dest[t]]
    PROVE  /\ OwnedOnce'
           /\ \A c \in Context : HasOwner(c)' <=> HasOwner(c) \/ c = dest[t]
<1>1. /\ pc \in [Thread -> Label]
      /\ dest[t] \in Context
      /\ pc[t] = "push_message"
      /\ pc' = [pc EXCEPT ![t] = "push_context"]
      /\ UNCHANGED <<queue, stolen, running, created, dest>>
  BY Types DEF push_message, Goto, sendVars, runVars, mgrVars, Locals
<1>2. PICK x \in Context : x = dest[t] BY <1>1
<1>3. Found(x, "pushed", t)
  <2>. SUFFICES ASSUME NEW k \in Kind, NEW u \in Thread, NEW c \in Context
                PROVE  Owns(k, u, c)' <=>
                           Owns(k, u, c) \/ (c = x /\ k = "pushed" /\ u = t)
    BY DEF Found
  <2>1. Worker \subseteq Thread BY Types
  <2>. QED BY <1>1, <1>2, <2>1 DEF Owns
<1>4. "pushed" \in Kind BY DEF Kind
<1>5. OneOwner' /\ \A c \in Context : HasOwner(c)' <=> HasOwner(c) \/ c = x
  <2>1. OneOwner /\ ~HasOwner(x) BY <1>2 DEF OwnedOnce
  <2>. QED BY <1>3, <1>4, <2>1, NewKept
<1>6. QueuesDistinct' BY <1>1 DEF OwnedOnce, QueuesDistinct
<1>. QED BY <1>2, <1>5, <1>6 DEF OwnedOnce

\* Nobody has a context that is not created.
LEMMA FreshUnowned ==
    ASSUME NEW c \in Context, Fresh(c)
    PROVE  ~HasOwner(c)
<1>. SUFFICES ASSUME NEW k \in Kind, NEW t \in Thread, Owns(k, t, c) PROVE FALSE
  BY DEF HasOwner
<1>. QED BY DEF Fresh, Owns, Kind

\* register_context gives a new context to the thread that creates it.
LEMMA RegisterOwners ==
    ASSUME TypeInv, Places, Birth, OwnedOnce, NEW t \in Thread,
           NEW x \in Context, Register(t, x), created[t] = NoContext,
           dest[t] = NoContext, t \in Worker => pc[t] = "handle"
    PROVE  /\ OwnedOnce'
           /\ \A c \in Context : HasOwner(c)' <=> HasOwner(c) \/ c = x
           /\ m_processing'[x]
<1>1. /\ pc \in [Thread -> Label]
      /\ created \in [Thread -> Context \cup {NoContext}]
      /\ m_processing \in [Context -> BOOLEAN]
      /\ NoContext \notin Context
      /\ Worker \subseteq Thread
  BY Types
<1>2. /\ m_alloc[x] = "none"
      /\ pc' = [pc EXCEPT ![t] = "init"]
      /\ created' = [created EXCEPT ![t] = x]
      /\ m_processing' = [m_processing EXCEPT ![x] = TRUE]
      /\ UNCHANGED <<queue, stolen, running, dest>>
  BY DEF Register, Goto, sendVars, runVars, mgrVars
<1>3. ~HasOwner(x) BY <1>2, FreshUnowned DEF Birth
<1>4. Found(x, "pushed", t)
  <2>. SUFFICES ASSUME NEW k \in Kind, NEW u \in Thread, NEW c \in Context
                PROVE  Owns(k, u, c)' <=>
                           Owns(k, u, c) \/ (c = x /\ k = "pushed" /\ u = t)
    BY DEF Found
  <2>. QED BY <1>1, <1>2 DEF Owns
<1>5. "pushed" \in Kind BY DEF Kind
<1>6. OneOwner' /\ \A c \in Context : HasOwner(c)' <=> HasOwner(c) \/ c = x
  <2>1. OneOwner BY DEF OwnedOnce
  <2>. QED BY <1>3, <1>4, <1>5, <2>1, NewKept
<1>7. QueuesDistinct' BY <1>2 DEF OwnedOnce, QueuesDistinct
<1>. QED BY <1>1, <1>2, <1>6, <1>7 DEF OwnedOnce

\* A context that is retired before it was queued is given up.
LEMMA RetireCreatedOwners ==
    ASSUME TypeInv, Places, OwnedOnce, NEW t \in Thread, retire_created(t)
    PROVE  /\ OwnedOnce'
           /\ \A c \in Context :
                  HasOwner(c)' <=> HasOwner(c) /\ c # created[t]
<1>1. /\ pc \in [Thread -> Label]
      /\ dest \in [Thread -> Context \cup {NoContext}]
      /\ created \in [Thread -> Context \cup {NoContext}]
      /\ created[t] \in Context /\ dest[t] = NoContext
      /\ NoContext \notin Context
      /\ Worker \subseteq Thread
  BY Types DEF retire_created, Locals, Places, Place, Sending
<1>2. /\ pc[t] = "retire_created"
      /\ pc' = [pc EXCEPT ![t] = "release_dest"]
      /\ created' = [created EXCEPT ![t] = NoContext]
      /\ dest' = [dest EXCEPT ![t] = created[t]]
      /\ UNCHANGED <<queue, stolen, running>>
  BY DEF retire_created, SendCreated, Goto, runVars, mgrVars
<1>3. PICK x \in Context : x = created[t] BY <1>1
<1>4. Lost(x, "pushed", t)
  <2>. SUFFICES ASSUME NEW k \in Kind, NEW u \in Thread, NEW c \in Context
                PROVE  Owns(k, u, c)' <=>
                           Owns(k, u, c) /\ ~ (c = x /\ k = "pushed" /\ u = t)
    BY DEF Lost
  <2>. QED BY <1>1, <1>2, <1>3 DEF Owns
<1>5. "pushed" \in Kind /\ Owns("pushed", t, x) BY <1>3 DEF Kind, Owns
<1>6. OneOwner' /\ \A c \in Context : HasOwner(c)' <=> HasOwner(c) /\ c # x
  <2>1. OneOwner BY DEF OwnedOnce
  <2>. QED BY <1>4, <1>5, <2>1, LostKept
<1>7. QueuesDistinct' BY <1>2 DEF OwnedOnce, QueuesDistinct
<1>. QED BY <1>3, <1>6, <1>7 DEF OwnedOnce

\* pop_message gives up a context that has no messages left.
LEMMA PopMessageOwners ==
    ASSUME TypeInv, Places, OwnedOnce, NEW t \in Worker, pop_message(t),
           m_message_queue[running[t]] = << >>
    PROVE  /\ OwnedOnce'
           /\ \A c \in Context :
                  HasOwner(c)' <=> HasOwner(c) /\ c # running[t]
<1>1. /\ pc \in [Thread -> Label]
      /\ running[t] \in Context
      /\ t \in Thread /\ Worker \subseteq Thread
  BY Types DEF pop_message, Locals, Idle
<1>2. /\ pc[t] = "pop_message"
      /\ pc' = [pc EXCEPT ![t] = "release_running"]
      /\ UNCHANGED <<queue, stolen, running, created, dest>>
  BY DEF pop_message, Goto, mgrVars, sendVars
<1>3. PICK x \in Context : x = running[t] BY <1>1
<1>4. Lost(x, "run", t)
  <2>. SUFFICES ASSUME NEW k \in Kind, NEW u \in Thread, NEW c \in Context
                PROVE  Owns(k, u, c)' <=>
                           Owns(k, u, c) /\ ~ (c = x /\ k = "run" /\ u = t)
    BY DEF Lost
  <2>. QED BY <1>1, <1>2, <1>3 DEF Owns
<1>5. "run" \in Kind /\ Owns("run", t, x) BY <1>2, <1>3 DEF Kind, Owns
<1>6. OneOwner' /\ \A c \in Context : HasOwner(c)' <=> HasOwner(c) /\ c # x
  <2>1. OneOwner BY DEF OwnedOnce
  <2>. QED BY <1>1, <1>4, <1>5, <2>1, LostKept
<1>7. QueuesDistinct' BY <1>2 DEF OwnedOnce, QueuesDistinct
<1>. QED BY <1>3, <1>6, <1>7 DEF OwnedOnce

\* The steps that move a context, with its ownership.
MoveStep(t) ==
    \/ push_one(t)
    \/ /\ t \in Worker
       /\ \/ push_many(t)
          \/ try_pop_one(t) /\ queue[t] # << >>
          \/ /\ steal_context(t)
             /\ scan[t] < m_worker_num /\ StealFrom(t, scan[t])

\* Such a step, or a quiet one, starts no processing, and ends none; messages
\* are accepted for nobody but a context that is processed.
LEMMA AcceptsKept ==
    ASSUME TypeInv, Places, NEW t \in Thread, QuietStep(t) \/ MoveStep(t),
           NEW c \in Context
    PROVE  /\ m_processing'[c] = m_processing[c]
           /\ Accepts(c)' => Accepts(c) \/ Owns("pushed", t, c)
           /\ m_message_queue'[c] # << >> =>
                  \/ m_message_queue[c] # << >>
                  \/ m_processing[c]
                  \/ Owns("pushed", t, c)
<1>1. /\ pc \in [Thread -> Label]
      /\ dest \in [Thread -> Context \cup {NoContext}]
      /\ created \in [Thread -> Context \cup {NoContext}]
      /\ running \in [Worker -> Context \cup {NoContext}]
      /\ m_inited \in [Context -> BOOLEAN]
      /\ m_processing \in [Context -> BOOLEAN]
      /\ m_message_queue \in [Context -> Seq(Message)]
      /\ Worker \subseteq Thread /\ Main \notin Worker /\ Net \notin Worker
      /\ NoContext \notin Context
      /\ Locals(t) /\ Place(t)
  BY Types DEF Places
<1>2. \A s : Append(<< >>, s) # << >> OBVIOUS
<1>3. CASE grab_context(t)
  BY <1>1, <1>3 DEF grab_context, Goto, Return, sendVars, Accepts, Owns,
     Locals, Idle
<1>4. CASE check_valid(t)
  BY <1>1, <1>4 DEF check_valid, EndSend, Goto, IsValid, Return, ctxVars,
     sendVars, Accepts, Owns, Locals, Idle
<1>5. CASE push_context(t)
  BY <1>1, <1>5 DEF push_context, Goto, sendVars, Accepts, Owns, Locals,
     Idle
<1>6. CASE sem_post(t)
  BY <1>1, <1>6 DEF sem_post, AfterPush, EndSend, Goto, Return, ctxVars,
     sendVars, Accepts, Owns, Locals, Idle
<1>7. CASE release_dest(t)
  BY <1>1, <1>7 DEF release_dest, Goto, Release, Return, Accepts, Owns,
     Locals, Idle
<1>8. CASE init(t)
  BY <1>1, <1>8 DEF init, CallLog, Goto, ctxVars, sendVars, Accepts, Owns,
     Locals, Idle
<1>9. CASE lua_ctx_init(t)
  BY <1>1, <1>9 DEF lua_ctx_init, Goto, sendVars, Accepts, Owns, Locals,
     Idle
<1>10. CASE set_inited(t)
  BY <1>1, <1>10 DEF set_inited, Goto, SendCreated, Accepts, Owns, Locals,
     Idle
<1>11. CASE check_load(t)
  BY <1>1, <1>11 DEF check_load, AfterCreate, Goto, ctxVars, sendVars,
     Accepts, Owns, Locals, Idle
<1>12. CASE start_worker(t)
  BY <1>1, <1>12 DEF start_worker, AfterCreate, Goto, ctxVars, sendVars,
     Accepts, Owns, Locals, Idle
<1>13. CASE check_alive(t)
  BY <1>1, <1>13 DEF check_alive, AfterAlive, CallSend, Goto, ctxVars,
     sendVars, Accepts, Owns, Locals, Idle
<1>14. CASE stop(t)
  BY <1>1, <1>14 DEF stop, AfterAlive, Goto, ctxVars, sendVars, Accepts,
     Owns, Locals, Idle
<1>15. CASE wakeup(t)
  BY <1>1, <1>15 DEF wakeup, AfterAlive, Goto, ctxVars, sendVars, Accepts,
     Owns, Locals, Idle
<1>16. CASE push_message(t) /\ m_processing[dest[t]]
  BY <1>1, <1>16 DEF push_message, EndSend, Goto, Return, sendVars, Accepts,
     Owns, Locals, Idle
<1>17. CASE t \in Worker /\ loop(t)
  BY <1>1, <1>17 DEF loop, Goto, ctxVars, sendVars, Accepts, Owns, Locals,
     Idle
<1>18. CASE t \in Worker /\ wait(t)
  BY <1>1, <1>18 DEF wait, Goto, ctxVars, sendVars, Accepts, Owns, Locals,
     Idle
<1>19. CASE t \in Worker /\ attach(t)
  BY <1>1, <1>19 DEF attach, Goto, sendVars, Accepts, Owns, Locals, Idle
<1>20. CASE t \in Worker /\ turn(t)
  BY <1>1, <1>20 DEF turn, Goto, IsValid, MayGoOn, sendVars, Accepts, Owns,
     Locals, Idle
<1>21. CASE t \in Worker /\ release_running(t)
  BY <1>1, <1>21 DEF release_running, Goto, Release, sendVars, Accepts,
     Owns, Locals, Idle
<1>22. CASE t \in Worker /\ handle(t)
  BY <1>1, <1>22 DEF handle, Goto, ctxVars, sendVars, Accepts, Owns, Locals,
     Idle
<1>23. CASE t \in Worker /\ drop(t)
  BY <1>1, <1>23 DEF drop, CallSend, Goto, ctxVars, sendVars, Accepts, Owns,
     Locals, Idle
<1>24. CASE t \in Worker /\ finish(t)
  BY <1>1, <1>24 DEF finish, Goto, ctxVars, sendVars, Accepts, Owns, Locals,
     Idle
<1>25. CASE t \in Worker /\ deinit(t)
  BY <1>1, <1>25 DEF deinit, CallLog, CallSend, Goto, ctxVars, sendVars,
     Accepts, Owns, Locals, Idle
<1>26. CASE t \in Worker /\ unset_inited(t)
  BY <1>1, <1>26 DEF unset_inited, Goto, sendVars, Accepts, Owns, Locals,
     Idle
<1>27. CASE t \in Worker /\ retire_context(t)
  BY <1>1, <1>27 DEF retire_context, Goto, Release, Retire, sendVars,
     Accepts, Owns, Locals, Idle
<1>28. CASE t \in Worker /\ repush_context(t)
  BY <1>1, <1>28 DEF repush_context, Goto, ctxVars, sendVars, Accepts, Owns,
     Locals, Idle
<1>29. CASE t \in Worker /\ shortest(t)
  BY <1>1, <1>29 DEF shortest, Goto, ctxVars, sendVars, Accepts, Owns,
     Locals, Idle
<1>30. CASE t \in Worker /\ try_pop_one(t) /\ queue[t] = << >>
  BY <1>1, <1>30 DEF try_pop_one, Goto, ctxVars, sendVars, Accepts, Owns,
     Locals, Idle
<1>31. CASE /\ t \in Worker /\ steal_context(t)
           /\ UNCHANGED <<queue, running, stolen>>
  BY <1>1, <1>31 DEF steal_context, Goto, StealFrom, ctxVars, sendVars,
     Accepts, Owns, Locals, Idle
<1>32. CASE /\ t \in Worker /\ pop_message(t)
           /\ m_message_queue[running[t]] # << >>
  BY <1>1, <1>32 DEF pop_message, Goto, IsValid, sendVars, Accepts, Owns,
     Locals, Idle
<1>33. CASE t \in Worker /\ lua_acts(t) /\ UNCHANGED created
  <2>1. UNCHANGED <<m_inited, m_processing, m_message_queue>>
    <3>1. ~ \E x \in Context : Register(t, x)
      BY <1>1, <1>33 DEF Register, lua_acts, Place, Creating, Sending
    <3>. QED BY <1>33, <3>1 DEF lua_acts, ctxVars
  <2>2. \A v \in Thread \ {t} : pc'[v] = pc[v] /\ dest'[v] = dest[v]
    BY <1>1, <1>33 DEF lua_acts, CallSend, CallLog, Register, Goto, sendVars
  <2>3. pc'[t] \in {"grab_context", "check_valid", "init"}
    BY <1>1, <1>33 DEF lua_acts, CallSend, CallLog, Register, Goto
  <2>. QED BY <1>1, <2>1, <2>2, <2>3 DEF Accepts
<1>34. CASE t = Main /\ grab_logger
  BY <1>1, <1>34 DEF grab_logger, Goto, sendVars, Accepts, Owns, Locals,
     Idle
<1>35. CASE t = Net /\ response
  BY <1>1, <1>35 DEF response, CallSend, Goto, ctxVars, Accepts, Owns,
     Locals, Idle
<1>36. CASE push_one(t)
  BY <1>1, <1>36 DEF push_one, AfterPush, EndSend, Goto, Return, ctxVars,
     sendVars, Accepts, Owns, Locals, Idle
<1>37. CASE t \in Worker /\ push_many(t)
  BY <1>1, <1>37 DEF push_many, Goto, ctxVars, sendVars, Accepts, Owns,
     Locals, Idle
<1>38. CASE t \in Worker /\ try_pop_one(t) /\ queue[t] # << >>
  BY <1>1, <1>38 DEF try_pop_one, Goto, ctxVars, sendVars, Accepts, Owns,
     Locals, Idle
<1>39. CASE /\ t \in Worker /\ steal_context(t)
           /\ scan[t] < m_worker_num /\ StealFrom(t, scan[t])
  BY <1>1, <1>39 DEF steal_context, Goto, StealFrom, ctxVars, sendVars,
     Accepts, Owns, Locals, Idle
<1>. QED BY <1>3, <1>4, <1>5, <1>6, <1>7, <1>8, <1>9, <1>10, <1>11, <1>12,
   <1>13, <1>14, <1>15, <1>16, <1>17, <1>18, <1>19, <1>20, <1>21, <1>22,
   <1>23, <1>24, <1>25, <1>26, <1>27, <1>28, <1>29, <1>30, <1>31, <1>32,
   <1>33, <1>34, <1>35, <1>36, <1>37, <1>38, <1>39 DEF QuietStep, MoveStep

\* A quiet step leaves the queues alone.
LEMMA QuietQueues ==
    ASSUME NEW t \in Thread, QuietStep(t)
    PROVE  UNCHANGED <<queue, stolen>>
<1>. USE DEF mgrVars, runVars
<1>1. CASE grab_context(t)
  BY <1>1 DEF grab_context, Goto, Return, mgrVars, runVars
<1>2. CASE check_valid(t)
  BY <1>2 DEF check_valid, EndSend, Goto, IsValid, Return, mgrVars, runVars
<1>3. CASE push_context(t)
  BY <1>3 DEF push_context, Goto, runVars
<1>4. CASE sem_post(t)
  BY <1>4 DEF sem_post, AfterPush, EndSend, Goto, Return, runVars
<1>5. CASE release_dest(t)
  BY <1>5 DEF release_dest, Goto, Release, Return, mgrVars, runVars
<1>6. CASE init(t)
  BY <1>6 DEF init, CallLog, Goto, mgrVars, runVars
<1>7. CASE lua_ctx_init(t)
  BY <1>7 DEF lua_ctx_init, Goto, mgrVars, runVars
<1>8. CASE set_inited(t)
  BY <1>8 DEF set_inited, Goto, SendCreated, mgrVars, runVars
<1>9. CASE check_load(t)
  BY <1>9 DEF check_load, AfterCreate, Goto, mgrVars, runVars
<1>10. CASE start_worker(t)
  BY <1>10 DEF start_worker, AfterCreate, Goto, runVars
<1>11. CASE check_alive(t)
  BY <1>11 DEF check_alive, AfterAlive, CallSend, Goto, mgrVars, runVars
<1>12. CASE stop(t)
  BY <1>12 DEF stop, AfterAlive, Goto, runVars
<1>13. CASE wakeup(t)
  BY <1>13 DEF wakeup, AfterAlive, Goto, runVars
<1>14. CASE push_message(t) /\ m_processing[dest[t]]
  BY <1>14 DEF push_message, EndSend, Goto, Return, mgrVars, runVars
<1>15. CASE t \in Worker /\ loop(t)
  BY <1>15 DEF loop, Goto, mgrVars, runVars
<1>16. CASE t \in Worker /\ wait(t)
  BY <1>16 DEF wait, Goto, runVars
<1>17. CASE t \in Worker /\ attach(t)
  BY <1>17 DEF attach, Goto, mgrVars
<1>18. CASE t \in Worker /\ turn(t)
  BY <1>18 DEF turn, Goto, IsValid, MayGoOn, mgrVars, runVars
<1>19. CASE t \in Worker /\ release_running(t)
  BY <1>19 DEF release_running, Goto, Release, mgrVars
<1>20. CASE t \in Worker /\ handle(t)
  BY <1>20 DEF handle, Goto, mgrVars, runVars
<1>21. CASE t \in Worker /\ drop(t)
  BY <1>21 DEF drop, CallSend, Goto, mgrVars, runVars
<1>22. CASE t \in Worker /\ finish(t)
  BY <1>22 DEF finish, Goto, mgrVars
<1>23. CASE t \in Worker /\ deinit(t)
  BY <1>23 DEF deinit, CallLog, CallSend, Goto, mgrVars, runVars
<1>24. CASE t \in Worker /\ unset_inited(t)
  BY <1>24 DEF unset_inited, Goto, mgrVars, runVars
<1>25. CASE t \in Worker /\ retire_context(t)
  BY <1>25 DEF retire_context, Goto, Release, Retire, mgrVars, runVars
<1>26. CASE t \in Worker /\ repush_context(t)
  BY <1>26 DEF repush_context, Goto, mgrVars, runVars
<1>27. CASE t \in Worker /\ shortest(t)
  BY <1>27 DEF shortest, Goto, mgrVars, runVars
<1>28. CASE t \in Worker /\ try_pop_one(t) /\ queue[t] = << >>
  BY <1>28 DEF try_pop_one, Goto
<1>29. CASE /\ t \in Worker /\ steal_context(t)
           /\ UNCHANGED <<queue, running, stolen>>
  BY <1>29 DEF steal_context, Goto, StealFrom
<1>30. CASE /\ t \in Worker /\ pop_message(t)
           /\ m_message_queue[running[t]] # << >>
  BY <1>30 DEF pop_message, Goto, IsValid, mgrVars
<1>31. CASE t \in Worker /\ lua_acts(t) /\ UNCHANGED created
  BY <1>31 DEF lua_acts, CallLog, CallSend, Goto, Register, mgrVars, runVars
<1>32. CASE t = Main /\ grab_logger
  BY <1>32 DEF grab_logger, Goto, mgrVars, runVars
<1>33. CASE t = Net /\ response
  BY <1>33 DEF response, CallSend, Goto, mgrVars, runVars
<1>. QED BY <1>1, <1>2, <1>3, <1>4, <1>5, <1>6, <1>7, <1>8, <1>9, <1>10,
   <1>11, <1>12, <1>13, <1>14, <1>15, <1>16, <1>17, <1>18, <1>19, <1>20,
   <1>21, <1>22, <1>23, <1>24, <1>25, <1>26, <1>27, <1>28, <1>29, <1>30,
   <1>31, <1>32, <1>33 DEF QuietStep

\* The step in which thread t registers context c.
Registers(t, c) ==
    /\ Register(t, c)
    /\ created[t] = NoContext /\ dest[t] = NoContext
    /\ IF t \in Worker
       THEN /\ pc[t] = "handle" /\ running[t] # Logger
            /\ message[t] # "destroy" /\ c \notin {Logger, Root}
       ELSE /\ t = Main
            /\ \/ pc[Main] = "boot_logger" /\ c = Logger
               \/ pc[Main] = "boot_root" /\ c = Root

\* What a step can do to the owners.
LEMMA OwnerSteps ==
    ASSUME TypeInv, Places, Next
    PROVE  \E t \in Thread :
               \/ QuietStep(t)
               \/ MoveStep(t)
               \/ push_message(t) /\ ~m_processing[dest[t]]
               \/ retire_created(t)
               \/ \E c \in Context : Registers(t, c)
               \/ /\ t \in Worker /\ pop_message(t)
                  /\ m_message_queue[running[t]] = << >>
<1>. DEFINE Goal == \E t \in Thread :
               \/ QuietStep(t)
               \/ MoveStep(t)
               \/ push_message(t) /\ ~m_processing[dest[t]]
               \/ retire_created(t)
               \/ \E c \in Context : Registers(t, c)
               \/ /\ t \in Worker /\ pop_message(t)
                  /\ m_message_queue[running[t]] = << >>
<1>1. /\ Worker \subseteq Thread /\ Main \in Thread /\ Net \in Thread
      /\ Main \notin Worker /\ NoContext \notin Context
      /\ Logger \in Context /\ Root \in Context /\ Root # Logger
      /\ \A t \in Thread : Locals(t) /\ Place(t)
      /\ dest \in [Thread -> Context \cup {NoContext}]
      /\ created \in [Thread -> Context \cup {NoContext}]
  BY Types DEF Places
<1>2. ASSUME NEW t \in Thread, Send(t) PROVE Goal
  BY <1>2 DEF Send, QuietStep, MoveStep
<1>3. ASSUME NEW t \in Thread, Create(t) PROVE Goal
  BY <1>3 DEF Create, QuietStep
<1>4. ASSUME NEW t \in Thread, Stop(t) PROVE Goal
  BY <1>4 DEF Stop, QuietStep
<1>5. ASSUME NEW t \in Worker, WorkerProcess(t) PROVE Goal
  <2>1. CASE try_pop_one(t) BY <1>1, <2>1 DEF QuietStep, MoveStep
  <2>2. CASE steal_context(t)
    <3>1. \/ scan[t] < m_worker_num /\ StealFrom(t, scan[t])
          \/ UNCHANGED <<queue, running, stolen>>
      BY <2>2 DEF steal_context
    <3>. QED BY <1>1, <2>2, <3>1 DEF QuietStep, MoveStep
  <2>3. CASE pop_message(t) BY <1>1, <2>3 DEF QuietStep
  <2>4. CASE lua_acts(t)
    <3>1. \/ UNCHANGED created
          \/ \E c \in Context \ {Logger, Root} : Register(t, c)
      BY <2>4 DEF lua_acts
    <3>2. CASE UNCHANGED created BY <1>1, <2>4, <3>2 DEF QuietStep
    <3>3. ASSUME NEW c \in Context \ {Logger, Root}, Register(t, c) PROVE Goal
      <4>1. pc[t] = "handle" /\ running[t] # Logger /\ message[t] # "destroy"
        BY <2>4 DEF lua_acts
      <4>2. created[t] = NoContext /\ dest[t] = NoContext
        BY <1>1, <4>1 DEF Place, Sending, Creating
      <4>3. Registers(t, c) BY <3>3, <4>1, <4>2 DEF Registers
      <4>. QED BY <1>1, <4>3
    <3>. QED BY <3>1, <3>2, <3>3
  <2>5. CASE push_many(t) BY <1>1, <2>5 DEF MoveStep
  <2>6. CASE \/ loop(t) \/ wait(t) \/ attach(t) \/ turn(t)
             \/ release_running(t) \/ handle(t) \/ drop(t) \/ finish(t)
             \/ deinit(t) \/ unset_inited(t) \/ retire_context(t)
             \/ repush_context(t) \/ shortest(t)
    BY <1>1, <2>6 DEF QuietStep
  <2>. QED BY <1>5, <2>1, <2>2, <2>3, <2>4, <2>5, <2>6 DEF WorkerProcess
<1>6. ASSUME Boot PROVE Goal
  <2>1. CASE grab_logger BY <1>1, <2>1 DEF QuietStep
  <2>2. CASE boot_logger
    <3>1. Registers(Main, Logger)
      BY <1>1, <2>2 DEF boot_logger, Registers, Place, Sending, Creating
    <3>. QED BY <1>1, <3>1
  <2>3. CASE boot_root
    <3>1. Registers(Main, Root)
      BY <1>1, <2>3 DEF boot_root, Registers, Place, Sending, Creating
    <3>. QED BY <1>1, <3>1
  <2>. QED BY <1>6, <2>1, <2>2, <2>3 DEF Boot
<1>7. ASSUME response PROVE Goal BY <1>1, <1>7 DEF QuietStep
<1>8. Goal BY <1>2, <1>3, <1>4, <1>5, <1>6, <1>7 DEF Next, Step
<1>. QED BY <1>8

\* A step that keeps the ownership as it is.
LEMMA KeptOwners ==
    ASSUME TypeInv, Places, OwnedOnce, NEW t \in Thread,
           QuietStep(t) \/ MoveStep(t)
    PROVE  OwnedOnce' /\ \A c \in Context : HasOwner(c)' <=> HasOwner(c)
<1>1. CASE QuietStep(t)
  <2>1. SameOwners BY <1>1, QuietOwners
  <2>2. OneOwner' /\ \A c \in Context : HasOwner(c)' <=> HasOwner(c)
    BY <2>1, SameOwnersKept DEF OwnedOnce
  <2>3. QueuesDistinct'
    BY <1>1, QuietQueues DEF OwnedOnce, QueuesDistinct
  <2>. QED BY <2>2, <2>3 DEF OwnedOnce
<1>2. CASE MoveStep(t)
  BY <1>2, PushOneOwners, TryPopOwners, StealOwners, PushManyOwners DEF MoveStep
<1>. QED BY <1>1, <1>2

\* A context that is processed has an owner as long as it takes messages, and
\* one that has an owner is marked as processed.
LEMMA ProcessingNext ==
    ASSUME TypeInv, Places, Birth, OwnedOnce, Processing, Unborn, Next
    PROVE  OwnedOnce' /\ Processing'
<1>1. /\ m_processing \in [Context -> BOOLEAN]
      /\ m_inited \in [Context -> BOOLEAN]
      /\ m_message_queue \in [Context -> Seq(Message)]
      /\ pc \in [Thread -> Label]
      /\ dest \in [Thread -> Context \cup {NoContext}]
      /\ NoContext \notin Context
      /\ Worker \subseteq Thread
      /\ \A t \in Thread : Locals(t)
  BY Types
<1>2. ASSUME NEW t \in Thread, QuietStep(t) \/ MoveStep(t)
      PROVE  OwnedOnce' /\ Processing'
  <2>1. OwnedOnce' /\ \A c \in Context : HasOwner(c)' <=> HasOwner(c)
    BY <1>2, KeptOwners
  <2>2. ASSUME NEW c \in Context
        PROVE  /\ HasOwner(c)' => m_processing'[c]
               /\ m_processing'[c] /\ Accepts(c)' => HasOwner(c)'
               /\ m_message_queue'[c] # << >> => m_processing'[c]
    <3>1. /\ m_processing'[c] = m_processing[c]
          /\ Accepts(c)' => Accepts(c) \/ Owns("pushed", t, c)
          /\ m_message_queue'[c] # << >> =>
                 \/ m_message_queue[c] # << >>
                 \/ m_processing[c]
                 \/ Owns("pushed", t, c)
      BY <1>2, AcceptsKept
    <3>2. Owns("pushed", t, c) => HasOwner(c) BY DEF HasOwner, Kind
    <3>. QED BY <2>1, <3>1, <3>2 DEF Processing
  <2>. QED BY <2>1, <2>2 DEF Processing
<1>3. ASSUME NEW t \in Thread, push_message(t), ~m_processing[dest[t]]
      PROVE  OwnedOnce' /\ Processing'
  <2>1. dest[t] \in Context /\ pc[t] = "push_message"
    BY <1>1, <1>3 DEF push_message, Locals
  <2>2. ~HasOwner(dest[t]) BY <1>3, <2>1 DEF Processing
  <2>3. /\ OwnedOnce'
        /\ \A c \in Context : HasOwner(c)' <=> HasOwner(c) \/ c = dest[t]
    BY <1>3, <2>2, PushMessageOwners
  <2>4. ASSUME NEW c \in Context
        PROVE  /\ m_processing'[c] <=> m_processing[c] \/ c = dest[t]
               /\ c # dest[t] => m_message_queue'[c] = m_message_queue[c]
               /\ c # dest[t] /\ Accepts(c)' => Accepts(c)
    BY <1>1, <1>3, <2>1 DEF push_message, Goto, sendVars, Accepts
  <2>. QED BY <2>3, <2>4 DEF Processing
<1>4. ASSUME NEW t \in Thread, NEW x \in Context, Registers(t, x)
      PROVE  OwnedOnce' /\ Processing'
  <2>1. /\ OwnedOnce'
        /\ \A c \in Context : HasOwner(c)' <=> HasOwner(c) \/ c = x
    BY <1>4, RegisterOwners DEF Registers
  <2>2. ASSUME NEW c \in Context
        PROVE  /\ m_processing'[c] <=> m_processing[c] \/ c = x
               /\ m_message_queue'[c] = m_message_queue[c]
               /\ Accepts(c)' => Accepts(c)
    BY <1>1, <1>4 DEF Registers, Register, Goto, sendVars, Accepts
  <2>. QED BY <2>1, <2>2 DEF Processing
<1>5. ASSUME NEW t \in Thread, retire_created(t)
      PROVE  OwnedOnce' /\ Processing'
  <2>1. /\ created[t] \in Context /\ pc[t] = "retire_created"
        /\ created[t] # NoContext
    BY <1>1, <1>5 DEF retire_created, Locals
  <2>2. /\ OwnedOnce'
        /\ \A c \in Context : HasOwner(c)' <=> HasOwner(c) /\ c # created[t]
    BY <1>5, RetireCreatedOwners
  <2>3. ~Accepts(created[t]) /\ m_message_queue[created[t]] = << >>
    BY <1>1, <2>1 DEF Unborn, Untold, Accepts
  <2>4. ASSUME NEW c \in Context
        PROVE  /\ m_processing'[c] = m_processing[c]
               /\ m_message_queue'[c] = m_message_queue[c]
               /\ Accepts(c)' => Accepts(c)
    BY <1>1, <1>5, <2>1 DEF retire_created, Goto, SendCreated, Accepts
  <2>. QED BY <2>1, <2>2, <2>3, <2>4 DEF Processing
<1>6. ASSUME NEW t \in Worker, pop_message(t),
             m_message_queue[running[t]] = << >>
      PROVE  OwnedOnce' /\ Processing'
  <2>1. /\ running[t] \in Context /\ pc[t] = "pop_message"
    BY <1>1, <1>6 DEF pop_message, Locals, Idle
  <2>2. /\ OwnedOnce'
        /\ \A c \in Context : HasOwner(c)' <=> HasOwner(c) /\ c # running[t]
    BY <1>6, PopMessageOwners
  <2>3. ASSUME NEW c \in Context
        PROVE  /\ m_processing'[c] <=> m_processing[c] /\ c # running[t]
               /\ m_message_queue'[c] = m_message_queue[c]
               /\ Accepts(c)' => Accepts(c)
    BY <1>1, <1>6, <2>1 DEF pop_message, Goto, sendVars, Accepts
  <2>. QED BY <1>6, <2>1, <2>2, <2>3 DEF Processing
<1>. QED BY <1>2, <1>3, <1>4, <1>5, <1>6, OwnerSteps

\* A step that begins no push and changes no context keeps it so.
LEMMA UntoldKept ==
    ASSUME NEW u \in Thread, Untold(u),
           UNCHANGED <<created, m_inited, m_message_queue>>,
           \A v \in Thread : pc'[v] = "push_message"
               => pc[v] = "push_message" /\ dest'[v] = dest[v],
           pc[u] = "set_inited" => pc'[u] = "set_inited"
    PROVE  Untold(u)'
BY DEF Untold

\* A context that is being created is told nothing before its first message.
LEMMA UnbornNext ==
    ASSUME TypeInv, Places, Birth, OneOwner, Unborn, Next
    PROVE  Unborn'
<1>. SUFFICES ASSUME NEW u \in Thread PROVE Untold(u)'
  BY DEF Unborn
<1>1. /\ pc \in [Thread -> Label]
      /\ dest \in [Thread -> Context \cup {NoContext}]
      /\ created \in [Thread -> Context \cup {NoContext}]
      /\ running \in [Worker -> Context \cup {NoContext}]
      /\ m_inited \in [Context -> BOOLEAN]
      /\ m_message_queue \in [Context -> Seq(Message)]
      /\ Worker \subseteq Thread /\ Main \in Thread /\ Net \in Thread
      /\ Logger \in Context /\ Root \in Context
      /\ NoContext \notin Context
      /\ \A t \in Thread : Locals(t) /\ Place(t) /\ Untold(t)
      /\ \A c \in Context : m_alloc[c] = "none" => Fresh(c)
  BY Types DEF Places, Unborn, Birth
<1>2. ASSUME NEW t \in Thread, created[t] # NoContext, created[t] = created[u]
      PROVE  t = u
  <2>1. created[t] \in Context /\ "pushed" \in Kind BY <1>1, <1>2 DEF Kind
  <2>2. Owns("pushed", t, created[t]) /\ Owns("pushed", u, created[t])
    BY <1>2 DEF Owns
  <2>. QED BY <2>1, <2>2 DEF OneOwner
<1>3. ASSUME NEW t \in Thread, grab_context(t) PROVE Untold(u)'
  BY <1>1, <1>2, <1>3 DEF grab_context, Goto, Return, sendVars, Untold,
     Locals, Place, Idle, Creating, Sending, Fresh
<1>4. ASSUME NEW t \in Thread, check_valid(t) PROVE Untold(u)'
  BY <1>1, <1>2, <1>4 DEF check_valid, EndSend, Goto, IsValid, Return,
     ctxVars, sendVars, Untold, Locals, Place, Idle, Creating, Sending,
     Fresh
<1>5. ASSUME NEW t \in Thread, push_message(t) PROVE Untold(u)'
  BY <1>1, <1>2, <1>5 DEF push_message, EndSend, Goto, Return, sendVars,
     Untold, Locals, Place, Idle, Creating, Sending, Fresh
<1>6. ASSUME NEW t \in Thread, push_context(t) PROVE Untold(u)'
  BY <1>1, <1>2, <1>6 DEF push_context, Goto, sendVars, Untold, Locals,
     Place, Idle, Creating, Sending, Fresh
<1>7. ASSUME NEW t \in Thread, push_one(t) PROVE Untold(u)'
  BY <1>1, <1>2, <1>7 DEF push_one, AfterPush, EndSend, Goto, Return,
     ctxVars, sendVars, Untold, Locals, Place, Idle, Creating, Sending,
     Fresh
<1>8. ASSUME NEW t \in Thread, sem_post(t) PROVE Untold(u)'
  <2>1. UNCHANGED <<created, m_inited, m_message_queue>>
    BY <1>8 DEF sem_post, ctxVars
  <2>2. \A v \in Thread : pc'[v] = "push_message"
            => pc[v] = "push_message" /\ dest'[v] = dest[v]
    BY <1>1, <1>8 DEF sem_post, AfterPush, EndSend, Goto, Return,
       sendVars, Locals, Resumes
  <2>3. pc[u] = "set_inited" => pc'[u] = "set_inited"
    BY <1>1, <1>8 DEF sem_post, AfterPush, EndSend, Goto, Return,
       sendVars, Locals, Resumes
  <2>. QED BY <1>1, <2>1, <2>2, <2>3, UntoldKept
<1>9. ASSUME NEW t \in Thread, release_dest(t) PROVE Untold(u)'
  BY <1>1, <1>2, <1>9 DEF release_dest, Goto, Release, Return, Untold,
     Locals, Place, Idle, Creating, Sending, Fresh
<1>10. ASSUME NEW t \in Thread, init(t) PROVE Untold(u)'
  <2>1. UNCHANGED <<created, m_inited, m_message_queue>>
    BY <1>10 DEF init, ctxVars
  <2>2. \A v \in Thread : pc'[v] = "push_message"
            => pc[v] = "push_message" /\ dest'[v] = dest[v]
    BY <1>1, <1>10 DEF init, CallLog, Goto, sendVars
  <2>3. pc[u] = "set_inited" => pc'[u] = "set_inited"
    BY <1>1, <1>10 DEF init, CallLog, Goto, sendVars
  <2>. QED BY <1>1, <2>1, <2>2, <2>3, UntoldKept
<1>11. ASSUME NEW t \in Thread, lua_ctx_init(t) PROVE Untold(u)'
  BY <1>1, <1>2, <1>11 DEF lua_ctx_init, Goto, sendVars, Untold, Locals,
     Place, Idle, Creating, Sending, Fresh
<1>12. ASSUME NEW t \in Thread, set_inited(t) PROVE Untold(u)'
  BY <1>1, <1>2, <1>12 DEF set_inited, Goto, SendCreated, Untold, Locals,
     Place, Idle, Creating, Sending, Fresh
<1>13. ASSUME NEW t \in Thread, retire_created(t) PROVE Untold(u)'
  BY <1>1, <1>2, <1>13 DEF retire_created, Goto, Release, Retire,
     SendCreated, Untold, Locals, Place, Idle, Creating, Sending, Fresh
<1>14. ASSUME NEW t \in Thread, check_load(t) PROVE Untold(u)'
  BY <1>1, <1>2, <1>14 DEF check_load, AfterCreate, Goto, ctxVars, sendVars,
     Untold, Locals, Place, Idle, Creating, Sending, Fresh
<1>15. ASSUME NEW t \in Thread, start_worker(t) PROVE Untold(u)'
  <2>0. \A v \in Thread :
            \/ pc'[v] = pc[v]
            \/ /\ v = t
               /\ pc[v] = "start_worker" /\ pc'[v] # "push_message"
            \/ pc[v] = "unborn" /\ pc'[v] = "loop"
    BY <1>15, StartWorkerMoves DEF start_worker, AfterCreate
  <2>1. UNCHANGED <<created, m_inited, m_message_queue>>
    BY <1>15 DEF start_worker, ctxVars
  <2>2. \A v \in Thread : pc'[v] = "push_message"
            => pc[v] = "push_message" /\ dest'[v] = dest[v]
    BY <1>1, <1>15, <2>0 DEF start_worker, sendVars
  <2>3. pc[u] = "set_inited" => pc'[u] = "set_inited"
    BY <1>1, <1>15, <2>0 DEF start_worker, sendVars
  <2>. QED BY <1>1, <2>1, <2>2, <2>3, UntoldKept
<1>16. ASSUME NEW t \in Thread, check_alive(t) PROVE Untold(u)'
  BY <1>1, <1>2, <1>16 DEF check_alive, AfterAlive, CallSend, Goto, ctxVars,
     sendVars, Untold, Locals, Place, Idle, Creating, Sending, Fresh
<1>17. ASSUME NEW t \in Thread, stop(t) PROVE Untold(u)'
  BY <1>1, <1>2, <1>17 DEF stop, AfterAlive, Goto, ctxVars, sendVars,
     Untold, Locals, Place, Idle, Creating, Sending, Fresh
<1>18. ASSUME NEW t \in Thread, wakeup(t) PROVE Untold(u)'
  BY <1>1, <1>2, <1>18 DEF wakeup, AfterAlive, Goto, ctxVars, sendVars,
     Untold, Locals, Place, Idle, Creating, Sending, Fresh
<1>19. ASSUME NEW t \in Worker, loop(t) PROVE Untold(u)'
  BY <1>1, <1>2, <1>19 DEF loop, Goto, ctxVars, sendVars, Untold, Locals,
     Place, Idle, Creating, Sending, Fresh
<1>20. ASSUME NEW t \in Worker, try_pop_one(t) PROVE Untold(u)'
  BY <1>1, <1>2, <1>20 DEF try_pop_one, Goto, ctxVars, sendVars, Untold,
     Locals, Place, Idle, Creating, Sending, Fresh
<1>21. ASSUME NEW t \in Worker, steal_context(t) PROVE Untold(u)'
  <2>1. UNCHANGED <<created, m_inited, m_message_queue>>
    BY <1>21 DEF steal_context, ctxVars
  <2>2. UNCHANGED dest /\ pc[t] = "steal_context" BY <1>21 DEF steal_context, sendVars
  <2>3. \A v \in Thread : v # t \/ pc'[v] = "push_message" => pc'[v] = pc[v]
    <3>1. StealFrom(t, scan[t]) => \/ pc' = [pc EXCEPT ![t] = "push_many"]
                                   \/ pc' = [pc EXCEPT ![t] = "attach"]
      BY DEF StealFrom, Goto
    <3>2. \/ StealFrom(t, scan[t])
          \/ UNCHANGED pc
          \/ pc' = [pc EXCEPT ![t] = "wait"]
      BY <1>21 DEF steal_context, Goto
    <3>3. pc \in [Thread -> Label] /\ t \in Thread BY <1>1
    <3>. QED BY <3>1, <3>2, <3>3
  <2>4. pc[u] = "set_inited" => pc'[u] = "set_inited" BY <2>2, <2>3
  <2>5. \A v \in Thread : pc'[v] = "push_message"
            => pc[v] = "push_message" /\ dest'[v] = dest[v]
    BY <2>2, <2>3
  <2>. QED BY <1>1, <2>1, <2>4, <2>5, UntoldKept
<1>22. ASSUME NEW t \in Worker, push_many(t) PROVE Untold(u)'
  BY <1>1, <1>2, <1>22 DEF push_many, Goto, ctxVars, sendVars, Untold,
     Locals, Place, Idle, Creating, Sending, Fresh
<1>23. ASSUME NEW t \in Worker, wait(t) PROVE Untold(u)'
  BY <1>1, <1>2, <1>23 DEF wait, Goto, ctxVars, sendVars, Untold, Locals,
     Place, Idle, Creating, Sending, Fresh
<1>24. ASSUME NEW t \in Worker, attach(t) PROVE Untold(u)'
  BY <1>1, <1>2, <1>24 DEF attach, Goto, sendVars, Untold, Locals, Place,
     Idle, Creating, Sending, Fresh
<1>25. ASSUME NEW t \in Worker, turn(t) PROVE Untold(u)'
  BY <1>1, <1>2, <1>25 DEF turn, Goto, IsValid, MayGoOn, sendVars, Untold,
     Locals, Place, Idle, Creating, Sending, Fresh
<1>26. ASSUME NEW t \in Worker, pop_message(t) PROVE Untold(u)'
  BY <1>1, <1>2, <1>26 DEF pop_message, Goto, IsValid, sendVars, Untold,
     Locals, Place, Idle, Creating, Sending, Fresh
<1>27. ASSUME NEW t \in Worker, release_running(t) PROVE Untold(u)'
  BY <1>1, <1>2, <1>27 DEF release_running, Goto, Release, sendVars, Untold,
     Locals, Place, Idle, Creating, Sending, Fresh
<1>28. ASSUME NEW t \in Worker, lua_acts(t) PROVE Untold(u)'
  <2>1. CASE \E c \in Context : Register(t, c)
    <3>1. PICK x \in Context : Register(t, x) BY <2>1
    <3>2. UNCHANGED <<dest, m_inited, m_message_queue>>
          /\ m_alloc[x] = "none"
          /\ created' = [created EXCEPT ![t] = x]
          /\ pc' = [pc EXCEPT ![t] = "init"]
      BY <3>1 DEF Register, sendVars, Goto
    <3>3. pc[t] = "handle" BY <1>28 DEF lua_acts
    <3>. QED BY <1>1, <3>2, <3>3 DEF Untold, Fresh
  <2>2. CASE UNCHANGED <<ctxVars, created>>
    <3>1. UNCHANGED <<created, m_inited, m_message_queue>> BY <2>2 DEF ctxVars
    <3>2. \A v \in Thread \ {t} : pc'[v] = pc[v] /\ dest'[v] = dest[v]
      BY <1>1, <1>28
      DEF lua_acts, CallSend, CallLog, Register, Goto, sendVars
    <3>3. /\ pc[t] = "handle"
          /\ pc'[t] \in {"grab_context", "check_valid", "init"}
      BY <1>1, <1>28 DEF lua_acts, CallSend, CallLog, Register, Goto
    <3>. QED BY <1>1, <3>1, <3>2, <3>3, UntoldKept
  <2>. QED BY <1>28, <2>1, <2>2 DEF lua_acts
<1>29. ASSUME NEW t \in Worker, handle(t) PROVE Untold(u)'
  BY <1>1, <1>2, <1>29 DEF handle, Goto, ctxVars, sendVars, Untold, Locals,
     Place, Idle, Creating, Sending, Fresh
<1>30. ASSUME NEW t \in Worker, drop(t) PROVE Untold(u)'
  BY <1>1, <1>2, <1>30 DEF drop, CallSend, Goto, ctxVars, sendVars, Untold,
     Locals, Place, Idle, Creating, Sending, Fresh
<1>31. ASSUME NEW t \in Worker, finish(t) PROVE Untold(u)'
  BY <1>1, <1>2, <1>31 DEF finish, Goto, ctxVars, sendVars, Untold, Locals,
     Place, Idle, Creating, Sending, Fresh
<1>32. ASSUME NEW t \in Worker, deinit(t) PROVE Untold(u)'
  BY <1>1, <1>2, <1>32 DEF deinit, CallLog, CallSend, Goto, ctxVars,
     sendVars, Untold, Locals, Place, Idle, Creating, Sending, Fresh
<1>33. ASSUME NEW t \in Worker, unset_inited(t) PROVE Untold(u)'
  BY <1>1, <1>2, <1>33 DEF unset_inited, Goto, sendVars, Untold, Locals,
     Place, Idle, Creating, Sending, Fresh
<1>34. ASSUME NEW t \in Worker, retire_context(t) PROVE Untold(u)'
  BY <1>1, <1>2, <1>34 DEF retire_context, Goto, Release, Retire, sendVars,
     Untold, Locals, Place, Idle, Creating, Sending, Fresh
<1>35. ASSUME NEW t \in Worker, repush_context(t) PROVE Untold(u)'
  BY <1>1, <1>2, <1>35 DEF repush_context, Goto, ctxVars, sendVars, Untold,
     Locals, Place, Idle, Creating, Sending, Fresh
<1>36. ASSUME NEW t \in Worker, shortest(t) PROVE Untold(u)'
  BY <1>1, <1>2, <1>36 DEF shortest, Goto, ctxVars, sendVars, Untold,
     Locals, Place, Idle, Creating, Sending, Fresh
<1>37. ASSUME boot_logger PROVE Untold(u)'
  BY <1>1, <1>2, <1>37 DEF boot_logger, Goto, Register, sendVars, Untold,
     Locals, Place, Idle, Creating, Sending, Fresh
<1>38. ASSUME grab_logger PROVE Untold(u)'
  BY <1>1, <1>2, <1>38 DEF grab_logger, Goto, sendVars, Untold, Locals,
     Place, Idle, Creating, Sending, Fresh
<1>39. ASSUME boot_root PROVE Untold(u)'
  BY <1>1, <1>2, <1>39 DEF boot_root, Goto, Register, sendVars, Untold,
     Locals, Place, Idle, Creating, Sending, Fresh
<1>40. ASSUME response PROVE Untold(u)'
  BY <1>1, <1>2, <1>40 DEF response, CallSend, Goto, ctxVars, Untold,
     Locals, Place, Idle, Creating, Sending, Fresh
<1>41. ASSUME NEW t \in Thread, Send(t) PROVE Untold(u)'
  BY <1>41, <1>3, <1>4, <1>5, <1>6, <1>7, <1>8, <1>9 DEF Send
<1>42. ASSUME NEW t \in Thread, Create(t) PROVE Untold(u)'
  BY <1>42, <1>10, <1>11, <1>12, <1>13, <1>14, <1>15 DEF Create
<1>43. ASSUME NEW t \in Thread, Stop(t) PROVE Untold(u)'
  BY <1>43, <1>16, <1>17, <1>18 DEF Stop
<1>44. ASSUME NEW t \in Worker, WorkerProcess(t) PROVE Untold(u)'
  BY <1>44, <1>19, <1>20, <1>21, <1>22, <1>23, <1>24, <1>25, <1>26, <1>27,
     <1>28, <1>29, <1>30, <1>31, <1>32, <1>33, <1>34, <1>35, <1>36 DEF
     WorkerProcess
<1>. QED
  BY <1>41, <1>42, <1>43, <1>44, <1>37, <1>38, <1>39, <1>40 DEF Next, Step,
     Boot


\* A context is attached to the worker that runs it, and to none while it is
\* between two workers.
LEMMA AttachedNext ==
    ASSUME TypeInv, Places, OneOwner, Attached, Next
    PROVE  Attached'
<1>1. /\ pc \in [Thread -> Label]
      /\ dest \in [Thread -> Context \cup {NoContext}]
      /\ created \in [Thread -> Context \cup {NoContext}]
      /\ running \in [Worker -> Context \cup {NoContext}]
      /\ m_worker \in [Context -> Worker \cup {NoWorker}]
      /\ Worker \subseteq Thread /\ Main \in Thread /\ Net \in Thread
      /\ Main \notin Worker /\ Net \notin Worker
      /\ NoContext \notin Context /\ NoWorker \notin Worker
      /\ \A t \in Thread : Locals(t) /\ Place(t)
      /\ Attached
  BY Types DEF Places
\* Two workers run two contexts; and what is queued is not run.
<1>2. ASSUME NEW v \in Worker, NEW w \in Worker, running[v] = running[w],
             running[v] # NoContext, pc[v] # "release_running",
             pc[w] # "release_running"
      PROVE  v = w
  <2>1. running[v] \in Context /\ "run" \in Kind BY <1>1, <1>2 DEF Kind
  <2>2. Owns("run", v, running[v]) /\ Owns("run", w, running[v])
    BY <1>2 DEF Owns
  <2>. QED BY <1>1, <2>1, <2>2 DEF OneOwner
<1>3. ASSUME NEW v \in Worker, NEW c \in Context,
             Owns("queued", v, c) \/ Owns("carried", v, c)
      PROVE  m_worker[c] = NoWorker
  <2>1. SUFFICES ASSUME m_worker[c] # NoWorker PROVE FALSE OBVIOUS
  <2>2. PICK w \in Worker : w = m_worker[c] BY <1>1, <2>1
  <2>3. Owns("run", w, c) BY <1>1, <2>1, <2>2 DEF Owns, Attached
  <2>4. {"run", "queued", "carried"} \subseteq Kind BY DEF Kind
  <2>. QED BY <1>1, <1>3, <2>3, <2>4 DEF OneOwner
<1>4. ASSUME NEW t \in Thread, grab_context(t) PROVE Attached'
  BY <1>1, <1>2, <1>4 DEF grab_context, Goto, Return, runVars, sendVars,
     Attached, Locals, Place, Idle, Creating, Sending, Resumes
<1>5. ASSUME NEW t \in Thread, check_valid(t) PROVE Attached'
  BY <1>1, <1>2, <1>5 DEF check_valid, EndSend, Goto, IsValid, Return,
     ctxVars, runVars, sendVars, Attached, Locals, Place, Idle, Creating,
     Sending, Resumes
<1>6. ASSUME NEW t \in Thread, push_message(t) PROVE Attached'
  BY <1>1, <1>2, <1>6 DEF push_message, EndSend, Goto, Return, runVars,
     sendVars, Attached, Locals, Place, Idle, Creating, Sending, Resumes
<1>7. ASSUME NEW t \in Thread, push_context(t) PROVE Attached'
  BY <1>1, <1>2, <1>7 DEF push_context, Goto, runVars, sendVars, Attached,
     Locals, Place, Idle, Creating, Sending, Resumes
<1>8. ASSUME NEW t \in Thread, push_one(t) PROVE Attached'
  BY <1>1, <1>2, <1>8 DEF push_one, AfterPush, EndSend, Goto, Return,
     ctxVars, sendVars, Attached, Locals, Place, Idle, Creating, Sending,
     Resumes
<1>9. ASSUME NEW t \in Thread, sem_post(t) PROVE Attached'
  BY <1>1, <1>2, <1>9 DEF sem_post, AfterPush, EndSend, Goto, Return,
     ctxVars, runVars, sendVars, Attached, Locals, Place, Idle, Creating,
     Sending, Resumes
<1>10. ASSUME NEW t \in Thread, release_dest(t) PROVE Attached'
  BY <1>1, <1>2, <1>10 DEF release_dest, Goto, Release, Return, runVars,
     Attached, Locals, Place, Idle, Creating, Sending, Resumes
<1>11. ASSUME NEW t \in Thread, init(t) PROVE Attached'
  BY <1>1, <1>2, <1>11 DEF init, CallLog, Goto, ctxVars, runVars, sendVars,
     Attached, Locals, Place, Idle, Creating, Sending, Resumes
<1>12. ASSUME NEW t \in Thread, lua_ctx_init(t) PROVE Attached'
  BY <1>1, <1>2, <1>12 DEF lua_ctx_init, Goto, runVars, sendVars, Attached,
     Locals, Place, Idle, Creating, Sending, Resumes
<1>13. ASSUME NEW t \in Thread, set_inited(t) PROVE Attached'
  BY <1>1, <1>2, <1>13 DEF set_inited, Goto, SendCreated, runVars, Attached,
     Locals, Place, Idle, Creating, Sending, Resumes
<1>14. ASSUME NEW t \in Thread, retire_created(t) PROVE Attached'
  BY <1>1, <1>2, <1>14 DEF retire_created, Goto, Release, Retire,
     SendCreated, runVars, Attached, Locals, Place, Idle, Creating, Sending,
     Resumes
<1>15. ASSUME NEW t \in Thread, check_load(t) PROVE Attached'
  BY <1>1, <1>2, <1>15 DEF check_load, AfterCreate, Goto, ctxVars, runVars,
     sendVars, Attached, Locals, Place, Idle, Creating, Sending, Resumes
<1>16. ASSUME NEW t \in Thread, start_worker(t) PROVE Attached'
  BY <1>1, <1>2, <1>16 DEF start_worker, AfterCreate, Goto, ctxVars,
     runVars, sendVars, Attached, Locals, Place, Idle, Creating, Sending,
     Resumes
<1>17. ASSUME NEW t \in Thread, check_alive(t) PROVE Attached'
  BY <1>1, <1>2, <1>17 DEF check_alive, AfterAlive, CallSend, Goto, ctxVars,
     runVars, sendVars, Attached, Locals, Place, Idle, Creating, Sending,
     Resumes
<1>18. ASSUME NEW t \in Thread, stop(t) PROVE Attached'
  BY <1>1, <1>2, <1>18 DEF stop, AfterAlive, Goto, ctxVars, runVars,
     sendVars, Attached, Locals, Place, Idle, Creating, Sending, Resumes
<1>19. ASSUME NEW t \in Thread, wakeup(t) PROVE Attached'
  BY <1>1, <1>2, <1>19 DEF wakeup, AfterAlive, Goto, ctxVars, runVars,
     sendVars, Attached, Locals, Place, Idle, Creating, Sending, Resumes
<1>20. ASSUME NEW t \in Worker, loop(t) PROVE Attached'
  BY <1>1, <1>2, <1>20 DEF loop, Goto, ctxVars, runVars, sendVars, Attached,
     Locals, Place, Idle, Creating, Sending, Resumes
<1>21. ASSUME NEW t \in Worker, try_pop_one(t) PROVE Attached'
  <2>1. /\ UNCHANGED <<m_worker, dest>>
        /\ pc[t] = "try_pop_one" /\ running[t] = NoContext
    BY <1>1, <1>21 DEF try_pop_one, ctxVars, sendVars, Place, Idle
  <2>2. CASE queue[t] = << >>
    BY <1>1, <1>21, <2>1, <2>2 DEF try_pop_one, Goto, Attached
  <2>3. CASE queue[t] # << >>
    <3>1. /\ running'[t] \in Context
          /\ Has(queue[t], running'[t])
          /\ \A w \in Worker \ {t} : running'[w] = running[w]
      BY <1>21, <2>3, TryPopMoves
    <3>2. m_worker[running'[t]] = NoWorker BY <1>3, <3>1 DEF Owns
    <3>3. \A u \in Thread \ {t} : pc'[u] = pc[u]
      BY <1>1, <1>21 DEF try_pop_one, Goto
    <3>. QED BY <1>1, <2>1, <3>1, <3>2, <3>3 DEF Attached
  <2>. QED BY <2>2, <2>3
<1>22. ASSUME NEW t \in Worker, steal_context(t) PROVE Attached'
  <2>1. /\ UNCHANGED <<m_worker, dest>>
        /\ pc[t] = "steal_context"
        /\ running[t] = NoContext /\ stolen[t] = << >>
    BY <1>1, <1>22 DEF steal_context, ctxVars, sendVars, Place, Idle
  <2>2. CASE UNCHANGED running
    <3>1. \/ UNCHANGED pc
          \/ pc' = [pc EXCEPT ![t] = "wait"]
      <4>1. ~ (scan[t] < m_worker_num /\ StealFrom(t, scan[t]))
        BY <1>1, <2>1, <2>2, ScanWorker, StealMoves
      <4>. QED BY <1>22, <4>1 DEF steal_context, Goto
    <3>. QED BY <1>1, <2>1, <2>2, <3>1 DEF Attached
  <2>3. CASE scan[t] < m_worker_num /\ StealFrom(t, scan[t])
    <3>1. PICK v \in Worker : v = scan[t] BY <2>3, ScanWorker
    <3>2. /\ running'[t] \in Context
          /\ Has(queue[v], running'[t])
          /\ \A w \in Worker \ {t} : running'[w] = running[w]
          /\ pc' = [pc EXCEPT ![t] = pc'[t]]
      BY <2>1, <2>3, <3>1, StealMoves
    <3>3. m_worker[running'[t]] = NoWorker BY <1>3, <3>1, <3>2 DEF Owns
    <3>4. \A u \in Thread \ {t} : pc'[u] = pc[u] BY <1>1, <3>2
    <3>. QED BY <1>1, <2>1, <3>2, <3>3, <3>4 DEF Attached
  <2>. QED BY <1>22, <2>2, <2>3 DEF steal_context
<1>23. ASSUME NEW t \in Worker, push_many(t) PROVE Attached'
  BY <1>1, <1>2, <1>23 DEF push_many, Goto, ctxVars, sendVars, Attached,
     Locals, Place, Idle, Creating, Sending, Resumes
<1>24. ASSUME NEW t \in Worker, wait(t) PROVE Attached'
  BY <1>1, <1>2, <1>24 DEF wait, Goto, ctxVars, runVars, sendVars, Attached,
     Locals, Place, Idle, Creating, Sending, Resumes
<1>25. ASSUME NEW t \in Worker, attach(t) PROVE Attached'
  BY <1>1, <1>2, <1>25 DEF attach, Goto, sendVars, Attached, Locals, Place,
     Idle, Creating, Sending, Resumes
<1>26. ASSUME NEW t \in Worker, turn(t) PROVE Attached'
  BY <1>1, <1>2, <1>26 DEF turn, Goto, IsValid, MayGoOn, runVars, sendVars,
     Attached, Locals, Place, Idle, Creating, Sending, Resumes
<1>27. ASSUME NEW t \in Worker, pop_message(t) PROVE Attached'
  BY <1>1, <1>2, <1>27 DEF pop_message, Goto, IsValid, sendVars, Attached,
     Locals, Place, Idle, Creating, Sending, Resumes
<1>28. ASSUME NEW t \in Worker, release_running(t) PROVE Attached'
  BY <1>1, <1>2, <1>28 DEF release_running, Goto, Release, sendVars,
     Attached, Locals, Place, Idle, Creating, Sending, Resumes
<1>29. ASSUME NEW t \in Worker, lua_acts(t) PROVE Attached'
  BY <1>1, <1>2, <1>29 DEF lua_acts, CallLog, CallSend, Goto, Register,
     ctxVars, runVars, sendVars, Attached, Locals, Place, Idle, Creating,
     Sending, Resumes
<1>30. ASSUME NEW t \in Worker, handle(t) PROVE Attached'
  BY <1>1, <1>2, <1>30 DEF handle, Goto, ctxVars, runVars, sendVars,
     Attached, Locals, Place, Idle, Creating, Sending, Resumes
<1>31. ASSUME NEW t \in Worker, drop(t) PROVE Attached'
  BY <1>1, <1>2, <1>31 DEF drop, CallSend, Goto, ctxVars, runVars, sendVars,
     Attached, Locals, Place, Idle, Creating, Sending, Resumes
<1>32. ASSUME NEW t \in Worker, finish(t) PROVE Attached'
  BY <1>1, <1>2, <1>32 DEF finish, Goto, ctxVars, sendVars, Attached,
     Locals, Place, Idle, Creating, Sending, Resumes
<1>33. ASSUME NEW t \in Worker, deinit(t) PROVE Attached'
  BY <1>1, <1>2, <1>33 DEF deinit, CallLog, CallSend, Goto, ctxVars,
     runVars, sendVars, Attached, Locals, Place, Idle, Creating, Sending,
     Resumes
<1>34. ASSUME NEW t \in Worker, unset_inited(t) PROVE Attached'
  BY <1>1, <1>2, <1>34 DEF unset_inited, Goto, runVars, sendVars, Attached,
     Locals, Place, Idle, Creating, Sending, Resumes
<1>35. ASSUME NEW t \in Worker, retire_context(t) PROVE Attached'
  BY <1>1, <1>2, <1>35 DEF retire_context, Goto, Release, Retire, runVars,
     sendVars, Attached, Locals, Place, Idle, Creating, Sending, Resumes
<1>36. ASSUME NEW t \in Worker, repush_context(t) PROVE Attached'
  BY <1>1, <1>2, <1>36 DEF repush_context, Goto, ctxVars, runVars, sendVars,
     Attached, Locals, Place, Idle, Creating, Sending, Resumes
<1>37. ASSUME NEW t \in Worker, shortest(t) PROVE Attached'
  BY <1>1, <1>2, <1>37 DEF shortest, Goto, ctxVars, runVars, sendVars,
     Attached, Locals, Place, Idle, Creating, Sending, Resumes
<1>38. ASSUME boot_logger PROVE Attached'
  BY <1>1, <1>2, <1>38 DEF boot_logger, Goto, Register, runVars, sendVars,
     Attached, Locals, Place, Idle, Creating, Sending, Resumes
<1>39. ASSUME grab_logger PROVE Attached'
  BY <1>1, <1>2, <1>39 DEF grab_logger, Goto, runVars, sendVars, Attached,
     Locals, Place, Idle, Creating, Sending, Resumes
<1>40. ASSUME boot_root PROVE Attached'
  BY <1>1, <1>2, <1>40 DEF boot_root, Goto, Register, runVars, sendVars,
     Attached, Locals, Place, Idle, Creating, Sending, Resumes
<1>41. ASSUME response PROVE Attached'
  BY <1>1, <1>2, <1>41 DEF response, CallSend, Goto, ctxVars, runVars,
     Attached, Locals, Place, Idle, Creating, Sending, Resumes
<1>42. ASSUME NEW t \in Thread, Send(t) PROVE Attached'
  BY <1>42, <1>4, <1>5, <1>6, <1>7, <1>8, <1>9, <1>10 DEF Send
<1>43. ASSUME NEW t \in Thread, Create(t) PROVE Attached'
  BY <1>43, <1>11, <1>12, <1>13, <1>14, <1>15, <1>16 DEF Create
<1>44. ASSUME NEW t \in Thread, Stop(t) PROVE Attached'
  BY <1>44, <1>17, <1>18, <1>19 DEF Stop
<1>45. ASSUME NEW t \in Worker, WorkerProcess(t) PROVE Attached'
  BY <1>45, <1>20, <1>21, <1>22, <1>23, <1>24, <1>25, <1>26, <1>27, <1>28,
     <1>29, <1>30, <1>31, <1>32, <1>33, <1>34, <1>35, <1>36, <1>37 DEF
     WorkerProcess
<1>. QED
  BY <1>42, <1>43, <1>44, <1>45, <1>38, <1>39, <1>40, <1>41 DEF Next, Step,
     Boot

\* The ownership of the initial states, in which nobody has anything.
LEMMA OwnershipInit ==
    ASSUME Init
    PROVE  Places /\ Birth /\ Ownership
<1>1. /\ Main \in Thread /\ Net \in Thread /\ Worker \subseteq Thread
      /\ Main \notin Worker /\ Net \notin Worker /\ Main # Net
      /\ NoContext \notin Context /\ NoWorker \notin Worker
      /\ Logger \in Context /\ Root \in Context /\ Root # Logger
  BY Constants, SchedulerAssumption
<1>2. \A t \in Thread : /\ dest[t] = NoContext /\ created[t] = NoContext
                        /\ pc[t] \in {"boot_logger", "idle", "loop", "unborn"}
                        /\ pc[t] = "boot_logger" <=> t = Main
  <2>. SUFFICES ASSUME NEW t \in Thread
                PROVE  /\ dest[t] = NoContext /\ created[t] = NoContext
                       /\ pc[t] \in {"boot_logger", "idle", "loop", "unborn"}
                       /\ pc[t] = "boot_logger" <=> t = Main
    OBVIOUS
  <2>1. dest[t] = NoContext /\ created[t] = NoContext BY DEF Init
  <2>2. pc[t] = CASE t = Main -> "boot_logger"
                  [] t = Net -> "idle"
                  [] t = 0 -> "loop"
                  [] OTHER -> "unborn"
    BY DEF Init
  <2>3. t = Main \/ t = Net \/ t \in Worker BY DEF Thread
  <2>4. CASE t = Main
    <3>1. t # 0 BY <1>1, <2>4, Workers
    <3>. QED BY <1>1, <2>1, <2>2, <2>4, <3>1
  <2>5. CASE t = Net
    <3>1. t # 0 BY <1>1, <2>5, Workers
    <3>. QED BY <1>1, <2>1, <2>2, <2>5, <3>1
  <2>6. CASE t \in Worker BY <1>1, <2>1, <2>2, <2>6
  <2>. QED BY <2>3, <2>4, <2>5, <2>6
<1>3. \A w \in Worker : /\ running[w] = NoContext
                        /\ queue[w] = << >> /\ stolen[w] = << >>
                        /\ pc[w] = IF w = 0 THEN "loop" ELSE "unborn"
  BY <1>1 DEF Init
<1>4. \A c \in Context :
          /\ m_alloc[c] = "none" /\ ~m_handle[c] /\ ~m_inited[c]
          /\ m_ref[c] = 0 /\ ~m_processing[c]
          /\ m_message_queue[c] = << >> /\ m_worker[c] = NoWorker
  BY DEF Init
<1>5. m_worker_num = 1 /\ ~m_exiting BY DEF Init
<1>6. \A c : ~Has(<< >>, c) BY DEF Has
<1>7. Distinct(<< >>) BY DEF Distinct
<1>8. Places
  <2>1. \A w \in Worker : w >= m_worker_num <=> pc[w] = "unborn"
    BY <1>3, <1>5, Workers
  <2>. QED BY <1>1, <1>2, <1>3, <2>1 DEF Places, Place, Sending, Creating, Idle
<1>9. Birth
  BY <1>1, <1>2, <1>3, <1>4, <1>5, <1>6
  DEF Birth, Start, Booting, BootLabels, Fresh
<1>10. \A k \in Kind, t \in Thread, c \in Context : ~Owns(k, t, c)
  BY <1>1, <1>2, <1>3, <1>6 DEF Owns
<1>11. OneOwner /\ QueuesDistinct
  BY <1>3, <1>7, <1>10 DEF OneOwner, QueuesDistinct
<1>12. Processing BY <1>4, <1>10, <1>2 DEF Processing, Accepts, HasOwner
<1>13. Unborn BY <1>2 DEF Unborn, Untold
<1>14. Attached BY <1>1, <1>2, <1>4 DEF Attached
<1>. QED BY <1>8, <1>9, <1>11, <1>12, <1>13, <1>14 DEF Ownership

\* The invariant behind the properties of Scheduler.
SafeInv == TypeInv /\ Places /\ Birth /\ Ownership

\* A step that changes nothing keeps it.
LEMMA SafeStutter ==
    ASSUME SafeInv, UNCHANGED vars
    PROVE  SafeInv'
<1>1. UNCHANGED <<m_alloc, m_handle, m_inited, m_ref, m_processing,
                  m_message_queue, m_worker, queue, m_worker_num, m_exiting,
                  pc, running, stolen, dest, type, back, created>>
  BY DEF vars, ctxVars, mgrVars, runVars, sendVars
<1>2. TypeInv' BY StutterTyped DEF SafeInv
<1>3. Places' BY <1>1 DEF SafeInv, Places, Place
<1>4. Birth' BY <1>1 DEF SafeInv, Birth, Start, Booting, Fresh, Has
<1>5. \A k, t, c : Owns(k, t, c)' <=> Owns(k, t, c)
  BY <1>1 DEF Owns, Has
<1>6. OneOwner' /\ QueuesDistinct'
  BY <1>1, <1>5 DEF SafeInv, Ownership, OneOwner, QueuesDistinct, Distinct
<1>7. Processing'
  <2>1. \A c \in Context : (Accepts(c)' <=> Accepts(c)) /\ (HasOwner(c)' <=> HasOwner(c))
    BY <1>1, <1>5 DEF Accepts, HasOwner
  <2>. QED BY <1>1, <2>1 DEF SafeInv, Ownership, Processing
<1>8. Unborn' BY <1>1 DEF SafeInv, Ownership, Unborn, Untold
<1>9. Attached' BY <1>1 DEF SafeInv, Ownership, Attached
<1>. QED BY <1>2, <1>3, <1>4, <1>6, <1>7, <1>8, <1>9 DEF SafeInv, Ownership

\* The invariant holds in every state.
LEMMA Safe == Spec => []SafeInv
<1>1. Init => SafeInv BY InitialTyped, OwnershipInit DEF SafeInv
<1>2. ASSUME SafeInv, Next PROVE SafeInv'
  <2>1. TypeInv' BY <1>2, NextTyped DEF SafeInv
  <2>2. Places' BY <1>2, <2>1, PlacesNext DEF SafeInv
  <2>3. Birth'
    <3>1. Start' BY <1>2, <2>1, StartNext DEF SafeInv
    <3>2. \A c \in Context : m_alloc'[c] = "none" => Fresh(c)'
      BY <1>2, <2>1, FreshNext DEF SafeInv
    <3>. QED BY <3>1, <3>2 DEF Birth
  <2>4. OwnedOnce' /\ Processing'
    BY <1>2, ProcessingNext DEF SafeInv, Ownership, OwnedOnce
  <2>5. Unborn' BY <1>2, UnbornNext DEF SafeInv, Ownership
  <2>6. Attached' BY <1>2, AttachedNext DEF SafeInv, Ownership
  <2>. QED BY <2>1, <2>2, <2>3, <2>4, <2>5, <2>6
          DEF SafeInv, Ownership, OwnedOnce
<1>. QED BY <1>1, <1>2, SafeStutter, PTL DEF Spec

-----------------------------------------------------------------------------
(* The properties.                                                          *)

\* A context has at most one place that will process it, whatever the senders,
\* the thieves and the worker that gives it up do in the meantime; that place
\* exists only while m_processing is set; and the worker it is attached to is
\* the one that runs it.
THEOREM OwnerUnique == Spec => []SingleOwner
<1>1. SafeInv => SingleOwner
  <2>. SUFFICES ASSUME SafeInv PROVE SingleOwner OBVIOUS
  <2>1. /\ Worker \subseteq Thread /\ queue \in [Worker -> Seq(Context)]
        /\ stolen \in [Worker -> Seq(Context)]
        /\ OneOwner /\ QueuesDistinct /\ Processing /\ Attached
    BY Types DEF SafeInv, Ownership
  <2>2. ASSUME NEW c \in Context, NEW o \in Owners(c)
        PROVE  \E k \in Kind, t \in Thread :
                   /\ Owns(k, t, c)
                   /\ \/ /\ k = "queued"
                         /\ \E i \in 1 .. Len(queue[t]) :
                                o = <<k, t, i>> /\ queue[t][i] = c
                      \/ /\ k = "carried"
                         /\ \E i \in 1 .. Len(stolen[t]) :
                                o = <<k, t, i>> /\ stolen[t][i] = c
                      \/ k \in {"run", "pushed"} /\ o = <<k, t>>
    <3>1. CASE o \in Queued(c)
      BY <2>1, <3>1 DEF Queued, At, Owns, Has, Kind
    <3>2. CASE o \in Carried(c)
      BY <2>1, <3>2 DEF Carried, At, Owns, Has, Kind
    <3>3. CASE o \in Run(c) BY <2>1, <3>3 DEF Run, Owns, Kind
    <3>4. CASE o \in Pushed(c) BY <3>4 DEF Pushed, Owns, Kind
    <3>. QED BY <2>2, <3>1, <3>2, <3>3, <3>4 DEF Owners
  <2>3. ASSUME NEW c \in Context PROVE Cardinality(Owners(c)) <= 1
    <3>1. ASSUME NEW o \in Owners(c), NEW p \in Owners(c) PROVE o = p
      <4>1. PICK k \in Kind, t \in Thread :
                   /\ Owns(k, t, c)
                   /\ \/ /\ k = "queued"
                         /\ \E i \in 1 .. Len(queue[t]) :
                                o = <<k, t, i>> /\ queue[t][i] = c
                      \/ /\ k = "carried"
                         /\ \E i \in 1 .. Len(stolen[t]) :
                                o = <<k, t, i>> /\ stolen[t][i] = c
                      \/ k \in {"run", "pushed"} /\ o = <<k, t>>
        BY <2>2
      <4>2. PICK l \in Kind, u \in Thread :
                   /\ Owns(l, u, c)
                   /\ \/ /\ l = "queued"
                         /\ \E i \in 1 .. Len(queue[u]) :
                                p = <<l, u, i>> /\ queue[u][i] = c
                      \/ /\ l = "carried"
                         /\ \E i \in 1 .. Len(stolen[u]) :
                                p = <<l, u, i>> /\ stolen[u][i] = c
                      \/ l \in {"run", "pushed"} /\ p = <<l, u>>
        BY <2>2
      <4>3. k = l /\ t = u BY <2>1, <4>1, <4>2 DEF OneOwner
      <4>4. CASE k = "queued"
        <5>1. t \in Worker BY <4>1, <4>4 DEF Owns
        <5>. QED BY <2>1, <4>1, <4>2, <4>3, <4>4, <5>1
                 DEF QueuesDistinct, Distinct
      <4>5. CASE k = "carried"
        <5>1. t \in Worker BY <4>1, <4>5 DEF Owns
        <5>. QED BY <2>1, <4>1, <4>2, <4>3, <4>5, <5>1
                 DEF QueuesDistinct, Distinct
      <4>6. CASE k \in {"run", "pushed"} BY <4>1, <4>2, <4>3, <4>6
      <4>. QED BY <4>4, <4>5, <4>6 DEF Kind
    <3>2. CASE Owners(c) = {} BY <3>2, FS_EmptySet
    <3>3. CASE Owners(c) # {}
      <4>1. PICK o : o \in Owners(c) BY <3>3
      <4>2. Owners(c) = {o} BY <3>1, <4>1
      <4>3. Cardinality({o}) = 1 BY FS_Singleton
      <4>. QED BY <4>2, <4>3
    <3>. QED BY <3>2, <3>3
  <2>4. ASSUME NEW c \in Context, Owners(c) # {} PROVE m_processing[c]
    <3>1. PICK o : o \in Owners(c) BY <2>4
    <3>2. HasOwner(c) BY <2>2, <3>1 DEF HasOwner
    <3>. QED BY <2>1, <3>2 DEF Processing
  <2>5. AttachedToRunner BY <2>1 DEF Attached, AttachedToRunner
  <2>. QED BY <2>3, <2>4, <2>5 DEF SingleOwner
<1>. QED BY <1>1, Safe, PTL

\* A context that has messages is on its way to a worker: the message pushed
\* while the worker gives the context up is not left behind.
THEOREM NothingStranded == Spec => []NoStrandedMessage
<1>1. SafeInv => NoStrandedMessage
  <2>. SUFFICES ASSUME SafeInv, NEW c \in Context, m_message_queue[c] # << >>
                PROVE  Owners(c) # {}
    BY DEF NoStrandedMessage
  <2>1. HasOwner(c) BY DEF SafeInv, Ownership, Processing, Accepts
  <2>2. PICK k \in Kind, t \in Thread : Owns(k, t, c) BY <2>1 DEF HasOwner
  <2>3. CASE k = "queued"
    <3>1. PICK i : i \in At(c, queue[t]) /\ t \in Worker
      BY <2>2, <2>3 DEF Owns, Has, At
    <3>2. <<"queued", t, i>> \in Queued(c) BY <3>1 DEF Queued
    <3>. QED BY <3>2 DEF Owners
  <2>4. CASE k = "carried"
    <3>1. PICK i : i \in At(c, stolen[t]) /\ t \in Worker
      BY <2>2, <2>4 DEF Owns, Has, At
    <3>2. <<"carried", t, i>> \in Carried(c) BY <3>1 DEF Carried
    <3>. QED BY <3>2 DEF Owners
  <2>5. CASE k = "run"
    <3>1. <<"run", t>> \in Run(c) BY <2>2, <2>5 DEF Owns, Run
    <3>. QED BY <3>1 DEF Owners
  <2>6. CASE k = "pushed"
    <3>1. <<"pushed", t>> \in Pushed(c) BY <2>2, <2>6 DEF Owns, Pushed
    <3>. QED BY <3>1 DEF Owners
  <2>. QED BY <2>3, <2>4, <2>5, <2>6 DEF Kind
<1>. QED BY <1>1, Safe, PTL

\* The steps that change a queue of messages.
MessageStep ==
    \/ \E t \in Thread : push_message(t) \/ lua_ctx_init(t)
    \/ \E w \in Worker : pop_message(w)

\* Only these do.
LEMMA MessageSteps ==
    ASSUME TypeInv, Next
    PROVE  MessageStep \/ UNCHANGED m_message_queue
<1>. DEFINE Goal == MessageStep \/ UNCHANGED m_message_queue
<1>1. ASSUME NEW t \in Thread, grab_context(t) PROVE Goal
  BY <1>1 DEF grab_context
<1>2. ASSUME NEW t \in Thread, check_valid(t) PROVE Goal
  BY <1>2 DEF check_valid, ctxVars
<1>3. ASSUME NEW t \in Thread, push_message(t) PROVE Goal
  BY <1>3 DEF MessageStep
<1>4. ASSUME NEW t \in Thread, push_context(t) PROVE Goal
  BY <1>4 DEF push_context
<1>5. ASSUME NEW t \in Thread, push_one(t) PROVE Goal
  BY <1>5 DEF push_one, ctxVars
<1>6. ASSUME NEW t \in Thread, sem_post(t) PROVE Goal
  BY <1>6 DEF sem_post, ctxVars
<1>7. ASSUME NEW t \in Thread, release_dest(t) PROVE Goal
  BY <1>7 DEF release_dest, Release
<1>8. ASSUME NEW t \in Thread, init(t) PROVE Goal
  BY <1>8 DEF init, ctxVars
<1>9. ASSUME NEW t \in Thread, lua_ctx_init(t) PROVE Goal
  BY <1>9 DEF MessageStep
<1>10. ASSUME NEW t \in Thread, set_inited(t) PROVE Goal
  BY <1>10 DEF set_inited, SendCreated
<1>11. ASSUME NEW t \in Thread, retire_created(t) PROVE Goal
  BY <1>11 DEF retire_created, Release, Retire, SendCreated
<1>12. ASSUME NEW t \in Thread, check_load(t) PROVE Goal
  BY <1>12 DEF check_load, ctxVars
<1>13. ASSUME NEW t \in Thread, start_worker(t) PROVE Goal
  BY <1>13 DEF start_worker, ctxVars
<1>14. ASSUME NEW t \in Thread, check_alive(t) PROVE Goal
  BY <1>14 DEF check_alive, ctxVars
<1>15. ASSUME NEW t \in Thread, stop(t) PROVE Goal
  BY <1>15 DEF stop, ctxVars
<1>16. ASSUME NEW t \in Thread, wakeup(t) PROVE Goal
  BY <1>16 DEF wakeup, ctxVars
<1>17. ASSUME NEW t \in Worker, loop(t) PROVE Goal
  BY <1>17 DEF loop, ctxVars
<1>18. ASSUME NEW t \in Worker, try_pop_one(t) PROVE Goal
  BY <1>18 DEF try_pop_one, ctxVars
<1>19. ASSUME NEW t \in Worker, steal_context(t) PROVE Goal
  BY <1>19 DEF steal_context, StealFrom, ctxVars
<1>20. ASSUME NEW t \in Worker, push_many(t) PROVE Goal
  BY <1>20 DEF push_many, ctxVars
<1>21. ASSUME NEW t \in Worker, wait(t) PROVE Goal
  BY <1>21 DEF wait, ctxVars
<1>22. ASSUME NEW t \in Worker, attach(t) PROVE Goal
  BY <1>22 DEF attach
<1>23. ASSUME NEW t \in Worker, turn(t) PROVE Goal
  BY <1>23 DEF turn
<1>24. ASSUME NEW t \in Worker, pop_message(t) PROVE Goal
  BY <1>24 DEF MessageStep
<1>25. ASSUME NEW t \in Worker, release_running(t) PROVE Goal
  BY <1>25 DEF release_running, Release
<1>26. ASSUME NEW t \in Worker, lua_acts(t) PROVE Goal
  BY <1>26 DEF lua_acts, Register, ctxVars
<1>27. ASSUME NEW t \in Worker, handle(t) PROVE Goal
  BY <1>27 DEF handle, ctxVars
<1>28. ASSUME NEW t \in Worker, drop(t) PROVE Goal
  BY <1>28 DEF drop, ctxVars
<1>29. ASSUME NEW t \in Worker, finish(t) PROVE Goal
  BY <1>29 DEF finish, ctxVars
<1>30. ASSUME NEW t \in Worker, deinit(t) PROVE Goal
  BY <1>30 DEF deinit, ctxVars
<1>31. ASSUME NEW t \in Worker, unset_inited(t) PROVE Goal
  BY <1>31 DEF unset_inited
<1>32. ASSUME NEW t \in Worker, retire_context(t) PROVE Goal
  BY <1>32 DEF retire_context, Release, Retire
<1>33. ASSUME NEW t \in Worker, repush_context(t) PROVE Goal
  BY <1>33 DEF repush_context, ctxVars
<1>34. ASSUME NEW t \in Worker, shortest(t) PROVE Goal
  BY <1>34 DEF shortest, ctxVars
<1>35. ASSUME boot_logger PROVE Goal
  BY <1>35 DEF boot_logger, Register
<1>36. ASSUME grab_logger PROVE Goal
  BY <1>36 DEF grab_logger
<1>37. ASSUME boot_root PROVE Goal
  BY <1>37 DEF boot_root, Register
<1>38. ASSUME response PROVE Goal
  BY <1>38 DEF response, ctxVars
<1>39. ASSUME NEW t \in Thread, Send(t) PROVE Goal
  BY <1>39, <1>1, <1>2, <1>3, <1>4, <1>5, <1>6, <1>7 DEF Send
<1>40. ASSUME NEW t \in Thread, Create(t) PROVE Goal
  BY <1>40, <1>8, <1>9, <1>10, <1>11, <1>12, <1>13 DEF Create
<1>41. ASSUME NEW t \in Thread, Stop(t) PROVE Goal
  BY <1>41, <1>14, <1>15, <1>16 DEF Stop
<1>42. ASSUME NEW t \in Worker, WorkerProcess(t) PROVE Goal
  BY <1>42, <1>17, <1>18, <1>19, <1>20, <1>21, <1>22, <1>23, <1>24, <1>25,
     <1>26, <1>27, <1>28, <1>29, <1>30, <1>31, <1>32, <1>33, <1>34 DEF
     WorkerProcess
<1>. QED
  BY <1>39, <1>40, <1>41, <1>42, <1>35, <1>36, <1>37, <1>38 DEF Next, Step,
     Boot


\* No message but the first is LUA_CTX_INIT, in the next state.
LEMMA InitFirstNext ==
    ASSUME SafeInv, InitFirst, Next
    PROVE  InitFirst'
<1>. SUFFICES ASSUME NEW c \in Context,
                     NEW i \in 2 .. Len(m_message_queue'[c])
              PROVE  m_message_queue'[c][i] # "init"
  BY DEF InitFirst
<1>1. /\ m_message_queue \in [Context -> Seq(Message)]
      /\ type \in [Thread -> Message]
      /\ dest \in [Thread -> Context \cup {NoContext}]
      /\ created \in [Thread -> Context \cup {NoContext}]
      /\ NoContext \notin Context /\ Worker \subseteq Thread
      /\ \A t \in Thread : Locals(t) /\ Place(t) /\ Untold(t)
  BY Types DEF SafeInv, Places, Ownership, Unborn
<1>2. \A d \in Context : \A j \in 2 .. Len(m_message_queue[d]) :
          m_message_queue[d][j] # "init"
  BY DEF InitFirst
<1>3. ASSUME NEW t \in Thread, push_message(t)
      PROVE  m_message_queue'[c][i] # "init"
  <2>1. /\ dest[t] \in Context /\ type[t] # "init" /\ type[t] \in Message
        /\ m_message_queue' = [m_message_queue EXCEPT ![dest[t]] =
                                   Append(m_message_queue[dest[t]], type[t])]
    BY <1>1, <1>3 DEF push_message, Locals, Place
  <2>. QED BY <1>1, <1>2, <2>1
<1>4. ASSUME NEW t \in Thread, lua_ctx_init(t)
      PROVE  m_message_queue'[c][i] # "init"
  <2>1. /\ created[t] \in Context /\ pc[t] # "set_inited"
        /\ created[t] # NoContext
        /\ m_message_queue' = [m_message_queue EXCEPT ![created[t]] =
                                   Append(m_message_queue[created[t]], "init")]
    BY <1>1, <1>4 DEF lua_ctx_init, Locals
  <2>2. m_message_queue[created[t]] = << >> BY <1>1, <2>1 DEF Untold
  <2>3. Append(<< >>, "init") = <<"init">> OBVIOUS
  <2>. QED BY <1>1, <1>2, <2>1, <2>2, <2>3
<1>5. ASSUME NEW w \in Worker, pop_message(w)
      PROVE  m_message_queue'[c][i] # "init"
  <2>1. CASE m_message_queue' = m_message_queue BY <1>2, <2>1
  <2>2. CASE m_message_queue' # m_message_queue
    <3>1. /\ running[w] \in Context
          /\ m_message_queue[running[w]] # << >>
          /\ m_message_queue' = [m_message_queue EXCEPT ![running[w]] =
                                     Tail(m_message_queue[running[w]])]
      BY <1>1, <1>5, <2>2 DEF pop_message, Locals, Idle
    <3>2. CASE c = running[w]
      <4>1. /\ Len(m_message_queue'[c]) = Len(m_message_queue[c]) - 1
            /\ m_message_queue'[c][i] = m_message_queue[c][i + 1]
        BY <1>1, <3>1, <3>2
      <4>2. Len(m_message_queue[c]) \in Nat BY <1>1
      <4>3. i + 1 \in 2 .. Len(m_message_queue[c]) BY <4>1, <4>2
      <4>. QED BY <1>2, <4>1, <4>3
    <3>3. CASE c # running[w] BY <1>1, <1>2, <3>1, <3>3
    <3>. QED BY <3>2, <3>3
  <2>. QED BY <2>1, <2>2
<1>6. CASE UNCHANGED m_message_queue BY <1>2, <1>6
<1>7. MessageStep \/ UNCHANGED m_message_queue BY MessageSteps DEF SafeInv
<1>. QED BY <1>3, <1>4, <1>5, <1>6, <1>7 DEF MessageStep

\* A Lua context handles LUA_CTX_INIT before any message of another thread,
\* although others can look it up while it is being initialised.
THEOREM InitHandledFirst == Spec => []InitFirst
<1>1. Init => InitFirst BY DEF Init, InitFirst
<1>2. ASSUME SafeInv, InitFirst, UNCHANGED vars PROVE InitFirst'
  BY <1>2 DEF vars, ctxVars, InitFirst
<1>. QED BY <1>1, <1>2, InitFirstNext, Safe, PTL DEF Spec


\* A worker that waits with contexts in its queue is woken.
Woken(w) ==
    pc[w] \in {"steal_context", "wait"} /\ queue[w] # << >>
        => sem[w] > 0 \/ \E t \in Thread : pc[t] = "sem_post" /\ target[t] = w

\* A step that takes no token and puts nobody to sleep keeps it so.
LEMMA WokenKept ==
    ASSUME TypeInv, NEW w \in Worker, Woken(w),
           pc'[w] \in {"steal_context", "wait"}
               => pc[w] \in {"steal_context", "wait"},
           queue'[w] # << >> => queue[w] # << >>,
           sem'[w] = sem[w] \/ sem'[w] = sem[w] + 1,
           \A t \in Thread : pc[t] = "sem_post" =>
               \/ pc'[t] = "sem_post" /\ target'[t] = target[t]
               \/ target[t] = w => sem'[w] = sem[w] + 1
    PROVE  Woken(w)'
<1>1. sem[w] \in Nat BY Types
<1>. QED BY <1>1 DEF Woken

\* Every step keeps it so.
LEMMA WokenNext ==
    ASSUME TypeInv, Places, Next, NEW w \in Worker, Woken(w)
    PROVE  Woken(w)'
<1>1. /\ pc \in [Thread -> Label]
      /\ queue \in [Worker -> Seq(Context)]
      /\ sem \in [Worker -> Nat]
      /\ target \in [Thread -> Worker]
      /\ Worker \subseteq Thread /\ Main \in Thread /\ Net \in Thread
      /\ Main \notin Worker /\ Net \notin Worker
      /\ \A t \in Thread : Locals(t)
  BY Types
<1>2. ASSUME NEW t \in Thread, grab_context(t) PROVE Woken(w)'
  BY <1>1, <1>2 DEF grab_context, Goto, Return, loopVars, mgrVars, Woken,
     Locals, Resumes, Idle
<1>3. ASSUME NEW t \in Thread, check_valid(t) PROVE Woken(w)'
  BY <1>1, <1>3 DEF check_valid, EndSend, Goto, IsValid, Return, loopVars,
     mgrVars, Woken, Locals, Resumes, Idle
<1>4. ASSUME NEW t \in Thread, push_message(t) PROVE Woken(w)'
  BY <1>1, <1>4 DEF push_message, EndSend, Goto, Return, loopVars, mgrVars,
     Woken, Locals, Resumes, Idle
<1>5. ASSUME NEW t \in Thread, push_context(t) PROVE Woken(w)'
  BY <1>1, <1>5 DEF push_context, Goto, Woken, Locals, Resumes, Idle
<1>6. ASSUME NEW t \in Thread, push_one(t) PROVE Woken(w)'
  <2>1. /\ pc[t] = "push_one" /\ UNCHANGED <<sem, target>>
        /\ target[t] \in Worker
        /\ \A v \in Worker \ {target[t]} : queue'[v] = queue[v]
        /\ \A u \in Thread \ {t} : pc'[u] = pc[u]
        /\ queue[target[t]] = << >> => pc'[t] = "sem_post"
    BY <1>1, <1>6 DEF push_one, AfterPush, EndSend, Goto, Return, loopVars
  <2>2. pc'[t] \notin {"steal_context", "wait"}
    <3>1. dest[t] # NoContext => dest[t] \in Context BY Types
    <3>2. pc'[t] \in {"sem_post", "release_dest", "loop"} \/
              (dest[t] # NoContext /\ pc'[t] = back[t])
      BY <1>1, <1>6 DEF push_one, AfterPush, EndSend, Goto, Return
    <3>. QED BY <1>1, <1>6, <3>1, <3>2 DEF Locals, Resumes
  <2>3. CASE w # target[t] \/ queue[w] # << >>
    BY <1>1, <2>1, <2>2, <2>3, WokenKept
  <2>4. CASE w = target[t] /\ queue[w] = << >>
    BY <1>1, <2>1, <2>4 DEF Woken
  <2>. QED BY <2>3, <2>4
<1>7. ASSUME NEW t \in Thread, sem_post(t) PROVE Woken(w)'
  <2>1. /\ pc[t] = "sem_post" /\ UNCHANGED <<queue, target>>
        /\ target[t] \in Worker
        /\ \A v \in Worker :
               sem'[v] = IF v = target[t] THEN sem[v] + 1 ELSE sem[v]
        /\ \A u \in Thread \ {t} : pc'[u] = pc[u]
    BY <1>1, <1>7 DEF sem_post, AfterPush, EndSend, Goto, Return, loopVars
  <2>2. pc'[t] \notin {"steal_context", "wait"}
    <3>1. dest[t] # NoContext => dest[t] \in Context BY Types
    <3>2. pc'[t] \in {"sem_post", "release_dest", "loop"} \/
              (dest[t] # NoContext /\ pc'[t] = back[t])
      BY <1>1, <1>7 DEF sem_post, AfterPush, EndSend, Goto, Return
    <3>. QED BY <1>1, <1>7, <3>1, <3>2 DEF Locals, Resumes
  <2>. QED BY <1>1, <2>1, <2>2, WokenKept
<1>8. ASSUME NEW t \in Thread, release_dest(t) PROVE Woken(w)'
  BY <1>1, <1>8 DEF release_dest, Goto, Release, Return, loopVars, mgrVars,
     Woken, Locals, Resumes, Idle
<1>9. ASSUME NEW t \in Thread, init(t) PROVE Woken(w)'
  BY <1>1, <1>9 DEF init, CallLog, Goto, loopVars, mgrVars, Woken, Locals,
     Resumes, Idle
<1>10. ASSUME NEW t \in Thread, lua_ctx_init(t) PROVE Woken(w)'
  BY <1>1, <1>10 DEF lua_ctx_init, Goto, loopVars, mgrVars, Woken, Locals,
     Resumes, Idle
<1>11. ASSUME NEW t \in Thread, set_inited(t) PROVE Woken(w)'
  BY <1>1, <1>11 DEF set_inited, Goto, SendCreated, loopVars, mgrVars,
     Woken, Locals, Resumes, Idle
<1>12. ASSUME NEW t \in Thread, retire_created(t) PROVE Woken(w)'
  BY <1>1, <1>12 DEF retire_created, Goto, Release, Retire, SendCreated,
     loopVars, mgrVars, Woken, Locals, Resumes, Idle
<1>13. ASSUME NEW t \in Thread, check_load(t) PROVE Woken(w)'
  BY <1>1, <1>13 DEF check_load, AfterCreate, Goto, mgrVars, Woken, Locals,
     Resumes, Idle
<1>14. ASSUME NEW t \in Thread, start_worker(t) PROVE Woken(w)'
  <2>1. UNCHANGED <<queue, sem, target>> /\ pc[t] = "start_worker"
    BY <1>14 DEF start_worker
  <2>2. \A v \in Thread :
            \/ pc'[v] = pc[v]
            \/ v = t /\ pc'[v] \in {"handle", "grab_logger", "join"}
            \/ pc[v] = "unborn" /\ pc'[v] = "loop"
    BY <1>14, StartWorkerMoves DEF AfterCreate
  <2>3. \A v \in Thread : pc'[v] = pc[v] \/ pc[v] # "sem_post"
    BY <2>1, <2>2
  <2>4. pc'[w] \in {"steal_context", "wait"}
            => pc[w] \in {"steal_context", "wait"}
    BY <1>1, <2>2
  <2>. QED BY <1>1, <2>1, <2>3, <2>4, WokenKept
<1>15. ASSUME NEW t \in Thread, check_alive(t) PROVE Woken(w)'
  BY <1>1, <1>15 DEF check_alive, AfterAlive, CallSend, Goto, loopVars,
     mgrVars, Woken, Locals, Resumes, Idle
<1>16. ASSUME NEW t \in Thread, stop(t) PROVE Woken(w)'
  BY <1>1, <1>16 DEF stop, AfterAlive, Goto, loopVars, Woken, Locals,
     Resumes, Idle
<1>17. ASSUME NEW t \in Thread, wakeup(t) PROVE Woken(w)'
  <2>1. UNCHANGED <<queue, target>> /\ pc[t] = "wakeup"
    BY <1>17 DEF wakeup
  <2>2. sem'[w] = sem[w] \/ sem'[w] = sem[w] + 1 BY <1>1, <1>17 DEF wakeup
  <2>3. \A u \in Thread \ {t} : pc'[u] = pc[u]
    BY <1>1, <1>17 DEF wakeup, Goto
  <2>4. pc'[t] \notin {"steal_context", "wait"}
    BY <1>1, <1>17 DEF wakeup, Goto, AfterAlive
  <2>. QED BY <1>1, <2>1, <2>2, <2>3, <2>4, WokenKept
<1>18. ASSUME NEW t \in Worker, loop(t) PROVE Woken(w)'
  BY <1>1, <1>18 DEF loop, Goto, loopVars, mgrVars, Woken, Locals, Resumes,
     Idle
<1>19. ASSUME NEW t \in Worker, try_pop_one(t) PROVE Woken(w)'
  BY <1>1, <1>19 DEF try_pop_one, Goto, loopVars, Woken, Locals, Resumes,
     Idle
<1>20. ASSUME NEW t \in Worker, steal_context(t) PROVE Woken(w)'
  <2>1. UNCHANGED <<sem, target>> /\ pc[t] = "steal_context"
    BY <1>20 DEF steal_context
  <2>2. stolen[t] = << >> BY <1>1, <2>1 DEF Places, Place
  <2>3. CASE scan[t] < m_worker_num /\ StealFrom(t, scan[t])
    <3>1. PICK v \in Worker : v = scan[t] BY <2>3, ScanWorker
    <3>2. /\ \A c : Has(queue[v], c) <=> \/ Has(queue'[v], c)
                                         \/ Has(stolen'[t], c)
                                         \/ c = running'[t]
          /\ \A u \in Worker \ {v} : queue'[u] = queue[u]
          /\ pc' = [pc EXCEPT ![t] = pc'[t]]
          /\ pc'[t] \in {"attach", "push_many"}
      BY <2>2, <2>3, <3>1, StealMoves
    <3>3. queue[v] # << >>
      <4>1. Has(queue[v], running'[t]) BY <3>2
      <4>. QED BY <4>1 DEF Has
    <3>4. \A u \in Thread \ {t} : pc'[u] = pc[u] BY <1>1, <3>2
    <3>. QED BY <1>1, <2>1, <3>2, <3>3, <3>4, WokenKept
  <2>4. CASE UNCHANGED queue
    <3>1. /\ \A u \in Thread \ {t} : pc'[u] = pc[u]
          /\ pc'[t] # "sem_post"
      <4>1. StealFrom(t, scan[t]) => \/ pc' = [pc EXCEPT ![t] = "push_many"]
                                     \/ pc' = [pc EXCEPT ![t] = "attach"]
        BY DEF StealFrom, Goto
      <4>2. \/ StealFrom(t, scan[t])
            \/ UNCHANGED pc
            \/ pc' = [pc EXCEPT ![t] = "wait"]
        BY <1>20 DEF steal_context, Goto
      <4>3. pc \in [Thread -> Label] /\ t \in Thread BY <1>1
      <4>. QED BY <2>1, <4>1, <4>2, <4>3
    <3>. QED BY <1>1, <2>1, <2>4, <3>1, WokenKept
  <2>. QED BY <1>20, <2>3, <2>4 DEF steal_context
<1>21. ASSUME NEW t \in Worker, push_many(t) PROVE Woken(w)'
  BY <1>1, <1>21 DEF push_many, Goto, loopVars, Woken, Locals, Resumes, Idle
<1>22. ASSUME NEW t \in Worker, wait(t) PROVE Woken(w)'
  BY <1>1, <1>22 DEF wait, Goto, loopVars, Woken, Locals, Resumes, Idle
<1>23. ASSUME NEW t \in Worker, attach(t) PROVE Woken(w)'
  BY <1>1, <1>23 DEF attach, Goto, loopVars, mgrVars, Woken, Locals,
     Resumes, Idle
<1>24. ASSUME NEW t \in Worker, turn(t) PROVE Woken(w)'
  BY <1>1, <1>24 DEF turn, Goto, IsValid, MayGoOn, loopVars, mgrVars, Woken,
     Locals, Resumes, Idle
<1>25. ASSUME NEW t \in Worker, pop_message(t) PROVE Woken(w)'
  BY <1>1, <1>25 DEF pop_message, Goto, IsValid, loopVars, mgrVars, Woken,
     Locals, Resumes, Idle
<1>26. ASSUME NEW t \in Worker, release_running(t) PROVE Woken(w)'
  BY <1>1, <1>26 DEF release_running, Goto, Release, loopVars, mgrVars,
     Woken, Locals, Resumes, Idle
<1>27. ASSUME NEW t \in Worker, lua_acts(t) PROVE Woken(w)'
  BY <1>1, <1>27 DEF lua_acts, CallLog, CallSend, Goto, Register, loopVars,
     mgrVars, Woken, Locals, Resumes, Idle
<1>28. ASSUME NEW t \in Worker, handle(t) PROVE Woken(w)'
  BY <1>1, <1>28 DEF handle, Goto, loopVars, mgrVars, Woken, Locals,
     Resumes, Idle
<1>29. ASSUME NEW t \in Worker, drop(t) PROVE Woken(w)'
  BY <1>1, <1>29 DEF drop, CallSend, Goto, loopVars, mgrVars, Woken, Locals,
     Resumes, Idle
<1>30. ASSUME NEW t \in Worker, finish(t) PROVE Woken(w)'
  BY <1>1, <1>30 DEF finish, Goto, loopVars, mgrVars, Woken, Locals,
     Resumes, Idle
<1>31. ASSUME NEW t \in Worker, deinit(t) PROVE Woken(w)'
  BY <1>1, <1>31 DEF deinit, CallLog, CallSend, Goto, loopVars, mgrVars,
     Woken, Locals, Resumes, Idle
<1>32. ASSUME NEW t \in Worker, unset_inited(t) PROVE Woken(w)'
  BY <1>1, <1>32 DEF unset_inited, Goto, loopVars, mgrVars, Woken, Locals,
     Resumes, Idle
<1>33. ASSUME NEW t \in Worker, retire_context(t) PROVE Woken(w)'
  BY <1>1, <1>33 DEF retire_context, Goto, Release, Retire, loopVars,
     mgrVars, Woken, Locals, Resumes, Idle
<1>34. ASSUME NEW t \in Worker, repush_context(t) PROVE Woken(w)'
  BY <1>1, <1>34 DEF repush_context, Goto, mgrVars, Woken, Locals, Resumes,
     Idle
<1>35. ASSUME NEW t \in Worker, shortest(t) PROVE Woken(w)'
  BY <1>1, <1>35 DEF shortest, Goto, mgrVars, Woken, Locals, Resumes, Idle
<1>36. ASSUME boot_logger PROVE Woken(w)'
  BY <1>1, <1>36 DEF boot_logger, Goto, Register, loopVars, mgrVars, Woken,
     Locals, Resumes, Idle
<1>37. ASSUME grab_logger PROVE Woken(w)'
  BY <1>1, <1>37 DEF grab_logger, Goto, loopVars, mgrVars, Woken, Locals,
     Resumes, Idle
<1>38. ASSUME boot_root PROVE Woken(w)'
  BY <1>1, <1>38 DEF boot_root, Goto, Register, loopVars, mgrVars, Woken,
     Locals, Resumes, Idle
<1>39. ASSUME response PROVE Woken(w)'
  BY <1>1, <1>39 DEF response, CallSend, Goto, loopVars, mgrVars, Woken,
     Locals, Resumes, Idle
<1>40. ASSUME NEW t \in Thread, Send(t) PROVE Woken(w)'
  BY <1>40, <1>2, <1>3, <1>4, <1>5, <1>6, <1>7, <1>8 DEF Send
<1>41. ASSUME NEW t \in Thread, Create(t) PROVE Woken(w)'
  BY <1>41, <1>9, <1>10, <1>11, <1>12, <1>13, <1>14 DEF Create
<1>42. ASSUME NEW t \in Thread, Stop(t) PROVE Woken(w)'
  BY <1>42, <1>15, <1>16, <1>17 DEF Stop
<1>43. ASSUME NEW t \in Worker, WorkerProcess(t) PROVE Woken(w)'
  BY <1>43, <1>18, <1>19, <1>20, <1>21, <1>22, <1>23, <1>24, <1>25, <1>26,
     <1>27, <1>28, <1>29, <1>30, <1>31, <1>32, <1>33, <1>34, <1>35 DEF
     WorkerProcess
<1>. QED
  BY <1>40, <1>41, <1>42, <1>43, <1>36, <1>37, <1>38, <1>39 DEF Next, Step,
     Boot


\* A worker does not sleep on a queue that has contexts without a token or a
\* post that is still to come, although push_one posts after it unlocks and
\* only for a queue it found empty.
THEOREM WakeupsArrive == Spec => []NoLostWakeup
<1>1. Init => NoLostWakeup
  <2>. SUFFICES ASSUME Init, NEW w \in Worker PROVE queue[w] = << >>
    BY DEF NoLostWakeup
  <2>. QED BY DEF Init
<1>2. ASSUME SafeInv, NoLostWakeup, Next PROVE NoLostWakeup'
  <2>1. \A w \in Worker : Woken(w) BY <1>2 DEF NoLostWakeup, Woken
  <2>2. \A w \in Worker : Woken(w)' BY <1>2, <2>1, WokenNext DEF SafeInv
  <2>. QED BY <2>2 DEF NoLostWakeup, Woken
<1>3. ASSUME NoLostWakeup, UNCHANGED vars PROVE NoLostWakeup'
  BY <1>3 DEF vars, mgrVars, loopVars, NoLostWakeup
<1>. QED BY <1>1, <1>2, <1>3, Safe, PTL DEF Spec
================================================================================
