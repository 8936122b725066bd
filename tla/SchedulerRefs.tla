----------------------------- MODULE SchedulerRefs -----------------------------
(***************************************************************************)
(* The reference counts of Scheduler and the end they lead to: the logger  *)
(* goes last, after the last record was logged, and the engine stops when  *)
(* it has gone.  For any number of contexts and workers.                   *)
(***************************************************************************)
EXTENDS SchedulerSafety, FunctionTheorems

-----------------------------------------------------------------------------
(* A reference is named by what holds it: the registry and m_logger, which  *)
(* stand at Main, and otherwise a thread or the queue of a worker.          *)

RefKind == {"registered", "m_logger", "grabbed", "created", "pushing", "run",
            "queued", "carried"}

Refers(k, t, c) ==
    \/ k = "registered" /\ t = Main /\ m_handle[c]
    \/ /\ k = "m_logger" /\ t = Main /\ c = Logger
       /\ pc[Main] = "boot_root" \/ m_alloc[Root] # "none"
    \/ k = "grabbed" /\ dest[t] = c /\ type[t] # "log" /\ pc[t] # "grab_context"
    \/ k = "created" /\ created[t] = c
    \/ k = "pushing" /\ dest[t] = c /\ pc[t] = "push_one"
    \/ k = "run" /\ t \in Worker /\ running[t] = c
    \/ k = "queued" /\ t \in Worker /\ Has(queue[t], c)
    \/ k = "carried" /\ t \in Worker /\ Has(stolen[t], c)

Held(c) == {r \in RefKind \X Thread : Refers(r[1], r[2], c)}

\* m_ref is the number of references, and a context is there as long as it has
\* one.
Counted(c) ==
    /\ m_ref[c] = Cardinality(Held(c))
    /\ m_alloc[c] = "live" <=> Held(c) # {}

\* The places at which a worker has not yet retired the context it runs.
Unretired == {"handle", "deinit", "unset_inited", "retire_context", "init",
              "lua_ctx_init", "set_inited", "retire_created", "check_load",
              "start_worker"}

\* A context that is being created, or that handles a message and has not been
\* destroyed, is registered: only its own thread retires it.
Registered ==
    \A t \in Thread :
        /\ created[t] # NoContext => m_handle[created[t]]
        /\ /\ t \in Worker /\ running[t] # NoContext
           /\ \/ pc[t] \in Unretired
              \/ dest[t] # NoContext /\ back[t] \in Unretired
           => m_handle[running[t]]

AllCounted == \A c \in Context : Counted(c)

\* How a step changes the references to a context.
Keeps(c) ==
    /\ \A k \in RefKind, t \in Thread : Refers(k, t, c)' <=> Refers(k, t, c)
    /\ m_ref'[c] = m_ref[c] /\ m_alloc'[c] = m_alloc[c]

Takes(c, k0, t0) ==
    /\ k0 \in RefKind /\ t0 \in Thread
    /\ ~Refers(k0, t0, c)
    /\ Held(c) # {}
    /\ \A k \in RefKind, t \in Thread :
           Refers(k, t, c)' <=> Refers(k, t, c) \/ (k = k0 /\ t = t0)
    /\ m_ref'[c] = m_ref[c] + 1 /\ m_alloc'[c] = m_alloc[c]

Released(c) ==
    /\ m_ref'[c] = m_ref[c] - 1
    /\ m_alloc'[c] = IF m_ref[c] = 1 THEN "deleted" ELSE m_alloc[c]

Drops(c, k0, t0) ==
    /\ k0 \in RefKind /\ t0 \in Thread
    /\ Refers(k0, t0, c)
    /\ \A k \in RefKind, t \in Thread :
           Refers(k, t, c)' <=> Refers(k, t, c) /\ ~ (k = k0 /\ t = t0)
    /\ Released(c)

Passes(c, k0, t0, l0, u0) ==
    /\ k0 \in RefKind /\ t0 \in Thread /\ l0 \in RefKind /\ u0 \in Thread
    /\ Refers(k0, t0, c) /\ ~Refers(l0, u0, c)
    /\ \A k \in RefKind, t \in Thread :
           Refers(k, t, c)' <=> \/ Refers(k, t, c) /\ ~ (k = k0 /\ t = t0)
                                \/ k = l0 /\ t = u0
    /\ m_ref'[c] = m_ref[c] /\ m_alloc'[c] = m_alloc[c]

\* The two new references of a context that is registered, and the one that
\* is passed on while the registry gives up its own.
Begins(c, t0) ==
    /\ t0 \in Thread
    /\ \A k \in RefKind, t \in Thread :
           Refers(k, t, c)' <=> \/ k = "registered" /\ t = Main
                                \/ k = "created" /\ t = t0
    /\ m_ref'[c] = 2 /\ m_alloc'[c] = "live"

Fails(c, t0) ==
    /\ t0 \in Thread
    /\ Refers("registered", Main, c) /\ Refers("created", t0, c)
    /\ ~Refers("grabbed", t0, c)
    /\ \A k \in RefKind, t \in Thread :
           Refers(k, t, c)' <=>
               \/ /\ Refers(k, t, c)
                  /\ ~ (k = "registered" /\ t = Main)
                  /\ ~ (k = "created" /\ t = t0)
               \/ k = "grabbed" /\ t = t0
    /\ Released(c)

\* There are finitely many references.
LEMMA HeldFinite == \A c : IsFiniteSet(Held(c))
<1>1. IsFiniteSet(Worker)
  BY SchedulerAssumption, FS_Interval DEF Worker
<1>2. IsFiniteSet({Main, Net})
  <2>1. {Main, Net} = {Main} \cup {Net} OBVIOUS
  <2>2. IsFiniteSet({Main}) /\ IsFiniteSet({Net}) BY FS_Singleton
  <2>. QED BY <2>1, <2>2, FS_Union
<1>3. IsFiniteSet(Thread) BY <1>1, <1>2, FS_Union DEF Thread
<1>4. IsFiniteSet(RefKind)
  <2>1. \A S, x : IsFiniteSet(S) => IsFiniteSet(S \cup {x}) BY FS_AddElement
  <2>2. IsFiniteSet({}) BY FS_EmptySet
  <2>3. RefKind = {} \cup {"registered"} \cup {"m_logger"} \cup {"grabbed"}
             \cup {"created"} \cup {"pushing"} \cup {"run"}
             \cup {"queued"} \cup {"carried"}
    BY DEF RefKind
  <2>. QED BY <2>1, <2>2, <2>3
<1>5. IsFiniteSet(RefKind \X Thread) BY <1>3, <1>4, FS_Product
<1>. QED BY <1>5, FS_Subset DEF Held

\* Each way keeps the count.
LEMMA KeepsCounted ==
    ASSUME NEW c \in Context, Counted(c), Keeps(c) PROVE Counted(c)'
<1>1. Held(c)' = Held(c) BY DEF Keeps, Held
<1>. QED BY <1>1 DEF Counted, Keeps

\* A pointer taken with context_t::grab is counted.
LEMMA TakesCounted ==
    ASSUME NEW c \in Context, Counted(c), NEW k \in RefKind, NEW t \in Thread,
           Takes(c, k, t)
    PROVE  Counted(c)'
<1>1. Held(c)' = Held(c) \cup {<<k, t>>} BY DEF Takes, Held
<1>2. <<k, t>> \notin Held(c) BY DEF Takes, Held
<1>3. Cardinality(Held(c)') = Cardinality(Held(c)) + 1
  BY <1>1, <1>2, HeldFinite, FS_AddElement
<1>. QED BY <1>1, <1>3 DEF Counted, Takes

\* A pointer given up with context_t::release is uncounted, and the last one
\* lets the context go.
LEMMA DropsCounted ==
    ASSUME NEW c \in Context, Counted(c), NEW k \in RefKind, NEW t \in Thread,
           Drops(c, k, t)
    PROVE  Counted(c)'
<1>. DEFINE R == Held(c) \ {<<k, t>>}
<1>1. Held(c)' = R BY DEF Drops, Held
<1>2. <<k, t>> \in Held(c) BY DEF Drops, Held
<1>3. IsFiniteSet(R) /\ Cardinality(R) = Cardinality(Held(c)) - 1
  BY <1>2, HeldFinite, FS_RemoveElement
<1>. HIDE DEF R
<1>4. Cardinality(R) = 0 <=> R = {} BY <1>3, FS_EmptySet
<1>5. Cardinality(Held(c)) \in Nat BY HeldFinite, FS_CardinalityType
<1>. QED BY <1>1, <1>2, <1>3, <1>4, <1>5 DEF Counted, Drops, Released

\* A pointer handed from one holder to the next leaves the count alone.
LEMMA PassesCounted ==
    ASSUME NEW c \in Context, Counted(c), NEW k \in RefKind, NEW t \in Thread,
           NEW l \in RefKind, NEW u \in Thread, Passes(c, k, t, l, u)
    PROVE  Counted(c)'
<1>. DEFINE R == Held(c) \ {<<k, t>>}
<1>1. Held(c)' = R \cup {<<l, u>>}
  <2>1. ASSUME NEW r \in RefKind \X Thread
        PROVE  r \in Held(c)' <=> r \in R \/ r = <<l, u>>
    <3>1. (r = <<k, t>> <=> r[1] = k /\ r[2] = t)
          /\ (r = <<l, u>> <=> r[1] = l /\ r[2] = u)
      OBVIOUS
    <3>2. r[1] \in RefKind /\ r[2] \in Thread OBVIOUS
    <3>3. Refers(r[1], r[2], c)' <=>
              \/ Refers(r[1], r[2], c) /\ ~ (r[1] = k /\ r[2] = t)
              \/ r[1] = l /\ r[2] = u
      BY <3>2 DEF Passes
    <3>. QED BY <3>1, <3>3 DEF Held
  <2>2. Held(c)' \subseteq RefKind \X Thread
        /\ R \cup {<<l, u>>} \subseteq RefKind \X Thread
    BY DEF Held
  <2>. QED BY <2>1, <2>2
<1>2. <<k, t>> \in Held(c) /\ <<l, u>> \notin R
  <2>1. Refers(k, t, c) /\ ~Refers(l, u, c) BY DEF Passes
  <2>2. <<k, t>> \in Held(c) BY <2>1 DEF Held
  <2>3. <<l, u>> \notin Held(c) BY <2>1 DEF Held
  <2>. QED BY <2>2, <2>3
<1>3. IsFiniteSet(R) /\ Cardinality(R) = Cardinality(Held(c)) - 1
  BY <1>2, HeldFinite, FS_RemoveElement
<1>4. Cardinality(Held(c)') = Cardinality(R) + 1
  BY <1>1, <1>2, <1>3, FS_AddElement
<1>5. Cardinality(Held(c)) \in Nat BY HeldFinite, FS_CardinalityType
<1>. QED BY <1>1, <1>2, <1>3, <1>4, <1>5 DEF Counted, Passes

\* A context starts with the reference of the registry and that of its creator.
LEMMA BeginsCounted ==
    ASSUME NEW c \in Context, NEW t \in Thread, Begins(c, t)
    PROVE  Counted(c)'
<1>1. Main \in Thread BY DEF Thread
<1>2. PICK a : a = <<"registered", Main>> OBVIOUS
<1>3. PICK b : b = <<"created", t>> OBVIOUS
<1>4. a \in Held(c)' /\ b \in Held(c)'
  <2>1. Refers("registered", Main, c)' /\ Refers("created", t, c)'
    BY <1>1 DEF Begins, RefKind
  <2>2. a \in RefKind \X Thread /\ b \in RefKind \X Thread
    BY <1>1, <1>2, <1>3 DEF RefKind
  <2>3. a[1] = "registered" /\ a[2] = Main /\ b[1] = "created" /\ b[2] = t
    BY <1>2, <1>3
  <2>. QED BY <2>1, <2>2, <2>3 DEF Held
<1>5. ASSUME NEW r \in Held(c)' PROVE r = a \/ r = b
  <2>1. r \in RefKind \X Thread /\ Refers(r[1], r[2], c)' BY <1>5 DEF Held
  <2>2. \/ r[1] = "registered" /\ r[2] = Main
        \/ r[1] = "created" /\ r[2] = t
    BY <2>1 DEF Begins
  <2>. QED BY <1>2, <1>3, <2>1, <2>2
<1>6. Held(c)' = {a} \cup {b} BY <1>4, <1>5
<1>7. a # b
  <2>1. a[1] # b[1] BY <1>2, <1>3
  <2>. QED BY <2>1
<1>8. IsFiniteSet({a}) /\ Cardinality({a}) = 1 BY FS_Singleton
<1>9. Cardinality({a} \cup {b}) = 2 BY <1>7, <1>8, FS_AddElement
<1>. QED BY <1>6, <1>9 DEF Counted, Begins

\* A failing init drops the references of the registry and of the creator and
\* keeps the one its worker grabbed.
LEMMA FailsCounted ==
    ASSUME NEW c \in Context, Counted(c), NEW t \in Thread, Fails(c, t)
    PROVE  Counted(c)'
<1>. DEFINE R == Held(c) \ {<<"registered", Main>>}
            S == R \ {<<"created", t>>}
<1>1. Main \in Thread BY DEF Thread
<1>2. Held(c)' = S \cup {<<"grabbed", t>>}
  BY <1>1 DEF Fails, Held, RefKind
<1>3. /\ <<"registered", Main>> \in Held(c)
      /\ <<"created", t>> \in R /\ <<"grabbed", t>> \notin S
  BY <1>1 DEF Fails, Held, RefKind
<1>4. IsFiniteSet(R) /\ Cardinality(R) = Cardinality(Held(c)) - 1
  BY <1>3, HeldFinite, FS_RemoveElement
<1>. HIDE DEF R
<1>5. IsFiniteSet(S) /\ Cardinality(S) = Cardinality(R) - 1
  BY <1>3, <1>4, FS_RemoveElement
<1>. HIDE DEF S
<1>6. Cardinality(Held(c)') = Cardinality(S) + 1
  BY <1>2, <1>3, <1>5, FS_AddElement
<1>7. Cardinality(Held(c)) \in Nat /\ Cardinality(R) \in Nat /\ Cardinality(S) \in Nat
  BY <1>4, <1>5, HeldFinite, FS_CardinalityType
<1>8. m_ref[c] # 1 BY <1>4, <1>5, <1>7 DEF Counted
<1>. QED BY <1>2, <1>3, <1>4, <1>5, <1>6, <1>7, <1>8 DEF Counted, Fails, Released

-----------------------------------------------------------------------------
(* Every step changes the references in one of these ways.                  *)

RefStep(c) ==
    \/ Keeps(c)
    \/ \E k \in RefKind, t \in Thread : Takes(c, k, t) \/ Drops(c, k, t)
    \/ \E k, l \in RefKind, t, u \in Thread : Passes(c, k, t, l, u)
    \/ \E t \in Thread : Begins(c, t) \/ Fails(c, t)

\* Then the count stays right.
LEMMA RefStepCounted ==
    ASSUME NEW c \in Context, Counted(c), RefStep(c)
    PROVE  Counted(c)'
BY KeepsCounted, TakesCounted, DropsCounted, PassesCounted, BeginsCounted,
   FailsCounted DEF RefStep

\* What the steps read.
LEMMA RefTypes ==
    ASSUME SafeInv
    PROVE  /\ pc \in [Thread -> Label]
           /\ dest \in [Thread -> Context \cup {NoContext}]
           /\ type \in [Thread -> Message]
           /\ created \in [Thread -> Context \cup {NoContext}]
           /\ running \in [Worker -> Context \cup {NoContext}]
           /\ m_handle \in [Context -> BOOLEAN]
           /\ m_alloc \in [Context -> {"none", "live", "deleted"}]
           /\ m_ref \in [Context -> Int]
           /\ Worker \subseteq Thread /\ Main \in Thread /\ Net \in Thread
           /\ Main \notin Worker /\ Net \notin Worker /\ Main # Net
           /\ Logger \in Context /\ Root \in Context /\ Logger # Root
           /\ NoContext \notin Context
           /\ \A t \in Thread : Locals(t) /\ Place(t)
BY Types DEF SafeInv, Places

\* The steps that neither take, nor pass on, nor release a reference.
LEMMA RefsKept ==
    ASSUME SafeInv, NEW t \in Thread, NEW c \in Context,
           \/ check_valid(t) \/ push_message(t) \/ sem_post(t) \/ init(t)
           \/ lua_ctx_init(t) \/ check_load(t) \/ start_worker(t)
           \/ check_alive(t) \/ stop(t) \/ wakeup(t)
           \/ /\ t \in Worker
              /\ \/ loop(t) \/ wait(t) \/ attach(t) \/ turn(t)
                 \/ pop_message(t) \/ handle(t) \/ drop(t) \/ finish(t)
                 \/ deinit(t) \/ unset_inited(t) \/ repush_context(t)
                 \/ shortest(t)
           \/ t = Net /\ response
    PROVE  Keeps(c)
<1>1. /\ pc \in [Thread -> Label]
      /\ dest \in [Thread -> Context \cup {NoContext}]
      /\ type \in [Thread -> Message]
      /\ Worker \subseteq Thread /\ Main \in Thread
      /\ Main \notin Worker /\ Net \notin Worker /\ Main # Net
      /\ Logger \in Context /\ NoContext \notin Context
      /\ Locals(t) /\ Place(t)
  BY RefTypes
<1>2. CASE check_valid(t)
  BY <1>1, <1>2 DEF check_valid, EndSend, Goto, IsValid, Return, ctxVars,
     mgrVars, runVars, sendVars, Keeps, Refers, Locals, Place, Sending,
     Creating, Resumes, Idle
<1>3. CASE push_message(t)
  BY <1>1, <1>3 DEF push_message, EndSend, Goto, Return, mgrVars, runVars,
     sendVars, Keeps, Refers, Locals, Place, Sending, Creating, Resumes,
     Idle
<1>4. CASE sem_post(t)
  BY <1>1, <1>4 DEF sem_post, AfterPush, EndSend, Goto, Return, ctxVars,
     runVars, sendVars, Keeps, Refers, Locals, Place, Sending, Creating,
     Resumes, Idle
<1>5. CASE init(t)
  BY <1>1, <1>5 DEF init, CallLog, Goto, ctxVars, mgrVars, runVars,
     sendVars, Keeps, Refers, Locals, Place, Sending, Creating, Resumes,
     Idle
<1>6. CASE lua_ctx_init(t)
  BY <1>1, <1>6 DEF lua_ctx_init, Goto, mgrVars, runVars, sendVars, Keeps,
     Refers, Locals, Place, Sending, Creating, Resumes, Idle
<1>7. CASE check_load(t)
  BY <1>1, <1>7 DEF check_load, AfterCreate, Goto, ctxVars, mgrVars,
     runVars, sendVars, Keeps, Refers, Locals, Place, Sending, Creating,
     Resumes, Idle
<1>8. CASE start_worker(t)
  <2>1. \A v \in Thread :
            \/ pc'[v] = pc[v]
            \/ /\ v = t /\ pc[v] = "start_worker"
               /\ pc'[v] \in {"handle", "grab_logger", "join"}
            \/ pc[v] = "unborn" /\ pc'[v] = "loop"
    BY <1>8, StartWorkerMoves DEF AfterCreate, start_worker, SafeInv
  <2>2. UNCHANGED <<dest, type, created, running, queue, stolen, m_handle,
                    m_alloc, m_ref>>
    BY <1>8 DEF start_worker, ctxVars, runVars, sendVars
  <2>3. \A v \in Thread :
            /\ pc'[v] = "boot_root" <=> pc[v] = "boot_root"
            /\ pc'[v] = "push_one" <=> pc[v] = "push_one"
            /\ pc'[v] = "grab_context" <=> pc[v] = "grab_context"
    BY <2>1
  <2>. QED BY <1>1, <2>2, <2>3 DEF Keeps, Refers
<1>9. CASE check_alive(t)
  BY <1>1, <1>9 DEF check_alive, AfterAlive, CallSend, Goto, ctxVars,
     mgrVars, runVars, sendVars, Keeps, Refers, Locals, Place, Sending,
     Creating, Resumes, Idle
<1>10. CASE stop(t)
  BY <1>1, <1>10 DEF stop, AfterAlive, Goto, ctxVars, runVars, sendVars,
     Keeps, Refers, Locals, Place, Sending, Creating, Resumes, Idle
<1>11. CASE wakeup(t)
  BY <1>1, <1>11 DEF wakeup, AfterAlive, Goto, ctxVars, runVars, sendVars,
     Keeps, Refers, Locals, Place, Sending, Creating, Resumes, Idle
<1>12. CASE t \in Worker /\ loop(t)
  BY <1>1, <1>12 DEF loop, Goto, ctxVars, mgrVars, runVars, sendVars, Keeps,
     Refers, Locals, Place, Sending, Creating, Resumes, Idle
<1>13. CASE t \in Worker /\ wait(t)
  BY <1>1, <1>13 DEF wait, Goto, ctxVars, runVars, sendVars, Keeps, Refers,
     Locals, Place, Sending, Creating, Resumes, Idle
<1>14. CASE t \in Worker /\ attach(t)
  BY <1>1, <1>14 DEF attach, Goto, mgrVars, sendVars, Keeps, Refers, Locals,
     Place, Sending, Creating, Resumes, Idle
<1>15. CASE t \in Worker /\ turn(t)
  BY <1>1, <1>15 DEF turn, Goto, IsValid, MayGoOn, mgrVars, runVars,
     sendVars, Keeps, Refers, Locals, Place, Sending, Creating, Resumes,
     Idle
<1>16. CASE t \in Worker /\ pop_message(t)
  BY <1>1, <1>16 DEF pop_message, Goto, IsValid, mgrVars, sendVars, Keeps,
     Refers, Locals, Place, Sending, Creating, Resumes, Idle
<1>17. CASE t \in Worker /\ handle(t)
  BY <1>1, <1>17 DEF handle, Goto, ctxVars, mgrVars, runVars, sendVars,
     Keeps, Refers, Locals, Place, Sending, Creating, Resumes, Idle
<1>18. CASE t \in Worker /\ drop(t)
  BY <1>1, <1>18 DEF drop, CallSend, Goto, ctxVars, mgrVars, runVars,
     sendVars, Keeps, Refers, Locals, Place, Sending, Creating, Resumes,
     Idle
<1>19. CASE t \in Worker /\ finish(t)
  BY <1>1, <1>19 DEF finish, Goto, ctxVars, mgrVars, sendVars, Keeps,
     Refers, Locals, Place, Sending, Creating, Resumes, Idle
<1>20. CASE t \in Worker /\ deinit(t)
  BY <1>1, <1>20 DEF deinit, CallLog, CallSend, Goto, ctxVars, mgrVars,
     runVars, sendVars, Keeps, Refers, Locals, Place, Sending, Creating,
     Resumes, Idle
<1>21. CASE t \in Worker /\ unset_inited(t)
  BY <1>1, <1>21 DEF unset_inited, Goto, mgrVars, runVars, sendVars, Keeps,
     Refers, Locals, Place, Sending, Creating, Resumes, Idle
<1>22. CASE t \in Worker /\ repush_context(t)
  BY <1>1, <1>22 DEF repush_context, Goto, ctxVars, mgrVars, runVars,
     sendVars, Keeps, Refers, Locals, Place, Sending, Creating, Resumes,
     Idle
<1>23. CASE t \in Worker /\ shortest(t)
  BY <1>1, <1>23 DEF shortest, Goto, ctxVars, mgrVars, runVars, sendVars,
     Keeps, Refers, Locals, Place, Sending, Creating, Resumes, Idle
<1>24. CASE t = Net /\ response
  BY <1>1, <1>24 DEF response, CallSend, Goto, ctxVars, mgrVars, runVars,
     Keeps, Refers, Locals, Place, Sending, Creating, Resumes, Idle
<1>. QED BY <1>2, <1>3, <1>4, <1>5, <1>6, <1>7, <1>8, <1>9, <1>10, <1>11,
   <1>12, <1>13, <1>14, <1>15, <1>16, <1>17, <1>18, <1>19, <1>20, <1>21,
   <1>22, <1>23, <1>24

\* The steps that do.
LEMMA GrabContextRefs ==
    ASSUME SafeInv, NEW t \in Thread, grab_context(t), NEW c \in Context
    PROVE  RefStep(c)
<1>1. /\ pc \in [Thread -> Label]
      /\ dest \in [Thread -> Context \cup {NoContext}]
      /\ m_ref \in [Context -> Int]
      /\ Main \in Thread /\ Worker \subseteq Thread /\ Main \notin Worker
      /\ NoContext \notin Context
      /\ Locals(t) /\ Place(t)
  BY RefTypes
<1>2. /\ pc[t] = "grab_context" /\ dest[t] \in Context /\ type[t] # "log"
      /\ UNCHANGED <<type, created, running, queue, stolen, m_handle, m_alloc>>
  BY <1>1 DEF grab_context, Locals, Place, mgrVars, runVars, sendVars, Return
<1>3. CASE m_handle[dest[t]]
  <2>1. /\ m_ref' = [m_ref EXCEPT ![dest[t]] = @ + 1]
        /\ pc' = [pc EXCEPT ![t] = "check_valid"]
        /\ UNCHANGED dest
    BY <1>3 DEF grab_context, Goto, sendVars
  <2>2. CASE c = dest[t]
    <3>1. Refers("registered", Main, c) BY <1>3, <2>2 DEF Refers
    <3>2. <<"registered", Main>> \in Held(c)
      BY <1>1, <3>1 DEF Held, RefKind
    <3>3. Takes(c, "grabbed", t)
      BY <1>1, <1>2, <2>1, <2>2, <3>2 DEF Takes, Refers, RefKind
    <3>4. "grabbed" \in RefKind BY DEF RefKind
    <3>. QED BY <3>3, <3>4 DEF RefStep
  <2>3. CASE c # dest[t]
    <3>1. Keeps(c) BY <1>1, <1>2, <2>1, <2>3 DEF Keeps, Refers
    <3>. QED BY <3>1 DEF RefStep
  <2>. QED BY <2>2, <2>3
<1>4. CASE ~m_handle[dest[t]]
  <2>1. /\ UNCHANGED m_ref
        /\ dest' = [dest EXCEPT ![t] = NoContext]
        /\ pc' = [pc EXCEPT ![t] = back[t]]
        /\ back[t] \in Resumes \cup {"idle", "join"}
    BY <1>1, <1>2, <1>4 DEF grab_context, Return, Goto, Locals
  <2>2. Keeps(c) BY <1>1, <1>2, <2>1 DEF Keeps, Refers, Resumes
  <2>. QED BY <2>2 DEF RefStep
<1>. QED BY <1>3, <1>4

\* Once somebody logs, m_logger holds a reference.
LEMMA LogHolds ==
    ASSUME SafeInv, NEW t \in Thread, dest[t] # NoContext, type[t] = "log"
    PROVE  dest[t] = Logger /\ <<"m_logger", Main>> \in Held(Logger)
<1>1. dest[t] = Logger BY RefTypes DEF Place
<1>2. m_alloc[Root] # "none" BY DEF SafeInv, Birth, Start, Booting
<1>3. Main \in Thread BY RefTypes
<1>. QED BY <1>1, <1>2, <1>3 DEF Held, Refers, RefKind

\* push_context takes the reference that travels with the context.
LEMMA PushContextRefs ==
    ASSUME SafeInv, NEW t \in Thread, push_context(t), NEW c \in Context
    PROVE  RefStep(c)
<1>1. /\ pc \in [Thread -> Label]
      /\ m_ref \in [Context -> Int]
      /\ Main \in Thread
      /\ NoContext \notin Context
      /\ Locals(t)
  BY RefTypes
<1>2. /\ pc[t] = "push_context" /\ dest[t] \in Context
      /\ UNCHANGED <<dest, type, created, running, queue, stolen, m_handle,
                     m_alloc>>
      /\ m_ref' = [m_ref EXCEPT ![dest[t]] = @ + 1]
      /\ pc' = [pc EXCEPT ![t] = "push_one"]
  BY <1>1 DEF push_context, Locals, runVars, sendVars, Goto
<1>3. CASE c = dest[t]
  <2>1. Held(c) # {}
    <3>1. CASE type[t] = "log" BY <1>1, <1>2, <1>3, <3>1, LogHolds
    <3>2. CASE type[t] # "log"
      <4>1. Refers("grabbed", t, c) BY <1>2, <1>3, <3>2 DEF Refers
      <4>2. <<"grabbed", t>> \in Held(c) BY <4>1 DEF Held, RefKind
      <4>. QED BY <4>2
    <3>. QED BY <3>1, <3>2
  <2>2. Takes(c, "pushing", t)
    BY <1>1, <1>2, <1>3, <2>1 DEF Takes, Refers, RefKind
  <2>3. "pushing" \in RefKind BY DEF RefKind
  <2>. QED BY <2>2, <2>3 DEF RefStep
<1>4. CASE c # dest[t]
  <2>1. Keeps(c) BY <1>1, <1>2, <1>4 DEF Keeps, Refers
  <2>. QED BY <2>1 DEF RefStep
<1>. QED BY <1>3, <1>4

\* push_one passes it on to the queue.
LEMMA PushOneRefs ==
    ASSUME SafeInv, NEW t \in Thread, push_one(t), NEW c \in Context
    PROVE  RefStep(c)
<1>1. /\ pc \in [Thread -> Label]
      /\ dest \in [Thread -> Context \cup {NoContext}]
      /\ running \in [Worker -> Context \cup {NoContext}]
      /\ Main \in Thread /\ Worker \subseteq Thread
      /\ Main \notin Worker
      /\ NoContext \notin Context
      /\ Locals(t)
  BY RefTypes
<1>2. /\ pc[t] = "push_one"
      /\ UNCHANGED <<type, created, stolen, m_handle, m_alloc, m_ref>>
      /\ \A u \in Thread \ {t} : pc'[u] = pc[u] /\ dest'[u] = dest[u]
      /\ dest'[t] = dest[t] \/ (dest'[t] = NoContext /\ type[t] = "log")
      /\ pc'[t] \in {"sem_post", "loop", "release_dest"} \cup Resumes
                        \cup {"idle", "join"}
      /\ dest[t] = NoContext => t \in Worker /\ dest'[t] = NoContext
  BY <1>1 DEF push_one, AfterPush, EndSend, Return, Goto, sendVars, ctxVars,
     Locals
<1>3. \A w \in Worker : running'[w] = IF w = t /\ dest[t] = NoContext
                                        THEN NoContext ELSE running[w]
  BY <1>1 DEF push_one
<1>4. /\ Pushing(t) \in Context /\ target[t] \in Worker
      /\ \A w \in Worker : \A d :
             Has(queue'[w], d) <=>
                 Has(queue[w], d) \/ (w = target[t] /\ d = Pushing(t))
  BY PushOneMoves DEF SafeInv
<1>5. CASE c = Pushing(t) /\ dest[t] # NoContext
  <2>1. c = dest[t] BY <1>5 DEF Pushing
  <2>2. ~Has(queue[target[t]], c)
    <3>1. Owns("pushed", t, c) BY <1>2, <2>1 DEF Owns
    <3>2. "pushed" \in Kind /\ "queued" \in Kind BY DEF Kind
    <3>3. ~Owns("queued", target[t], c)
      BY <1>1, <1>4, <3>1, <3>2 DEF SafeInv, Ownership, OneOwner
    <3>. QED BY <1>4, <3>3 DEF Owns
  <2>3. "pushing" \in RefKind /\ "queued" \in RefKind BY DEF RefKind
  <2>4. Passes(c, "pushing", t, "queued", target[t])
    BY <1>1, <1>2, <1>3, <1>4, <1>5, <2>1, <2>2, <2>3
    DEF Passes, Refers, Resumes
  <2>. QED BY <1>1, <1>4, <2>3, <2>4 DEF RefStep
<1>6. CASE c = Pushing(t) /\ dest[t] = NoContext
  <2>1. c = running[t] /\ t \in Worker BY <1>2, <1>6 DEF Pushing
  <2>2. ~Has(queue[target[t]], c)
    <3>1. Owns("run", t, c) BY <1>2, <2>1 DEF Owns
    <3>2. "run" \in Kind /\ "queued" \in Kind BY DEF Kind
    <3>3. ~Owns("queued", target[t], c)
      BY <1>1, <1>4, <3>1, <3>2 DEF SafeInv, Ownership, OneOwner
    <3>. QED BY <1>4, <3>3 DEF Owns
  <2>3. "run" \in RefKind /\ "queued" \in RefKind BY DEF RefKind
  <2>4. Passes(c, "run", t, "queued", target[t])
    BY <1>1, <1>2, <1>3, <1>4, <1>6, <2>1, <2>2, <2>3
    DEF Passes, Refers, Resumes
  <2>. QED BY <1>1, <1>4, <2>3, <2>4 DEF RefStep
<1>7. CASE c # Pushing(t)
  <2>1. Keeps(c)
    BY <1>1, <1>2, <1>3, <1>4, <1>7 DEF Keeps, Refers, Resumes, Pushing
  <2>. QED BY <2>1 DEF RefStep
<1>. QED BY <1>5, <1>6, <1>7

\* The end of a send, and of a creation that went wrong.
LEMMA ReleaseDestRefs ==
    ASSUME SafeInv, NEW t \in Thread, release_dest(t), NEW c \in Context
    PROVE  RefStep(c)
<1>1. /\ pc \in [Thread -> Label]
      /\ dest \in [Thread -> Context \cup {NoContext}]
      /\ m_ref \in [Context -> Int]
      /\ m_alloc \in [Context -> {"none", "live", "deleted"}]
      /\ Root \in Context
      /\ NoContext \notin Context
      /\ Locals(t) /\ Place(t)
  BY RefTypes
<1>2. /\ pc[t] = "release_dest" /\ dest[t] \in Context /\ type[t] # "log"
      /\ UNCHANGED <<type, created, running, queue, stolen, m_handle>>
      /\ Release(dest[t])
      /\ dest' = [dest EXCEPT ![t] = NoContext]
      /\ pc' = [pc EXCEPT ![t] = back[t]]
      /\ back[t] \in Resumes \cup {"idle", "join"}
  BY <1>1 DEF release_dest, Locals, Place, runVars, mgrVars, Return, Goto
<1>3. /\ m_alloc'[Root] = "none" <=> m_alloc[Root] = "none"
      /\ \A d \in Context \ {dest[t]} :
             m_ref'[d] = m_ref[d] /\ m_alloc'[d] = m_alloc[d]
  <2>1. m_alloc[dest[t]] # "none"
    BY <1>1, <1>2 DEF SafeInv, Birth, Fresh
  <2>. QED BY <1>1, <1>2, <2>1 DEF Release
<1>4. CASE c = dest[t]
  <2>1. "grabbed" \in RefKind BY DEF RefKind
  <2>2. Released(c) BY <1>1, <1>2, <1>4 DEF Released, Release
  <2>3. Drops(c, "grabbed", t)
    BY <1>1, <1>2, <1>3, <1>4, <2>1, <2>2 DEF Drops, Refers, Resumes
  <2>. QED BY <2>1, <2>3 DEF RefStep
<1>5. CASE c # dest[t]
  <2>1. Keeps(c) BY <1>1, <1>2, <1>3, <1>5 DEF Keeps, Refers, Resumes
  <2>. QED BY <2>1 DEF RefStep
<1>. QED BY <1>4, <1>5

\* The creator's reference becomes that of the send.
LEMMA SetInitedRefs ==
    ASSUME SafeInv, NEW t \in Thread, set_inited(t), NEW c \in Context
    PROVE  RefStep(c)
<1>1. /\ pc \in [Thread -> Label]
      /\ dest \in [Thread -> Context \cup {NoContext}]
      /\ type \in [Thread -> Message]
      /\ created \in [Thread -> Context \cup {NoContext}]
      /\ NoContext \notin Context
      /\ Locals(t) /\ Place(t)
  BY RefTypes
<1>2. /\ pc[t] = "set_inited" /\ created[t] \in Context /\ dest[t] = NoContext
      /\ UNCHANGED <<running, queue, stolen, m_handle, m_alloc, m_ref>>
      /\ dest' = [dest EXCEPT ![t] = created[t]]
      /\ type' = [type EXCEPT ![t] = "init"]
      /\ created' = [created EXCEPT ![t] = NoContext]
      /\ pc' = [pc EXCEPT ![t] = "push_context"]
  BY <1>1 DEF set_inited, SendCreated, Locals, Place, Sending, runVars,
     mgrVars, Goto
<1>3. CASE c = created[t]
  <2>1. "created" \in RefKind /\ "grabbed" \in RefKind BY DEF RefKind
  <2>2. Passes(c, "created", t, "grabbed", t)
    BY <1>1, <1>2, <1>3, <2>1 DEF Passes, Refers
  <2>. QED BY <2>1, <2>2 DEF RefStep
<1>4. CASE c # created[t]
  <2>1. Keeps(c) BY <1>1, <1>2, <1>4 DEF Keeps, Refers
  <2>. QED BY <2>1 DEF RefStep
<1>. QED BY <1>3, <1>4

\* In a creation that fails the registry gives up its reference as well.
LEMMA RetireCreatedRefs ==
    ASSUME SafeInv, Registered, NEW t \in Thread, retire_created(t),
           NEW c \in Context
    PROVE  RefStep(c)
<1>1. /\ pc \in [Thread -> Label]
      /\ dest \in [Thread -> Context \cup {NoContext}]
      /\ type \in [Thread -> Message]
      /\ created \in [Thread -> Context \cup {NoContext}]
      /\ m_handle \in [Context -> BOOLEAN]
      /\ m_ref \in [Context -> Int]
      /\ m_alloc \in [Context -> {"none", "live", "deleted"}]
      /\ Root \in Context
      /\ NoContext \notin Context
      /\ Locals(t) /\ Place(t)
  BY RefTypes
<1>2. /\ pc[t] = "retire_created" /\ created[t] \in Context
      /\ dest[t] = NoContext
      /\ m_handle[created[t]]
      /\ UNCHANGED <<running, queue, stolen>>
      /\ Release(created[t])
      /\ m_handle' = [m_handle EXCEPT ![created[t]] = FALSE]
      /\ dest' = [dest EXCEPT ![t] = created[t]]
      /\ type' = [type EXCEPT ![t] = "init"]
      /\ created' = [created EXCEPT ![t] = NoContext]
      /\ pc' = [pc EXCEPT ![t] = "release_dest"]
  BY <1>1 DEF retire_created, Retire, SendCreated, Locals, Place, Sending,
     runVars, mgrVars, Goto, Registered
<1>3. /\ m_alloc'[Root] = "none" <=> m_alloc[Root] = "none"
      /\ \A d \in Context \ {created[t]} :
             m_ref'[d] = m_ref[d] /\ m_alloc'[d] = m_alloc[d]
  <2>1. m_alloc[created[t]] # "none"
    BY <1>1, <1>2 DEF SafeInv, Birth, Fresh
  <2>. QED BY <1>1, <1>2, <2>1 DEF Release
<1>4. CASE c = created[t]
  <2>1. Released(c) BY <1>1, <1>2, <1>4 DEF Released, Release
  <2>2. Fails(c, t)
    BY <1>1, <1>2, <1>3, <1>4, <2>1 DEF Fails, Refers, RefKind
  <2>. QED BY <2>2 DEF RefStep
<1>5. CASE c # created[t]
  <2>1. Keeps(c) BY <1>1, <1>2, <1>3, <1>5 DEF Keeps, Refers
  <2>. QED BY <2>1 DEF RefStep
<1>. QED BY <1>4, <1>5

\* A worker that takes a context from its queue takes the reference over.
LEMMA TryPopRefs ==
    ASSUME SafeInv, NEW t \in Worker, try_pop_one(t), NEW c \in Context
    PROVE  RefStep(c)
<1>1. /\ pc \in [Thread -> Label]
      /\ running \in [Worker -> Context \cup {NoContext}]
      /\ Worker \subseteq Thread
      /\ NoContext \notin Context
      /\ Place(t)
  BY RefTypes
<1>2. /\ pc[t] = "try_pop_one" /\ running[t] = NoContext
      /\ UNCHANGED <<dest, type, created, stolen, m_handle, m_alloc, m_ref>>
      /\ \A u \in Thread \ {t} : pc'[u] = pc[u]
      /\ pc'[t] \in {"attach", "steal_context"}
  BY <1>1 DEF try_pop_one, Place, Idle, sendVars, ctxVars, Goto
<1>3. CASE queue[t] = << >>
  <2>1. UNCHANGED <<queue, running>> BY <1>3 DEF try_pop_one
  <2>2. Keeps(c) BY <1>1, <1>2, <2>1 DEF Keeps, Refers
  <2>. QED BY <2>2 DEF RefStep
<1>4. CASE queue[t] # << >>
  <2>1. PICK x \in Context : x = running'[t]
    BY <1>4, TryPopMoves DEF SafeInv
  <2>2. /\ \A w \in Worker \ {t} : running'[w] = running[w]
        /\ \A w \in Worker : \A d :
               Has(queue[w], d) <=> Has(queue'[w], d) \/ (w = t /\ d = x)
        /\ ~Has(queue'[t], x)
    BY <1>4, <2>1, TryPopMoves DEF SafeInv, Ownership, QueuesDistinct
  <2>3. CASE c = x
    <3>1. "queued" \in RefKind /\ "run" \in RefKind BY DEF RefKind
    <3>2. Passes(c, "queued", t, "run", t)
      BY <1>1, <1>2, <2>1, <2>2, <2>3, <3>1 DEF Passes, Refers
    <3>. QED BY <1>1, <3>1, <3>2 DEF RefStep
  <2>4. CASE c # x
    <3>1. Keeps(c) BY <1>1, <1>2, <2>1, <2>2, <2>4 DEF Keeps, Refers
    <3>. QED BY <3>1 DEF RefStep
  <2>. QED BY <2>3, <2>4
<1>. QED BY <1>3, <1>4

\* A thief takes over the references of what it steals.
LEMMA StealRefs ==
    ASSUME SafeInv, NEW t \in Worker, steal_context(t), NEW c \in Context
    PROVE  RefStep(c)
<1>1. /\ pc \in [Thread -> Label]
      /\ running \in [Worker -> Context \cup {NoContext}]
      /\ Worker \subseteq Thread /\ Main \notin Worker
      /\ NoContext \notin Context
      /\ Place(t)
  BY RefTypes
<1>2. /\ pc[t] = "steal_context" /\ running[t] = NoContext /\ stolen[t] = << >>
      /\ UNCHANGED <<dest, type, created, m_handle, m_alloc, m_ref>>
  BY <1>1 DEF steal_context, Place, Idle, sendVars, ctxVars
<1>3. CASE scan[t] < m_worker_num /\ StealFrom(t, scan[t])
  <2>1. PICK v \in Worker : v = scan[t] BY <1>3, ScanWorker DEF SafeInv
  <2>2. /\ v # t
        /\ running'[t] \in Context
        /\ \A w \in Worker \ {t} : running'[w] = running[w]
        /\ \A w \in Worker \ {t} : stolen'[w] = stolen[w]
        /\ \A w \in Worker \ {v} : queue'[w] = queue[w]
        /\ \A d : Has(queue[v], d) <=> \/ Has(queue'[v], d)
                                       \/ Has(stolen'[t], d)
                                       \/ d = running'[t]
        /\ \A d : ~ (Has(queue'[v], d) /\ Has(stolen'[t], d))
        /\ ~Has(queue'[v], running'[t])
        /\ ~Has(stolen'[t], running'[t])
        /\ pc' = [pc EXCEPT ![t] = pc'[t]]
        /\ pc'[t] \in {"attach", "push_many"}
    BY <1>2, <1>3, <2>1, StealMoves DEF SafeInv, Ownership, QueuesDistinct
  <2>3. \A u \in Thread \ {t} : pc'[u] = pc[u] BY <1>1, <2>2
  <2>4. \A d : ~Has(stolen[t], d) BY <1>2 DEF Has
  <2>5. PICK x \in Context : x = running'[t] BY <2>2
  <2>6. {"queued", "run", "carried"} \subseteq RefKind BY DEF RefKind
  <2>7. CASE c = x
    <3>1. Passes(c, "queued", v, "run", t)
      BY <1>1, <1>2, <2>2, <2>3, <2>4, <2>5, <2>6, <2>7 DEF Passes, Refers
    <3>. QED BY <1>1, <2>6, <3>1 DEF RefStep
  <2>8. CASE c # x /\ Has(stolen'[t], c)
    <3>1. Passes(c, "queued", v, "carried", t)
      BY <1>1, <1>2, <2>2, <2>3, <2>4, <2>5, <2>6, <2>8 DEF Passes, Refers
    <3>. QED BY <1>1, <2>6, <3>1 DEF RefStep
  <2>9. CASE c # x /\ ~Has(stolen'[t], c)
    <3>1. Keeps(c)
      BY <1>1, <1>2, <2>2, <2>3, <2>4, <2>5, <2>9 DEF Keeps, Refers
    <3>. QED BY <3>1 DEF RefStep
  <2>. QED BY <2>7, <2>8, <2>9
<1>4. CASE ~ (scan[t] < m_worker_num /\ StealFrom(t, scan[t]))
  <2>1. UNCHANGED <<queue, running, stolen>>
    BY <1>4 DEF steal_context
  <2>2. UNCHANGED pc \/ pc' = [pc EXCEPT ![t] = "wait"]
    BY <1>4 DEF steal_context, Goto
  <2>3. Keeps(c) BY <1>1, <1>2, <2>1, <2>2 DEF Keeps, Refers
  <2>. QED BY <2>3 DEF RefStep
<1>. QED BY <1>3, <1>4

\* And puts them into its own queue.
LEMMA PushManyRefs ==
    ASSUME SafeInv, NEW t \in Worker, push_many(t), NEW c \in Context
    PROVE  RefStep(c)
<1>1. /\ pc \in [Thread -> Label]
      /\ Worker \subseteq Thread
  BY RefTypes
<1>2. /\ pc[t] = "push_many"
      /\ UNCHANGED <<dest, type, created, running, m_handle, m_alloc, m_ref>>
      /\ pc' = [pc EXCEPT ![t] = "attach"]
  BY DEF push_many, sendVars, ctxVars, Goto
<1>3. /\ \A d \in Context : ~ (Has(queue[t], d) /\ Has(stolen[t], d))
      /\ Distinct(queue[t]) /\ Distinct(stolen[t])
  <2>1. {"queued", "carried"} \subseteq Kind BY DEF Kind
  <2>2. ASSUME NEW d \in Context, Has(queue[t], d), Has(stolen[t], d)
        PROVE  FALSE
    <3>1. Owns("queued", t, d) /\ Owns("carried", t, d) BY <2>2 DEF Owns
    <3>. QED BY <1>1, <2>1, <3>1 DEF SafeInv, Ownership, OneOwner
  <2>. QED BY <2>2 DEF SafeInv, Ownership, QueuesDistinct
<1>4. /\ stolen'[t] = << >>
      /\ \A w \in Worker \ {t} :
             stolen'[w] = stolen[w] /\ queue'[w] = queue[w]
      /\ \A d : Has(queue'[t], d) <=> Has(queue[t], d) \/ Has(stolen[t], d)
  BY <1>3, PushManyMoves DEF SafeInv
<1>5. \A d : ~Has(stolen'[t], d) BY <1>4 DEF Has
<1>6. CASE Has(stolen[t], c)
  <2>1. "carried" \in RefKind /\ "queued" \in RefKind BY DEF RefKind
  <2>2. Passes(c, "carried", t, "queued", t)
    BY <1>1, <1>2, <1>3, <1>4, <1>5, <1>6, <2>1 DEF Passes, Refers
  <2>. QED BY <1>1, <2>1, <2>2 DEF RefStep
<1>7. CASE ~Has(stolen[t], c)
  <2>1. Keeps(c) BY <1>1, <1>2, <1>4, <1>5, <1>7 DEF Keeps, Refers
  <2>. QED BY <2>1 DEF RefStep
<1>. QED BY <1>6, <1>7

\* A worker that is done with a context releases it.
LEMMA ReleaseRunningRefs ==
    ASSUME SafeInv, NEW t \in Worker, release_running(t), NEW c \in Context
    PROVE  RefStep(c)
<1>1. /\ pc \in [Thread -> Label]
      /\ running \in [Worker -> Context \cup {NoContext}]
      /\ m_ref \in [Context -> Int]
      /\ m_alloc \in [Context -> {"none", "live", "deleted"}]
      /\ Root \in Context /\ Worker \subseteq Thread
      /\ NoContext \notin Context
      /\ Locals(t)
  BY RefTypes
<1>2. /\ pc[t] = "release_running" /\ running[t] \in Context
      /\ UNCHANGED <<dest, type, created, queue, stolen, m_handle>>
      /\ Release(running[t])
      /\ running' = [running EXCEPT ![t] = NoContext]
      /\ pc' = [pc EXCEPT ![t] = "loop"]
  BY <1>1 DEF release_running, Locals, Idle, sendVars, mgrVars, Goto
<1>3. /\ m_alloc'[Root] = "none" <=> m_alloc[Root] = "none"
      /\ \A d \in Context \ {running[t]} :
             m_ref'[d] = m_ref[d] /\ m_alloc'[d] = m_alloc[d]
  <2>1. m_alloc[running[t]] # "none"
    BY <1>1, <1>2 DEF SafeInv, Birth, Fresh
  <2>. QED BY <1>1, <1>2, <2>1 DEF Release
<1>4. CASE c = running[t]
  <2>1. "run" \in RefKind BY DEF RefKind
  <2>2. Released(c) BY <1>1, <1>2, <1>4 DEF Released, Release
  <2>3. Drops(c, "run", t)
    BY <1>1, <1>2, <1>3, <1>4, <2>1, <2>2 DEF Drops, Refers
  <2>. QED BY <1>1, <2>1, <2>3 DEF RefStep
<1>5. CASE c # running[t]
  <2>1. Keeps(c) BY <1>1, <1>2, <1>3, <1>5 DEF Keeps, Refers
  <2>. QED BY <2>1 DEF RefStep
<1>. QED BY <1>4, <1>5

\* The registry gives up its reference to a context that is destroyed.
LEMMA RetireContextRefs ==
    ASSUME SafeInv, Registered, NEW t \in Worker, retire_context(t),
           NEW c \in Context
    PROVE  RefStep(c)
<1>1. /\ pc \in [Thread -> Label]
      /\ m_handle \in [Context -> BOOLEAN]
      /\ m_ref \in [Context -> Int]
      /\ m_alloc \in [Context -> {"none", "live", "deleted"}]
      /\ Root \in Context /\ Worker \subseteq Thread /\ Main \in Thread
      /\ NoContext \notin Context
      /\ Locals(t)
  BY RefTypes
<1>2. /\ pc[t] = "retire_context" /\ running[t] \in Context
      /\ UNCHANGED <<dest, type, created, running, queue, stolen>>
      /\ Release(running[t])
      /\ m_handle' = [m_handle EXCEPT ![running[t]] = FALSE]
      /\ pc' = [pc EXCEPT ![t] = "check_alive"]
  BY <1>1 DEF retire_context, Retire, Locals, Idle, sendVars, mgrVars,
     runVars, Goto
<1>3. m_handle[running[t]] BY <1>1, <1>2 DEF Registered, Unretired
<1>4. /\ m_alloc'[Root] = "none" <=> m_alloc[Root] = "none"
      /\ \A d \in Context \ {running[t]} :
             m_ref'[d] = m_ref[d] /\ m_alloc'[d] = m_alloc[d]
  <2>1. m_alloc[running[t]] # "none"
    BY <1>1, <1>2 DEF SafeInv, Birth, Fresh
  <2>. QED BY <1>1, <1>2, <2>1 DEF Release
<1>5. CASE c = running[t]
  <2>1. "registered" \in RefKind BY DEF RefKind
  <2>2. Released(c) BY <1>1, <1>2, <1>5 DEF Released, Release
  <2>3. Drops(c, "registered", Main)
    BY <1>1, <1>2, <1>3, <1>4, <1>5, <2>1, <2>2 DEF Drops, Refers
  <2>. QED BY <1>1, <2>1, <2>3 DEF RefStep
<1>6. CASE c # running[t]
  <2>1. Keeps(c) BY <1>1, <1>2, <1>4, <1>6 DEF Keeps, Refers
  <2>. QED BY <2>1 DEF RefStep
<1>. QED BY <1>5, <1>6

\* m_logger takes a reference of its own.
LEMMA GrabLoggerRefs ==
    ASSUME SafeInv, grab_logger, NEW c \in Context
    PROVE  RefStep(c)
<1>1. /\ pc \in [Thread -> Label]
      /\ m_ref \in [Context -> Int]
      /\ Main \in Thread /\ Logger \in Context
  BY RefTypes
<1>2. /\ pc[Main] = "grab_logger"
      /\ UNCHANGED <<dest, type, created, running, queue, stolen, m_handle,
                     m_alloc>>
      /\ m_ref' = [m_ref EXCEPT ![Logger] = @ + 1]
      /\ pc' = [pc EXCEPT ![Main] = "boot_root"]
  BY DEF grab_logger, Goto, sendVars, mgrVars, runVars
<1>3. m_alloc[Root] = "none" /\ m_handle[Logger]
  BY <1>1, <1>2 DEF SafeInv, Birth, Start, Booting, BootLabels
<1>4. CASE c = Logger
  <2>1. {"m_logger", "registered"} \subseteq RefKind BY DEF RefKind
  <2>2. Refers("registered", Main, c) BY <1>3, <1>4 DEF Refers
  <2>3. <<"registered", Main>> \in Held(c) BY <1>1, <2>1, <2>2 DEF Held
  <2>4. Takes(c, "m_logger", Main)
    BY <1>1, <1>2, <1>3, <1>4, <2>1, <2>3 DEF Takes, Refers
  <2>. QED BY <1>1, <2>1, <2>4 DEF RefStep
<1>5. CASE c # Logger
  <2>1. Keeps(c) BY <1>1, <1>2, <1>5 DEF Keeps, Refers
  <2>. QED BY <2>1 DEF RefStep
<1>. QED BY <1>4, <1>5

\* A new context has the reference of the registry and that of its creator.
LEMMA RegisterRefs ==
    ASSUME SafeInv, NEW t \in Thread, NEW x \in Context, Registers(t, x),
           NEW c \in Context
    PROVE  RefStep(c)
<1>1. /\ pc \in [Thread -> Label]
      /\ dest \in [Thread -> Context \cup {NoContext}]
      /\ created \in [Thread -> Context \cup {NoContext}]
      /\ m_handle \in [Context -> BOOLEAN]
      /\ m_ref \in [Context -> Int]
      /\ m_alloc \in [Context -> {"none", "live", "deleted"}]
      /\ Root \in Context /\ Logger \in Context /\ Root # Logger
      /\ Worker \subseteq Thread /\ Main \in Thread /\ Main \notin Worker
      /\ NoContext \notin Context
  BY RefTypes
<1>2. /\ m_alloc[x] = "none" /\ created[t] = NoContext /\ dest[t] = NoContext
      /\ UNCHANGED <<dest, type, running, queue, stolen>>
      /\ m_alloc' = [m_alloc EXCEPT ![x] = "live"]
      /\ m_ref' = [m_ref EXCEPT ![x] = 2]
      /\ m_handle' = [m_handle EXCEPT ![x] = TRUE]
      /\ created' = [created EXCEPT ![t] = x]
      /\ pc' = [pc EXCEPT ![t] = "init"]
  BY DEF Registers, Register, Goto, sendVars, mgrVars, runVars
<1>3. /\ pc[t] # "push_one" /\ pc[t] # "grab_context"
      /\ IF t \in Worker
         THEN pc[t] # "boot_root" /\ x # Root /\ x # Logger
         ELSE /\ t = Main
              /\ \/ pc[Main] = "boot_logger" /\ x = Logger
                 \/ pc[Main] = "boot_root" /\ x = Root
  BY DEF Registers
<1>4. /\ Fresh(x)
      /\ pc[Main] \in BootLabels => m_alloc[Root] = "none"
      /\ pc[Main] = "boot_logger" <=> m_alloc[Logger] = "none"
  BY <1>2 DEF SafeInv, Birth, Start
<1>5. \A d \in Context : \/ d = Logger /\ pc'[Main] = "boot_root"
                         \/ d = Logger /\ m_alloc'[Root] # "none"
                         <=> \/ d = Logger /\ pc[Main] = "boot_root"
                             \/ d = Logger /\ m_alloc[Root] # "none"
  <2>1. CASE t \in Worker BY <1>1, <1>2, <1>3, <2>1
  <2>2. CASE t = Main /\ pc[Main] = "boot_logger"
    BY <1>1, <1>2, <1>3, <1>4, <2>2 DEF BootLabels
  <2>3. CASE t = Main /\ pc[Main] = "boot_root"
    BY <1>1, <1>2, <1>3, <1>4, <2>3 DEF BootLabels
  <2>. QED BY <1>3, <2>1, <2>2, <2>3
<1>6. CASE c = x
  <2>1. ~Refers("m_logger", Main, c)
    BY <1>1, <1>2, <1>4, <1>6 DEF Refers, BootLabels
  <2>2. ASSUME NEW k \in RefKind, NEW u \in Thread
        PROVE  Refers(k, u, c)' <=> \/ k = "registered" /\ u = Main
                                    \/ k = "created" /\ u = t
    <3>1. CASE k = "registered" BY <1>1, <1>2, <1>6, <3>1 DEF Refers
    <3>2. CASE k = "m_logger" BY <1>1, <1>5, <2>1, <3>2 DEF Refers
    <3>3. CASE k = "grabbed" BY <1>1, <1>2, <1>4, <1>6, <3>3 DEF Refers, Fresh
    <3>4. CASE k = "created" BY <1>1, <1>2, <1>4, <1>6, <3>4 DEF Refers, Fresh
    <3>5. CASE k = "pushing" BY <1>1, <1>2, <1>4, <1>6, <3>5 DEF Refers, Fresh
    <3>6. CASE k \in {"run", "queued", "carried"}
      BY <1>1, <1>2, <1>4, <1>6, <3>6 DEF Refers, Fresh
    <3>. QED BY <3>1, <3>2, <3>3, <3>4, <3>5, <3>6 DEF RefKind
  <2>3. Begins(c, t) BY <1>1, <1>2, <1>6, <2>2 DEF Begins
  <2>. QED BY <2>3 DEF RefStep
<1>7. CASE c # x
  <2>1. Keeps(c)
    BY <1>1, <1>2, <1>3, <1>5, <1>7 DEF Keeps, Refers
  <2>. QED BY <2>1 DEF RefStep
<1>. QED BY <1>6, <1>7

\* What a Lua context does while it handles a message, but create another.
LEMMA LuaActsRefs ==
    ASSUME SafeInv, NEW t \in Worker, lua_acts(t), UNCHANGED created,
           NEW c \in Context
    PROVE  Keeps(c)
<1>1. /\ pc \in [Thread -> Label]
      /\ dest \in [Thread -> Context \cup {NoContext}]
      /\ type \in [Thread -> Message]
      /\ created \in [Thread -> Context \cup {NoContext}]
      /\ Worker \subseteq Thread /\ Main \notin Worker
      /\ Logger \in Context /\ NoContext \notin Context
      /\ Place(t)
  BY RefTypes
<1>2. pc[t] = "handle" /\ dest[t] = NoContext /\ created[t] = NoContext
  BY <1>1 DEF lua_acts, Place, Sending, Creating
<1>3. ~ \E x \in Context : Register(t, x)
  BY <1>1, <1>2 DEF Register
<1>4. UNCHANGED <<m_handle, m_alloc, m_ref, running, queue, stolen>>
  BY <1>3 DEF lua_acts, ctxVars, mgrVars, runVars
<1>5. /\ \A u \in Thread \ {t} : /\ pc'[u] = pc[u] /\ dest'[u] = dest[u]
                                 /\ type'[u] = type[u]
      /\ \/ pc'[t] = "grab_context"
         \/ pc'[t] = "check_valid" /\ type'[t] = "log"
  BY <1>1, <1>3 DEF lua_acts, CallSend, CallLog, Goto
<1>. QED BY <1>1, <1>2, <1>4, <1>5 DEF Keeps, Refers

\* Every step of the specification is one of these.
LEMMA RefSteps ==
    ASSUME SafeInv, Registered, Next, NEW c \in Context
    PROVE  RefStep(c)
<1>1. Worker \subseteq Thread /\ Main \in Thread /\ Net \in Thread
  BY Types DEF SafeInv
<1>2. Keeps(c) => RefStep(c) BY DEF RefStep
<1>3. ASSUME NEW t \in Thread, Send(t) PROVE RefStep(c)
  BY <1>2, <1>3, RefsKept, GrabContextRefs, PushContextRefs, PushOneRefs,
     ReleaseDestRefs DEF Send
<1>4. ASSUME NEW t \in Thread, Create(t) PROVE RefStep(c)
  BY <1>2, <1>4, RefsKept, SetInitedRefs, RetireCreatedRefs DEF Create
<1>5. ASSUME NEW t \in Thread, Stop(t) PROVE RefStep(c)
  BY <1>2, <1>5, RefsKept DEF Stop
<1>6. ASSUME NEW t \in Worker, WorkerProcess(t) PROVE RefStep(c)
  <2>1. CASE lua_acts(t)
    <3>1. CASE UNCHANGED created BY <1>2, <2>1, <3>1, LuaActsRefs
    <3>2. CASE ~ UNCHANGED created
      <4>1. PICK x \in Context \ {Logger, Root} : Register(t, x)
        BY <2>1, <3>2 DEF lua_acts
      <4>2. /\ pc[t] = "handle" /\ running[t] # Logger
            /\ message[t] # "destroy"
        BY <2>1 DEF lua_acts
      <4>3. created[t] = NoContext /\ dest[t] = NoContext
        BY <1>1, <4>2, RefTypes DEF Place, Sending, Creating
      <4>4. Registers(t, x) BY <4>1, <4>2, <4>3 DEF Registers
      <4>. QED BY <1>1, <4>4, RegisterRefs
    <3>. QED BY <3>1, <3>2
  <2>2. CASE \/ try_pop_one(t) \/ steal_context(t) \/ push_many(t)
             \/ release_running(t) \/ retire_context(t)
    BY <2>2, TryPopRefs, StealRefs, PushManyRefs, ReleaseRunningRefs,
       RetireContextRefs
  <2>3. CASE \/ loop(t) \/ wait(t) \/ attach(t) \/ turn(t)
             \/ pop_message(t) \/ handle(t) \/ drop(t) \/ finish(t)
             \/ deinit(t) \/ unset_inited(t) \/ repush_context(t)
             \/ shortest(t)
    BY <1>1, <1>2, <2>3, RefsKept
  <2>. QED BY <1>6, <2>1, <2>2, <2>3 DEF WorkerProcess
<1>7. ASSUME Boot PROVE RefStep(c)
  <2>1. created[Main] = NoContext /\ dest[Main] = NoContext
    <3>1. pc[Main] \in BootLabels
      BY <1>7 DEF Boot, boot_logger, boot_root, grab_logger, BootLabels
    <3>. QED BY <1>1, <3>1, RefTypes DEF Place, Sending, Creating, BootLabels
  <2>2. Main \notin Worker /\ Logger \in Context /\ Root \in Context
    BY Types DEF SafeInv
  <2>3. CASE grab_logger BY <2>3, GrabLoggerRefs
  <2>4. CASE boot_logger
    <3>1. Registers(Main, Logger)
      BY <2>1, <2>2, <2>4 DEF boot_logger, Registers
    <3>. QED BY <1>1, <2>2, <3>1, RegisterRefs
  <2>5. CASE boot_root
    <3>1. Registers(Main, Root) BY <2>1, <2>2, <2>5 DEF boot_root, Registers
    <3>. QED BY <1>1, <2>2, <3>1, RegisterRefs
  <2>. QED BY <1>7, <2>3, <2>4, <2>5 DEF Boot
<1>8. ASSUME response PROVE RefStep(c) BY <1>1, <1>2, <1>8, RefsKept
<1>. QED BY <1>3, <1>4, <1>5, <1>6, <1>7, <1>8 DEF Next, Step

-----------------------------------------------------------------------------
(* Nobody else retires the context a thread works on.                       *)

RegisteredAt(t) ==
    /\ created[t] # NoContext => m_handle[created[t]]
    /\ /\ t \in Worker /\ running[t] # NoContext
       /\ \/ pc[t] \in Unretired
          \/ dest[t] # NoContext /\ back[t] \in Unretired
       => m_handle[running[t]]

\* Two threads work on two contexts.
LEMMA WorkedOnce ==
    ASSUME SafeInv, NEW t \in Thread, NEW u \in Thread
    PROVE  /\ created[t] # NoContext /\ created[t] = created[u] => t = u
           /\ /\ t \in Worker /\ running[t] # NoContext
              /\ pc[t] # "release_running"
              => /\ created[u] # running[t]
                 /\ /\ u \in Worker /\ running[u] = running[t]
                    /\ pc[u] # "release_running"
                    => t = u
<1>1. /\ created \in [Thread -> Context \cup {NoContext}]
      /\ running \in [Worker -> Context \cup {NoContext}]
      /\ OneOwner
  BY Types DEF SafeInv, Ownership
<1>2. "pushed" \in Kind /\ "run" \in Kind BY DEF Kind
<1>3. ASSUME created[t] # NoContext, created[t] = created[u] PROVE t = u
  <2>1. Owns("pushed", t, created[t]) /\ Owns("pushed", u, created[t])
    BY <1>3 DEF Owns
  <2>. QED BY <1>1, <1>2, <1>3, <2>1 DEF OneOwner
<1>4. ASSUME t \in Worker, running[t] # NoContext, pc[t] # "release_running"
      PROVE  /\ created[u] # running[t]
             /\ /\ u \in Worker /\ running[u] = running[t]
                /\ pc[u] # "release_running"
                => t = u
  <2>1. running[t] \in Context /\ Owns("run", t, running[t])
    BY <1>1, <1>4 DEF Owns
  <2>2. created[u] = running[t] => Owns("pushed", u, running[t]) BY DEF Owns
  <2>3. u \in Worker /\ running[u] = running[t] /\ pc[u] # "release_running"
            => Owns("run", u, running[t])
    BY DEF Owns
  <2>. QED BY <1>1, <1>2, <2>1, <2>2, <2>3 DEF OneOwner
<1>. QED BY <1>3, <1>4

\* Every step keeps them registered.
LEMMA RegisteredNext ==
    ASSUME SafeInv, Registered, Next
    PROVE  Registered'
<1>. SUFFICES ASSUME NEW u \in Thread PROVE RegisteredAt(u)'
  BY DEF Registered, RegisteredAt
<1>1. /\ pc \in [Thread -> Label]
      /\ dest \in [Thread -> Context \cup {NoContext}]
      /\ back \in [Thread -> Label]
      /\ created \in [Thread -> Context \cup {NoContext}]
      /\ running \in [Worker -> Context \cup {NoContext}]
      /\ m_handle \in [Context -> BOOLEAN]
      /\ Worker \subseteq Thread /\ Main \in Thread /\ Net \in Thread
      /\ Main \notin Worker /\ Net \notin Worker
      /\ Logger \in Context /\ Root \in Context
      /\ NoContext \notin Context
      /\ \A t \in Thread : Locals(t) /\ Place(t) /\ RegisteredAt(t)
  BY RefTypes, Types DEF Registered, RegisteredAt, SafeInv
<1>2. \A t \in Thread :
          /\ created[t] # NoContext /\ created[t] = created[u] => t = u
          /\ /\ t \in Worker /\ running[t] # NoContext
             /\ pc[t] # "release_running"
             => /\ created[u] # running[t]
                /\ /\ u \in Worker /\ running[u] = running[t]
                   /\ pc[u] # "release_running"
                   => t = u
          /\ /\ u \in Worker /\ running[u] # NoContext
             /\ pc[u] # "release_running"
             => created[t] # running[u]
  BY WorkedOnce
<1>3. ASSUME NEW t \in Thread, grab_context(t) PROVE RegisteredAt(u)'
  BY <1>1, <1>3 DEF grab_context, Goto, Return, runVars, sendVars,
     RegisteredAt, Unretired, Locals, Place, Sending, Creating, Resumes,
     Idle
<1>4. ASSUME NEW t \in Thread, check_valid(t) PROVE RegisteredAt(u)'
  BY <1>1, <1>4 DEF check_valid, EndSend, Goto, IsValid, Return, ctxVars,
     runVars, sendVars, RegisteredAt, Unretired, Locals, Place, Sending,
     Creating, Resumes, Idle
<1>5. ASSUME NEW t \in Thread, push_message(t) PROVE RegisteredAt(u)'
  BY <1>1, <1>5 DEF push_message, EndSend, Goto, Return, runVars, sendVars,
     RegisteredAt, Unretired, Locals, Place, Sending, Creating, Resumes,
     Idle
<1>6. ASSUME NEW t \in Thread, push_context(t) PROVE RegisteredAt(u)'
  BY <1>1, <1>6 DEF push_context, Goto, runVars, sendVars, RegisteredAt,
     Unretired, Locals, Place, Sending, Creating, Resumes, Idle
<1>7. ASSUME NEW t \in Thread, push_one(t) PROVE RegisteredAt(u)'
  BY <1>1, <1>7 DEF push_one, AfterPush, EndSend, Goto, Return, ctxVars,
     sendVars, RegisteredAt, Unretired, Locals, Place, Sending, Creating,
     Resumes, Idle
<1>8. ASSUME NEW t \in Thread, sem_post(t) PROVE RegisteredAt(u)'
  BY <1>1, <1>8 DEF sem_post, AfterPush, EndSend, Goto, Return, ctxVars,
     runVars, sendVars, RegisteredAt, Unretired, Locals, Place, Sending,
     Creating, Resumes, Idle
<1>9. ASSUME NEW t \in Thread, release_dest(t) PROVE RegisteredAt(u)'
  BY <1>1, <1>9 DEF release_dest, Goto, Release, Return, runVars,
     RegisteredAt, Unretired, Locals, Place, Sending, Creating, Resumes,
     Idle
<1>10. ASSUME NEW t \in Thread, init(t) PROVE RegisteredAt(u)'
  BY <1>1, <1>10 DEF init, CallLog, Goto, ctxVars, runVars, sendVars,
     RegisteredAt, Unretired, Locals, Place, Sending, Creating, Resumes,
     Idle
<1>11. ASSUME NEW t \in Thread, lua_ctx_init(t) PROVE RegisteredAt(u)'
  BY <1>1, <1>11 DEF lua_ctx_init, Goto, runVars, sendVars, RegisteredAt,
     Unretired, Locals, Place, Sending, Creating, Resumes, Idle
<1>12. ASSUME NEW t \in Thread, set_inited(t) PROVE RegisteredAt(u)'
  BY <1>1, <1>12 DEF set_inited, Goto, SendCreated, runVars, RegisteredAt,
     Unretired, Locals, Place, Sending, Creating, Resumes, Idle
<1>13. ASSUME NEW t \in Thread, retire_created(t) PROVE RegisteredAt(u)'
  <2>1. /\ pc[t] = "retire_created" /\ created[t] \in Context
        /\ m_handle' = [m_handle EXCEPT ![created[t]] = FALSE]
        /\ dest' = [dest EXCEPT ![t] = created[t]]
        /\ back' = [back EXCEPT ![t] = "check_alive"]
        /\ created' = [created EXCEPT ![t] = NoContext]
        /\ pc' = [pc EXCEPT ![t] = "release_dest"]
        /\ UNCHANGED running
    BY <1>1, <1>13 DEF retire_created, Retire, SendCreated, Goto, runVars,
       Locals
  <2>2. CASE u = t BY <1>1, <2>1, <2>2 DEF RegisteredAt, Unretired
  <2>3. CASE u # t
    <3>1. created[u] # NoContext => created[u] # created[t]
      BY <1>2, <2>1, <2>3
    <3>2. \/ pc[u] \in Unretired
          \/ dest[u] # NoContext /\ back[u] \in Unretired
          => pc[u] # "release_running"
      BY <1>1 DEF Place, Sending, Unretired
    <3>3. /\ u \in Worker /\ running[u] # NoContext
          /\ pc[u] # "release_running"
          => running[u] # created[t]
      BY <1>2
    <3>. QED BY <1>1, <2>1, <2>3, <3>1, <3>2, <3>3 DEF RegisteredAt
  <2>. QED BY <2>2, <2>3
<1>14. ASSUME NEW t \in Thread, check_load(t) PROVE RegisteredAt(u)'
  BY <1>1, <1>14 DEF check_load, AfterCreate, Goto, ctxVars, runVars,
     sendVars, RegisteredAt, Unretired, Locals, Place, Sending, Creating,
     Resumes, Idle
<1>15. ASSUME NEW t \in Thread, start_worker(t) PROVE RegisteredAt(u)'
  BY <1>1, <1>15 DEF start_worker, AfterCreate, Goto, ctxVars, runVars,
     sendVars, RegisteredAt, Unretired, Locals, Place, Sending, Creating,
     Resumes, Idle
<1>16. ASSUME NEW t \in Thread, check_alive(t) PROVE RegisteredAt(u)'
  BY <1>1, <1>16 DEF check_alive, AfterAlive, CallSend, Goto, ctxVars,
     runVars, sendVars, RegisteredAt, Unretired, Locals, Place, Sending,
     Creating, Resumes, Idle
<1>17. ASSUME NEW t \in Thread, stop(t) PROVE RegisteredAt(u)'
  BY <1>1, <1>17 DEF stop, AfterAlive, Goto, ctxVars, runVars, sendVars,
     RegisteredAt, Unretired, Locals, Place, Sending, Creating, Resumes,
     Idle
<1>18. ASSUME NEW t \in Thread, wakeup(t) PROVE RegisteredAt(u)'
  BY <1>1, <1>18 DEF wakeup, AfterAlive, Goto, ctxVars, runVars, sendVars,
     RegisteredAt, Unretired, Locals, Place, Sending, Creating, Resumes,
     Idle
<1>19. ASSUME NEW t \in Worker, loop(t) PROVE RegisteredAt(u)'
  BY <1>1, <1>19 DEF loop, Goto, ctxVars, runVars, sendVars, RegisteredAt,
     Unretired, Locals, Place, Sending, Creating, Resumes, Idle
<1>20. ASSUME NEW t \in Worker, try_pop_one(t) PROVE RegisteredAt(u)'
  BY <1>1, <1>20 DEF try_pop_one, Goto, ctxVars, sendVars, RegisteredAt,
     Unretired, Locals, Place, Sending, Creating, Resumes, Idle
<1>21. ASSUME NEW t \in Worker, steal_context(t) PROVE RegisteredAt(u)'
  <2>1. /\ pc[t] = "steal_context" /\ dest[t] = NoContext
        /\ UNCHANGED <<dest, back, created, m_handle>>
    BY <1>1, <1>21 DEF steal_context, ctxVars, sendVars, Place, Sending
  <2>2. /\ pc'[t] \in {"push_many", "attach", "steal_context", "wait"}
        /\ \A v \in Thread \ {t} : pc'[v] = pc[v]
        /\ \A v \in Worker \ {t} : running'[v] = running[v]
    <3>1. CASE StealFrom(t, scan[t])
      <4>1. /\ running' = [running EXCEPT ![t] = Head(queue[scan[t]])]
            /\ \E l \in {"push_many", "attach"} : pc' = [pc EXCEPT ![t] = l]
        BY <3>1 DEF StealFrom, Goto
      <4>. QED BY <1>1, <4>1
    <3>2. CASE ~StealFrom(t, scan[t])
      BY <1>1, <1>21, <2>1, <3>2 DEF steal_context, Goto
    <3>. QED BY <3>1, <3>2
  <2>. QED BY <1>1, <2>1, <2>2 DEF RegisteredAt, Unretired
<1>22. ASSUME NEW t \in Worker, push_many(t) PROVE RegisteredAt(u)'
  BY <1>1, <1>22 DEF push_many, Goto, ctxVars, sendVars, RegisteredAt,
     Unretired, Locals, Place, Sending, Creating, Resumes, Idle
<1>23. ASSUME NEW t \in Worker, wait(t) PROVE RegisteredAt(u)'
  BY <1>1, <1>23 DEF wait, Goto, ctxVars, runVars, sendVars, RegisteredAt,
     Unretired, Locals, Place, Sending, Creating, Resumes, Idle
<1>24. ASSUME NEW t \in Worker, attach(t) PROVE RegisteredAt(u)'
  BY <1>1, <1>24 DEF attach, Goto, sendVars, RegisteredAt, Unretired,
     Locals, Place, Sending, Creating, Resumes, Idle
<1>25. ASSUME NEW t \in Worker, turn(t) PROVE RegisteredAt(u)'
  BY <1>1, <1>25 DEF turn, Goto, IsValid, MayGoOn, runVars, sendVars,
     RegisteredAt, Unretired, Locals, Place, Sending, Creating, Resumes,
     Idle
<1>26. ASSUME NEW t \in Worker, pop_message(t) PROVE RegisteredAt(u)'
  BY <1>1, <1>26 DEF pop_message, Goto, IsValid, sendVars, RegisteredAt,
     Unretired, Locals, Place, Sending, Creating, Resumes, Idle
<1>27. ASSUME NEW t \in Worker, release_running(t) PROVE RegisteredAt(u)'
  BY <1>1, <1>27 DEF release_running, Goto, Release, sendVars, RegisteredAt,
     Unretired, Locals, Place, Sending, Creating, Resumes, Idle
<1>28. ASSUME NEW t \in Worker, lua_acts(t) PROVE RegisteredAt(u)'
  BY <1>1, <1>28 DEF lua_acts, CallLog, CallSend, Goto, Register, ctxVars,
     runVars, sendVars, RegisteredAt, Unretired, Locals, Place, Sending,
     Creating, Resumes, Idle
<1>29. ASSUME NEW t \in Worker, handle(t) PROVE RegisteredAt(u)'
  BY <1>1, <1>29 DEF handle, Goto, ctxVars, runVars, sendVars, RegisteredAt,
     Unretired, Locals, Place, Sending, Creating, Resumes, Idle
<1>30. ASSUME NEW t \in Worker, drop(t) PROVE RegisteredAt(u)'
  BY <1>1, <1>30 DEF drop, CallSend, Goto, ctxVars, runVars, sendVars,
     RegisteredAt, Unretired, Locals, Place, Sending, Creating, Resumes,
     Idle
<1>31. ASSUME NEW t \in Worker, finish(t) PROVE RegisteredAt(u)'
  BY <1>1, <1>31 DEF finish, Goto, ctxVars, sendVars, RegisteredAt,
     Unretired, Locals, Place, Sending, Creating, Resumes, Idle
<1>32. ASSUME NEW t \in Worker, deinit(t) PROVE RegisteredAt(u)'
  BY <1>1, <1>32 DEF deinit, CallLog, CallSend, Goto, ctxVars, runVars,
     sendVars, RegisteredAt, Unretired, Locals, Place, Sending, Creating,
     Resumes, Idle
<1>33. ASSUME NEW t \in Worker, unset_inited(t) PROVE RegisteredAt(u)'
  BY <1>1, <1>33 DEF unset_inited, Goto, runVars, sendVars, RegisteredAt,
     Unretired, Locals, Place, Sending, Creating, Resumes, Idle
<1>34. ASSUME NEW t \in Worker, retire_context(t) PROVE RegisteredAt(u)'
  <2>1. /\ pc[t] = "retire_context" /\ running[t] \in Context
        /\ dest[t] = NoContext
        /\ m_handle' = [m_handle EXCEPT ![running[t]] = FALSE]
        /\ pc' = [pc EXCEPT ![t] = "check_alive"]
        /\ UNCHANGED <<dest, back, created, running>>
    BY <1>1, <1>34 DEF retire_context, Retire, Goto, sendVars, runVars,
       Locals, Place, Sending, Idle
  <2>2. created[u] # running[t] BY <1>1, <1>2, <2>1
  <2>3. CASE u = t BY <1>1, <2>1, <2>2, <2>3 DEF RegisteredAt, Unretired
  <2>4. CASE u # t
    <3>1. \/ pc[u] \in Unretired
          \/ dest[u] # NoContext /\ back[u] \in Unretired
          => pc[u] # "release_running"
      BY <1>1 DEF Place, Sending, Unretired
    <3>2. u \in Worker /\ pc[u] # "release_running" => running[u] # running[t]
      BY <1>1, <1>2, <2>1, <2>4
    <3>. QED BY <1>1, <2>1, <2>2, <2>4, <3>1, <3>2 DEF RegisteredAt
  <2>. QED BY <2>3, <2>4
<1>35. ASSUME NEW t \in Worker, repush_context(t) PROVE RegisteredAt(u)'
  BY <1>1, <1>35 DEF repush_context, Goto, ctxVars, runVars, sendVars,
     RegisteredAt, Unretired, Locals, Place, Sending, Creating, Resumes,
     Idle
<1>36. ASSUME NEW t \in Worker, shortest(t) PROVE RegisteredAt(u)'
  BY <1>1, <1>36 DEF shortest, Goto, ctxVars, runVars, sendVars,
     RegisteredAt, Unretired, Locals, Place, Sending, Creating, Resumes,
     Idle
<1>37. ASSUME boot_logger PROVE RegisteredAt(u)'
  BY <1>1, <1>37 DEF boot_logger, Goto, Register, runVars, sendVars,
     RegisteredAt, Unretired, Locals, Place, Sending, Creating, Resumes,
     Idle
<1>38. ASSUME grab_logger PROVE RegisteredAt(u)'
  BY <1>1, <1>38 DEF grab_logger, Goto, runVars, sendVars, RegisteredAt,
     Unretired, Locals, Place, Sending, Creating, Resumes, Idle
<1>39. ASSUME boot_root PROVE RegisteredAt(u)'
  BY <1>1, <1>39 DEF boot_root, Goto, Register, runVars, sendVars,
     RegisteredAt, Unretired, Locals, Place, Sending, Creating, Resumes,
     Idle
<1>40. ASSUME response PROVE RegisteredAt(u)'
  BY <1>1, <1>40 DEF response, CallSend, Goto, ctxVars, runVars,
     RegisteredAt, Unretired, Locals, Place, Sending, Creating, Resumes,
     Idle
<1>41. ASSUME NEW t \in Thread, Send(t) PROVE RegisteredAt(u)'
  BY <1>41, <1>3, <1>4, <1>5, <1>6, <1>7, <1>8, <1>9 DEF Send
<1>42. ASSUME NEW t \in Thread, Create(t) PROVE RegisteredAt(u)'
  BY <1>42, <1>10, <1>11, <1>12, <1>13, <1>14, <1>15 DEF Create
<1>43. ASSUME NEW t \in Thread, Stop(t) PROVE RegisteredAt(u)'
  BY <1>43, <1>16, <1>17, <1>18 DEF Stop
<1>44. ASSUME NEW t \in Worker, WorkerProcess(t) PROVE RegisteredAt(u)'
  BY <1>44, <1>19, <1>20, <1>21, <1>22, <1>23, <1>24, <1>25, <1>26, <1>27,
     <1>28, <1>29, <1>30, <1>31, <1>32, <1>33, <1>34, <1>35, <1>36 DEF
     WorkerProcess
<1>. QED
  BY <1>41, <1>42, <1>43, <1>44, <1>37, <1>38, <1>39, <1>40 DEF Next, Step,
     Boot

\* In the initial states there is no reference to anything.
LEMMA RefsInit ==
    ASSUME Init
    PROVE  Registered /\ AllCounted
<1>1. /\ Main \in Thread /\ Net \in Thread /\ Worker \subseteq Thread
      /\ Main \notin Worker /\ Net \notin Worker /\ Main # Net
      /\ NoContext \notin Context /\ Root \in Context
  BY Constants, SchedulerAssumption
<1>2. /\ \A t \in Thread : dest[t] = NoContext /\ created[t] = NoContext
      /\ \A w \in Worker : /\ running[w] = NoContext
                           /\ queue[w] = << >> /\ stolen[w] = << >>
      /\ \A c \in Context : /\ m_alloc[c] = "none" /\ ~m_handle[c]
                            /\ m_ref[c] = 0
  BY <1>1 DEF Init
<1>3. pc[Main] = "boot_logger" BY <1>1 DEF Init
<1>4. \A c : ~Has(<< >>, c) BY DEF Has
<1>5. Registered BY <1>1, <1>2 DEF Registered
<1>6. ASSUME NEW c \in Context PROVE Counted(c)
  <2>1. \A k \in RefKind, t \in Thread : ~Refers(k, t, c)
    BY <1>1, <1>2, <1>3, <1>4 DEF Refers
  <2>2. Held(c) = {} BY <2>1 DEF Held
  <2>3. Cardinality({}) = 0 BY FS_EmptySet
  <2>. QED BY <1>2, <2>2, <2>3 DEF Counted
<1>. QED BY <1>5, <1>6 DEF AllCounted

\* The invariant of the reference counts.
RefsInv == SafeInv /\ Registered /\ AllCounted

\* It holds in every state.
LEMMA RefsSafe == Spec => []RefsInv
<1>1. Init => Registered /\ AllCounted BY RefsInit
<1>2. ASSUME SafeInv, Registered, AllCounted, Next
      PROVE  Registered' /\ AllCounted'
  <2>1. Registered' BY <1>2, RegisteredNext
  <2>2. ASSUME NEW c \in Context PROVE Counted(c)'
    BY <1>2, RefSteps, RefStepCounted DEF AllCounted
  <2>. QED BY <2>1, <2>2 DEF AllCounted
<1>3. ASSUME SafeInv, Registered, AllCounted, UNCHANGED vars
      PROVE  Registered' /\ AllCounted'
  <2>1. UNCHANGED <<m_alloc, m_handle, m_ref, pc, running, queue, stolen,
                    dest, type, back, created>>
    BY <1>3 DEF vars, ctxVars, mgrVars, runVars, sendVars
  <2>2. Registered' BY <1>3, <2>1 DEF Registered
  <2>3. ASSUME NEW c \in Context PROVE Counted(c)'
    <3>1. Keeps(c) BY <2>1 DEF Keeps, Refers, Has
    <3>. QED BY <1>3, <3>1, KeepsCounted DEF AllCounted
  <2>. QED BY <2>2, <2>3 DEF AllCounted
<1>. QED BY <1>1, <1>2, <1>3, Safe, PTL DEF Spec, RefsInv

-----------------------------------------------------------------------------
(* The properties.                                                          *)

\* Names(r, o, c): o is how References names the reference r of Held.
Names(r, o, c) ==
    \/ r[1] \in {"registered", "m_logger"} /\ o = <<r[1]>>
    \/ r[1] \in {"grabbed", "created", "pushing", "run"} /\ o = <<r[1], r[2]>>
    \/ /\ r[1] = "queued"
       /\ \E i \in 1 .. Len(queue[r[2]]) :
              o = <<r[1], r[2], i>> /\ queue[r[2]][i] = c
    \/ /\ r[1] = "carried"
       /\ \E i \in 1 .. Len(stolen[r[2]]) :
              o = <<r[1], r[2], i>> /\ stolen[r[2]][i] = c

\* Held and References list the same references: a queue holds a context once.
LEMMA HeldReferences ==
    ASSUME SafeInv, NEW c \in Context
    PROVE  ExistsBijection(Held(c), References(c))
<1>1. /\ Worker \subseteq Thread /\ Main \in Thread
      /\ queue \in [Worker -> Seq(Context)] /\ stolen \in [Worker -> Seq(Context)]
      /\ QueuesDistinct
  BY Types DEF SafeInv, Ownership
<1>2. ASSUME NEW r \in Held(c)
      PROVE  r[1] \in RefKind /\ r[2] \in Thread /\ Refers(r[1], r[2], c)
             /\ r = <<r[1], r[2]>>
  BY DEF Held
<1>3. ASSUME NEW r \in Held(c) PROVE \E o \in References(c) : Names(r, o, c)
  <2>1. r[1] \in RefKind /\ r[2] \in Thread /\ Refers(r[1], r[2], c)
    BY <1>2
  <2>2. CASE r[1] \in {"registered", "m_logger"}
    <3>1. <<r[1]>> \in References(c) BY <2>1, <2>2 DEF Refers, References
    <3>. QED BY <2>2, <3>1 DEF Names
  <2>3. CASE r[1] \in {"grabbed", "created", "pushing", "run"}
    <3>1. <<r[1], r[2]>> \in References(c)
      BY <2>1, <2>3 DEF Refers, References
    <3>. QED BY <2>3, <3>1 DEF Names
  <2>4. CASE r[1] = "queued"
    <3>1. r[2] \in Worker /\ Has(queue[r[2]], c) BY <2>1, <2>4 DEF Refers
    <3>2. PICK i \in 1 .. Len(queue[r[2]]) : queue[r[2]][i] = c
      BY <3>1 DEF Has
    <3>3. i \in At(c, queue[r[2]]) BY <3>2 DEF At
    <3>4. <<"queued", r[2], i>> \in Queued(c) BY <3>1, <3>3 DEF Queued
    <3>. QED BY <2>4, <3>2, <3>4 DEF Names, References
  <2>5. CASE r[1] = "carried"
    <3>1. r[2] \in Worker /\ Has(stolen[r[2]], c) BY <2>1, <2>5 DEF Refers
    <3>2. PICK i \in 1 .. Len(stolen[r[2]]) : stolen[r[2]][i] = c
      BY <3>1 DEF Has
    <3>3. i \in At(c, stolen[r[2]]) BY <3>2 DEF At
    <3>4. <<"carried", r[2], i>> \in Carried(c) BY <3>1, <3>3 DEF Carried
    <3>. QED BY <2>5, <3>2, <3>4 DEF Names, References
  <2>. QED BY <2>1, <2>2, <2>3, <2>4, <2>5 DEF RefKind
<1>4. ASSUME NEW o \in References(c) PROVE \E r \in Held(c) : Names(r, o, c)
  <2>1. \A k \in RefKind, t \in Thread :
            Refers(k, t, c) => \E r \in Held(c) : r[1] = k /\ r[2] = t
    <3>. SUFFICES ASSUME NEW k \in RefKind, NEW t \in Thread, Refers(k, t, c)
                  PROVE  \E r \in Held(c) : r[1] = k /\ r[2] = t
      OBVIOUS
    <3>1. <<k, t>> \in Held(c) BY DEF Held
    <3>. QED BY <3>1
  <2>2. CASE o = <<"registered">> /\ m_handle[c]
    <3>1. Refers("registered", Main, c) BY <2>2 DEF Refers
    <3>2. PICK r \in Held(c) : r[1] = "registered"
      BY <1>1, <2>1, <3>1 DEF RefKind
    <3>. QED BY <2>2, <3>2 DEF Names
  <2>3. CASE /\ o = <<"m_logger">> /\ c = Logger
             /\ pc[Main] = "boot_root" \/ m_alloc[Root] # "none"
    <3>1. Refers("m_logger", Main, c) BY <2>3 DEF Refers
    <3>2. PICK r \in Held(c) : r[1] = "m_logger"
      BY <1>1, <2>1, <3>1 DEF RefKind
    <3>. QED BY <2>3, <3>2 DEF Names
  <2>4. CASE \E t \in Thread : /\ o = <<"grabbed", t>> /\ dest[t] = c
                               /\ type[t] # "log" /\ pc[t] # "grab_context"
    <3>1. PICK t \in Thread : o = <<"grabbed", t>> /\ Refers("grabbed", t, c)
      BY <2>4 DEF Refers
    <3>2. PICK r \in Held(c) : r[1] = "grabbed" /\ r[2] = t
      BY <2>1, <3>1 DEF RefKind
    <3>. QED BY <3>1, <3>2 DEF Names
  <2>5. CASE \E t \in Thread : o = <<"created", t>> /\ created[t] = c
    <3>1. PICK t \in Thread : o = <<"created", t>> /\ Refers("created", t, c)
      BY <2>5 DEF Refers
    <3>2. PICK r \in Held(c) : r[1] = "created" /\ r[2] = t
      BY <2>1, <3>1 DEF RefKind
    <3>. QED BY <3>1, <3>2 DEF Names
  <2>6. CASE \E t \in Thread : /\ o = <<"pushing", t>> /\ dest[t] = c
                               /\ pc[t] = "push_one"
    <3>1. PICK t \in Thread : o = <<"pushing", t>> /\ Refers("pushing", t, c)
      BY <2>6 DEF Refers
    <3>2. PICK r \in Held(c) : r[1] = "pushing" /\ r[2] = t
      BY <2>1, <3>1 DEF RefKind
    <3>. QED BY <3>1, <3>2 DEF Names
  <2>7. CASE \E w \in Worker : o = <<"run", w>> /\ running[w] = c
    <3>1. PICK w \in Worker : o = <<"run", w>> /\ Refers("run", w, c)
      BY <2>7 DEF Refers
    <3>2. PICK r \in Held(c) : r[1] = "run" /\ r[2] = w
      BY <1>1, <2>1, <3>1 DEF RefKind
    <3>. QED BY <3>1, <3>2 DEF Names
  <2>8. CASE o \in Queued(c)
    <3>1. PICK w \in Worker : \E i \in 1 .. Len(queue[w]) :
              o = <<"queued", w, i>> /\ queue[w][i] = c
      BY <2>8 DEF Queued, At
    <3>2. Refers("queued", w, c) BY <3>1 DEF Refers, Has
    <3>3. PICK r \in Held(c) : r[1] = "queued" /\ r[2] = w
      BY <1>1, <2>1, <3>2 DEF RefKind
    <3>. QED BY <3>1, <3>3 DEF Names
  <2>9. CASE o \in Carried(c)
    <3>1. PICK w \in Worker : \E i \in 1 .. Len(stolen[w]) :
              o = <<"carried", w, i>> /\ stolen[w][i] = c
      BY <2>9 DEF Carried, At
    <3>2. Refers("carried", w, c) BY <3>1 DEF Refers, Has
    <3>3. PICK r \in Held(c) : r[1] = "carried" /\ r[2] = w
      BY <1>1, <2>1, <3>2 DEF RefKind
    <3>. QED BY <3>1, <3>3 DEF Names
  <2>. QED BY <2>2, <2>3, <2>4, <2>5, <2>6, <2>7, <2>8, <2>9 DEF References
<1>5. ASSUME NEW r \in Held(c), NEW o, NEW p, Names(r, o, c), Names(r, p, c)
      PROVE  o = p
  <2>1. r[1] \in RefKind /\ Refers(r[1], r[2], c) BY <1>2
  <2>2. CASE r[1] \in {"queued", "carried"}
    <3>1. r[2] \in Worker BY <2>1, <2>2 DEF Refers
    <3>. QED BY <1>1, <1>5, <2>2, <3>1 DEF Names, QueuesDistinct, Distinct
  <2>3. CASE r[1] \notin {"queued", "carried"} BY <1>5, <2>3 DEF Names
  <2>. QED BY <2>2, <2>3
<1>6. ASSUME NEW r \in Held(c), NEW q \in Held(c), NEW o,
             Names(r, o, c), Names(q, o, c)
      PROVE  r = q
  <2>1. /\ r[1] \in RefKind /\ Refers(r[1], r[2], c) /\ r = <<r[1], r[2]>>
        /\ q[1] \in RefKind /\ Refers(q[1], q[2], c) /\ q = <<q[1], q[2]>>
    BY <1>2
  <2>2. r[1] = o[1] /\ q[1] = o[1] BY <1>6 DEF Names
  <2>3. CASE r[1] \in {"registered", "m_logger"}
    BY <2>1, <2>2, <2>3 DEF Refers
  <2>4. CASE r[1] \notin {"registered", "m_logger"}
    <3>1. r[2] = o[2] /\ q[2] = o[2] BY <1>6, <2>2, <2>4 DEF Names
    <3>. QED BY <2>1, <2>2, <3>1
  <2>. QED BY <2>3, <2>4
<1>. DEFINE f == [r \in Held(c) |-> CHOOSE o \in References(c) : Names(r, o, c)]
<1>7. \A r \in Held(c) : f[r] \in References(c) /\ Names(r, f[r], c)
  BY <1>3
<1>8. f \in [Held(c) -> References(c)] BY <1>7
<1>. HIDE DEF f
<1>9. \A o \in References(c) : \E r \in Held(c) : f[r] = o
  BY <1>4, <1>5, <1>7
<1>10. \A r, q \in Held(c) : f[r] = f[q] => r = q BY <1>6, <1>7
<1>11. f \in Bijection(Held(c), References(c))
  BY <1>8, <1>9, <1>10, Fun_IsBij
<1>. QED BY <1>11 DEF ExistsBijection

\* m_ref counts the references that exist, whatever steals, hand-overs, failed
\* creations and destructions happen, and a context is deleted exactly when the
\* last reference goes.
THEOREM CountsExact == Spec => []RefsExact
<1>1. RefsInv => RefsExact
  <2>. SUFFICES ASSUME RefsInv, NEW c \in Context
                PROVE  /\ m_ref[c] = Cardinality(References(c))
                       /\ m_alloc[c] = "live" <=> References(c) # {}
    BY DEF RefsExact
  <2>1. IsFiniteSet(References(c))
        /\ Cardinality(References(c)) = Cardinality(Held(c))
    BY HeldFinite, HeldReferences, FS_Bijection DEF RefsInv
  <2>2. References(c) = {} <=> Held(c) = {}
    BY <2>1, HeldFinite, FS_EmptySet
  <2>. QED BY <2>1, <2>2 DEF RefsInv, AllCounted, Counted
<1>. QED BY <1>1, RefsSafe, PTL

\* No sender, worker, thief, queue or log call is left with a pointer to a
\* context that has been deleted.
THEOREM NoDanglingPointer == Spec => []NoUseAfterFree
<1>1. RefsInv => NoUseAfterFree
  <2>. SUFFICES ASSUME RefsInv, NEW c \in Context,
                       \/ \E t \in Thread : created[t] = c
                       \/ \E t \in Thread : dest[t] = c /\ pc[t] # "grab_context"
                       \/ \E w \in Worker : running[w] = c
                       \/ Queued(c) \cup Carried(c) # {}
                PROVE  m_alloc[c] = "live"
    BY DEF NoUseAfterFree
  <2>1. SUFFICES Held(c) # {} BY <2>1 DEF RefsInv, AllCounted, Counted
  <2>2. \A k \in RefKind, t \in Thread : Refers(k, t, c) => <<k, t>> \in Held(c)
    BY DEF Held
  <2>3. Worker \subseteq Thread /\ NoContext \notin Context
    BY RefTypes DEF RefsInv
  <2>4. CASE \E t \in Thread : created[t] = c
    BY <2>2, <2>4 DEF Refers, RefKind
  <2>5. CASE \E t \in Thread : dest[t] = c /\ pc[t] # "grab_context"
    <3>1. PICK t \in Thread : dest[t] = c /\ pc[t] # "grab_context" BY <2>5
    <3>2. CASE type[t] = "log"
      BY <2>3, <3>1, <3>2, LogHolds DEF RefsInv
    <3>3. CASE type[t] # "log"
      BY <2>2, <3>1, <3>3 DEF Refers, RefKind
    <3>. QED BY <3>2, <3>3
  <2>6. CASE \E w \in Worker : running[w] = c
    BY <2>2, <2>3, <2>6 DEF Refers, RefKind
  <2>7. CASE Queued(c) \cup Carried(c) # {}
    <3>1. PICK k \in {"queued", "carried"}, w \in Worker : Refers(k, w, c)
      BY <2>7 DEF Queued, Carried, At, Refers, Has
    <3>. QED BY <2>2, <2>3, <3>1 DEF RefKind
  <2>. QED BY <2>4, <2>5, <2>6, <2>7
<1>. QED BY <1>1, RefsSafe, PTL


-----------------------------------------------------------------------------
(* The invariant.                                                           *)

Registry == {c \in Context : m_handle[c]}

\* m_ctx_size, by which check_alive decides, is the size of the registry.
SizeExact == m_ctx_size = Cardinality(Registry)

\* Nobody but the logger is registered, and nobody will be.
Quiet == m_alloc[Root] # "none" /\ \A c \in Context \ {Logger} : ~m_handle[c]

\* Nor is the logger.
LoggerGone == m_alloc[Logger] # "none" /\ ~m_handle[Logger]

NoLogs == \A i \in 1 .. Len(m_message_queue[Logger]) :
              m_message_queue[Logger][i] # "log"

\* Thread t tells the logger to end, or is about to.
TellsEnd(t) == dest[t] = Logger /\ type[t] = "destroy"

\* Worker t ends the logger.
Ends(t) == /\ t \in Worker /\ running[t] = Logger
           /\ \/ pc[t] = "handle" /\ message[t] = "destroy"
              \/ pc[t] \in {"deinit", "unset_inited", "retire_context"}

\* Who logs is a context that is registered, and not the logger.
LogsFrom(t) ==
    dest[t] # NoContext /\ type[t] = "log" =>
        \/ back[t] \in {"lua_ctx_init", "retire_created"}
        \/ /\ t \in Worker /\ back[t] \in {"handle", "unset_inited"}
           /\ running[t] # Logger

\* While it runs the logger a worker sends nothing but, when a message is
\* dropped, its answer; and it checks what is alive after it has ended it.
LoggerRun(t) ==
    t \in Worker /\ running[t] = Logger =>
        /\ dest[t] # NoContext => back[t] = "finish"
        /\ pc[t] \in {"check_alive", "stop", "wakeup"} => LoggerGone
        /\ pc[t] \notin Creating \cup {"check_load", "start_worker"}

Speaks == \A t \in Thread : LogsFrom(t) /\ LoggerRun(t)

Stopping == m_exiting \/ \E t \in Thread : pc[t] \in {"stop", "wakeup", "exited"}

Told == \/ \E t \in Thread : TellsEnd(t)
        \/ \E i \in 1 .. Len(m_message_queue[Logger]) :
               m_message_queue[Logger][i] = "destroy"

\* No record comes after the message that ends the logger.
EndLast ==
    \A i, j \in 1 .. Len(m_message_queue[Logger]) :
        i < j /\ m_message_queue[Logger][i] = "destroy"
            => m_message_queue[Logger][j] # "log"

EndInv ==
    /\ Told => Quiet
    /\ (\E t \in Thread : Ends(t)) \/ LoggerGone => Quiet /\ NoLogs
    /\ Stopping => LoggerGone
    /\ EndLast
    /\ Speaks

-----------------------------------------------------------------------------
(* The steps.                                                               *)

\* The steps that change the registry.
HandleStep ==
    \/ UNCHANGED <<m_handle, m_ctx_size>>
    \/ \E t \in Thread : \/ retire_created(t)
                         \/ \E c \in Context : Registers(t, c)
    \/ \E w \in Worker : retire_context(w)

\* No other does.
LEMMA HandleSteps ==
    ASSUME SafeInv, Next
    PROVE  HandleStep
<1>1. ASSUME NEW t \in Thread, QuietStep(t) PROVE HandleStep
  <2>1. CASE grab_context(t)
    BY <2>1 DEF grab_context, Goto, Return, HandleStep
  <2>2. CASE check_valid(t)
    BY <2>2 DEF check_valid, EndSend, Goto, IsValid, Return, ctxVars,
       HandleStep
  <2>3. CASE push_context(t)
    BY <2>3 DEF push_context, Goto, HandleStep
  <2>4. CASE sem_post(t)
    BY <2>4 DEF sem_post, AfterPush, EndSend, Goto, Return, ctxVars,
       HandleStep
  <2>5. CASE release_dest(t)
    BY <2>5 DEF release_dest, Goto, Release, Return, HandleStep
  <2>6. CASE init(t)
    BY <2>6 DEF init, CallLog, Goto, ctxVars, HandleStep
  <2>7. CASE lua_ctx_init(t)
    BY <2>7 DEF lua_ctx_init, Goto, HandleStep
  <2>8. CASE set_inited(t)
    BY <2>8 DEF set_inited, Goto, SendCreated, HandleStep
  <2>9. CASE check_load(t)
    BY <2>9 DEF check_load, AfterCreate, Goto, ctxVars, HandleStep
  <2>10. CASE start_worker(t)
    BY <2>10 DEF start_worker, AfterCreate, Goto, ctxVars, HandleStep
  <2>11. CASE check_alive(t)
    BY <2>11 DEF check_alive, AfterAlive, CallSend, Goto, ctxVars,
       HandleStep
  <2>12. CASE stop(t)
    BY <2>12 DEF stop, AfterAlive, Goto, ctxVars, HandleStep
  <2>13. CASE wakeup(t)
    BY <2>13 DEF wakeup, AfterAlive, Goto, ctxVars, HandleStep
  <2>14. CASE push_message(t) /\ m_processing[dest[t]]
    BY <2>14 DEF push_message, EndSend, Goto, Return, HandleStep
  <2>15. CASE t \in Worker /\ loop(t)
    BY <2>15 DEF loop, Goto, ctxVars, HandleStep
  <2>16. CASE t \in Worker /\ wait(t)
    BY <2>16 DEF wait, Goto, ctxVars, HandleStep
  <2>17. CASE t \in Worker /\ attach(t)
    BY <2>17 DEF attach, Goto, HandleStep
  <2>18. CASE t \in Worker /\ turn(t)
    BY <2>18 DEF turn, Goto, IsValid, MayGoOn, HandleStep
  <2>19. CASE t \in Worker /\ release_running(t)
    BY <2>19 DEF release_running, Goto, Release, HandleStep
  <2>20. CASE t \in Worker /\ handle(t)
    BY <2>20 DEF handle, Goto, ctxVars, HandleStep
  <2>21. CASE t \in Worker /\ drop(t)
    BY <2>21 DEF drop, CallSend, Goto, ctxVars, HandleStep
  <2>22. CASE t \in Worker /\ finish(t)
    BY <2>22 DEF finish, Goto, ctxVars, HandleStep
  <2>23. CASE t \in Worker /\ deinit(t)
    BY <2>23 DEF deinit, CallLog, CallSend, Goto, ctxVars, HandleStep
  <2>24. CASE t \in Worker /\ unset_inited(t)
    BY <2>24 DEF unset_inited, Goto, HandleStep
  <2>25. CASE t \in Worker /\ retire_context(t)
    BY <2>25 DEF HandleStep
  <2>26. CASE t \in Worker /\ repush_context(t)
    BY <2>26 DEF repush_context, Goto, ctxVars, HandleStep
  <2>27. CASE t \in Worker /\ shortest(t)
    BY <2>27 DEF shortest, Goto, ctxVars, HandleStep
  <2>28. CASE t \in Worker /\ try_pop_one(t) /\ queue[t] = << >>
    BY <2>28 DEF try_pop_one, Goto, ctxVars, HandleStep
  <2>29. CASE /\ t \in Worker /\ steal_context(t)
        /\ UNCHANGED <<queue, running, stolen>>
    BY <2>29 DEF steal_context, Goto, StealFrom, ctxVars, HandleStep
  <2>30. CASE /\ t \in Worker /\ pop_message(t)
        /\ m_message_queue[running[t]] # << >>
    BY <2>30 DEF pop_message, Goto, IsValid, HandleStep
  <2>31. CASE t \in Worker /\ lua_acts(t) /\ UNCHANGED created
    <3>1. pc[t] = "handle" /\ created[t] = NoContext
      BY <2>31, RefTypes DEF lua_acts, Place, Creating, Sending
    <3>2. \A x \in Context : ~ Register(t, x)
      BY <2>31, <3>1, RefTypes DEF Register
    <3>. QED BY <2>31, <3>2 DEF lua_acts, ctxVars, HandleStep
  <2>32. CASE t = Main /\ grab_logger
    BY <2>32 DEF grab_logger, Goto, HandleStep
  <2>33. CASE t = Net /\ response
    BY <2>33 DEF response, CallSend, Goto, ctxVars, HandleStep
  <2>. QED BY <1>1, <2>1, <2>2, <2>3, <2>4, <2>5, <2>6, <2>7, <2>8, <2>9,
     <2>10, <2>11, <2>12, <2>13, <2>14, <2>15, <2>16, <2>17, <2>18, <2>19,
     <2>20, <2>21, <2>22, <2>23, <2>24, <2>25, <2>26, <2>27, <2>28, <2>29,
     <2>30, <2>31, <2>32, <2>33 DEF QuietStep
<1>2. ASSUME NEW t \in Thread, MoveStep(t) PROVE HandleStep
  BY <1>2 DEF MoveStep, push_one, push_many, try_pop_one, steal_context,
     ctxVars, HandleStep
<1>3. ASSUME NEW t \in Thread, push_message(t) PROVE HandleStep
  BY <1>3 DEF push_message, HandleStep
<1>4. ASSUME NEW w \in Worker, pop_message(w) PROVE HandleStep
  BY <1>4 DEF pop_message, HandleStep
<1>. QED BY <1>1, <1>2, <1>3, <1>4, OwnerSteps DEF SafeInv, HandleStep

\* A context that was allocated once stays so.
LEMMA AllocKept ==
    ASSUME SafeInv, Next, NEW c \in Context, m_alloc[c] # "none"
    PROVE  m_alloc'[c] # "none"
<1>1. /\ m_alloc \in [Context -> {"none", "live", "deleted"}]
      /\ Worker \subseteq Thread
      /\ \A t \in Thread : Locals(t)
  BY RefTypes
<1>2. ASSUME NEW t \in Thread, grab_context(t) PROVE m_alloc'[c] # "none"
  BY <1>1, <1>2 DEF grab_context, Goto, Return, Locals, Idle
<1>3. ASSUME NEW t \in Thread, check_valid(t) PROVE m_alloc'[c] # "none"
  BY <1>1, <1>3 DEF check_valid, EndSend, Goto, IsValid, Return, ctxVars,
     Locals, Idle
<1>4. ASSUME NEW t \in Thread, push_message(t) PROVE m_alloc'[c] # "none"
  BY <1>1, <1>4 DEF push_message, EndSend, Goto, Return, Locals, Idle
<1>5. ASSUME NEW t \in Thread, push_context(t) PROVE m_alloc'[c] # "none"
  BY <1>1, <1>5 DEF push_context, Goto, Locals, Idle
<1>6. ASSUME NEW t \in Thread, push_one(t) PROVE m_alloc'[c] # "none"
  BY <1>1, <1>6 DEF push_one, AfterPush, EndSend, Goto, Return, ctxVars,
     Locals, Idle
<1>7. ASSUME NEW t \in Thread, sem_post(t) PROVE m_alloc'[c] # "none"
  BY <1>1, <1>7 DEF sem_post, AfterPush, EndSend, Goto, Return, ctxVars,
     Locals, Idle
<1>8. ASSUME NEW t \in Thread, release_dest(t) PROVE m_alloc'[c] # "none"
  BY <1>1, <1>8 DEF release_dest, Goto, Release, Return, Locals, Idle
<1>9. ASSUME NEW t \in Thread, init(t) PROVE m_alloc'[c] # "none"
  BY <1>1, <1>9 DEF init, CallLog, Goto, ctxVars, Locals, Idle
<1>10. ASSUME NEW t \in Thread, lua_ctx_init(t) PROVE m_alloc'[c] # "none"
  BY <1>1, <1>10 DEF lua_ctx_init, Goto, Locals, Idle
<1>11. ASSUME NEW t \in Thread, set_inited(t) PROVE m_alloc'[c] # "none"
  BY <1>1, <1>11 DEF set_inited, Goto, SendCreated, Locals, Idle
<1>12. ASSUME NEW t \in Thread, retire_created(t) PROVE m_alloc'[c] # "none"
  BY <1>1, <1>12 DEF retire_created, Goto, Release, Retire, SendCreated,
     Locals, Idle
<1>13. ASSUME NEW t \in Thread, check_load(t) PROVE m_alloc'[c] # "none"
  BY <1>1, <1>13 DEF check_load, AfterCreate, Goto, ctxVars, Locals, Idle
<1>14. ASSUME NEW t \in Thread, start_worker(t) PROVE m_alloc'[c] # "none"
  BY <1>1, <1>14 DEF start_worker, AfterCreate, Goto, ctxVars, Locals, Idle
<1>15. ASSUME NEW t \in Thread, check_alive(t) PROVE m_alloc'[c] # "none"
  BY <1>1, <1>15 DEF check_alive, AfterAlive, CallSend, Goto, ctxVars,
     Locals, Idle
<1>16. ASSUME NEW t \in Thread, stop(t) PROVE m_alloc'[c] # "none"
  BY <1>1, <1>16 DEF stop, AfterAlive, Goto, ctxVars, Locals, Idle
<1>17. ASSUME NEW t \in Thread, wakeup(t) PROVE m_alloc'[c] # "none"
  BY <1>1, <1>17 DEF wakeup, AfterAlive, Goto, ctxVars, Locals, Idle
<1>18. ASSUME NEW t \in Worker, loop(t) PROVE m_alloc'[c] # "none"
  BY <1>1, <1>18 DEF loop, Goto, ctxVars, Locals, Idle
<1>19. ASSUME NEW t \in Worker, try_pop_one(t) PROVE m_alloc'[c] # "none"
  BY <1>1, <1>19 DEF try_pop_one, Goto, ctxVars, Locals, Idle
<1>20. ASSUME NEW t \in Worker, steal_context(t) PROVE m_alloc'[c] # "none"
  BY <1>1, <1>20 DEF steal_context, Goto, StealFrom, ctxVars, Locals, Idle
<1>21. ASSUME NEW t \in Worker, push_many(t) PROVE m_alloc'[c] # "none"
  BY <1>1, <1>21 DEF push_many, Goto, ctxVars, Locals, Idle
<1>22. ASSUME NEW t \in Worker, wait(t) PROVE m_alloc'[c] # "none"
  BY <1>1, <1>22 DEF wait, Goto, ctxVars, Locals, Idle
<1>23. ASSUME NEW t \in Worker, attach(t) PROVE m_alloc'[c] # "none"
  BY <1>1, <1>23 DEF attach, Goto, Locals, Idle
<1>24. ASSUME NEW t \in Worker, turn(t) PROVE m_alloc'[c] # "none"
  BY <1>1, <1>24 DEF turn, Goto, IsValid, MayGoOn, Locals, Idle
<1>25. ASSUME NEW t \in Worker, pop_message(t) PROVE m_alloc'[c] # "none"
  BY <1>1, <1>25 DEF pop_message, Goto, IsValid, Locals, Idle
<1>26. ASSUME NEW t \in Worker, release_running(t) PROVE m_alloc'[c] # "none"
  BY <1>1, <1>26 DEF release_running, Goto, Release, Locals, Idle
<1>27. ASSUME NEW t \in Worker, lua_acts(t) PROVE m_alloc'[c] # "none"
  BY <1>1, <1>27 DEF lua_acts, CallLog, CallSend, Goto, Register, ctxVars,
     Locals, Idle
<1>28. ASSUME NEW t \in Worker, handle(t) PROVE m_alloc'[c] # "none"
  BY <1>1, <1>28 DEF handle, Goto, ctxVars, Locals, Idle
<1>29. ASSUME NEW t \in Worker, drop(t) PROVE m_alloc'[c] # "none"
  BY <1>1, <1>29 DEF drop, CallSend, Goto, ctxVars, Locals, Idle
<1>30. ASSUME NEW t \in Worker, finish(t) PROVE m_alloc'[c] # "none"
  BY <1>1, <1>30 DEF finish, Goto, ctxVars, Locals, Idle
<1>31. ASSUME NEW t \in Worker, deinit(t) PROVE m_alloc'[c] # "none"
  BY <1>1, <1>31 DEF deinit, CallLog, CallSend, Goto, ctxVars, Locals, Idle
<1>32. ASSUME NEW t \in Worker, unset_inited(t) PROVE m_alloc'[c] # "none"
  BY <1>1, <1>32 DEF unset_inited, Goto, Locals, Idle
<1>33. ASSUME NEW t \in Worker, retire_context(t) PROVE m_alloc'[c] # "none"
  BY <1>1, <1>33 DEF retire_context, Goto, Release, Retire, Locals, Idle
<1>34. ASSUME NEW t \in Worker, repush_context(t) PROVE m_alloc'[c] # "none"
  BY <1>1, <1>34 DEF repush_context, Goto, ctxVars, Locals, Idle
<1>35. ASSUME NEW t \in Worker, shortest(t) PROVE m_alloc'[c] # "none"
  BY <1>1, <1>35 DEF shortest, Goto, ctxVars, Locals, Idle
<1>36. ASSUME boot_logger PROVE m_alloc'[c] # "none"
  BY <1>1, <1>36 DEF boot_logger, Goto, Register, Locals, Idle
<1>37. ASSUME grab_logger PROVE m_alloc'[c] # "none"
  BY <1>1, <1>37 DEF grab_logger, Goto, Locals, Idle
<1>38. ASSUME boot_root PROVE m_alloc'[c] # "none"
  BY <1>1, <1>38 DEF boot_root, Goto, Register, Locals, Idle
<1>39. ASSUME response PROVE m_alloc'[c] # "none"
  BY <1>1, <1>39 DEF response, CallSend, Goto, ctxVars, Locals, Idle
<1>40. ASSUME NEW t \in Thread, Send(t) PROVE m_alloc'[c] # "none"
  BY <1>40, <1>2, <1>3, <1>4, <1>5, <1>6, <1>7, <1>8 DEF Send
<1>41. ASSUME NEW t \in Thread, Create(t) PROVE m_alloc'[c] # "none"
  BY <1>41, <1>9, <1>10, <1>11, <1>12, <1>13, <1>14 DEF Create
<1>42. ASSUME NEW t \in Thread, Stop(t) PROVE m_alloc'[c] # "none"
  BY <1>42, <1>15, <1>16, <1>17 DEF Stop
<1>43. ASSUME NEW t \in Worker, WorkerProcess(t) PROVE m_alloc'[c] # "none"
  BY <1>43, <1>18, <1>19, <1>20, <1>21, <1>22, <1>23, <1>24, <1>25, <1>26,
     <1>27, <1>28, <1>29, <1>30, <1>31, <1>32, <1>33, <1>34, <1>35 DEF
     WorkerProcess
<1>. QED
  BY <1>40, <1>41, <1>42, <1>43, <1>36, <1>37, <1>38, <1>39 DEF Next, Step,
     Boot

\* What was not allocated is registered when it is.
LEMMA AllocBegins ==
    ASSUME SafeInv, Next, NEW c \in Context, m_alloc[c] = "none"
    PROVE  m_alloc'[c] = "none" \/ m_handle'[c]
<1>1. /\ m_alloc \in [Context -> {"none", "live", "deleted"}]
      /\ m_handle \in [Context -> BOOLEAN]
      /\ Worker \subseteq Thread /\ m_ref[c] = 0
      /\ \A t \in Thread : Locals(t)
  BY RefTypes DEF SafeInv, Birth, Fresh
<1>2. ASSUME NEW t \in Thread, grab_context(t) PROVE (m_alloc'[c] = "none" \/ m_handle'[c])
  BY <1>1, <1>2 DEF grab_context, Goto, Return, Locals, Idle
<1>3. ASSUME NEW t \in Thread, check_valid(t) PROVE (m_alloc'[c] = "none" \/ m_handle'[c])
  BY <1>1, <1>3 DEF check_valid, EndSend, Goto, IsValid, Return, ctxVars,
     Locals, Idle
<1>4. ASSUME NEW t \in Thread, push_message(t) PROVE (m_alloc'[c] = "none" \/ m_handle'[c])
  BY <1>1, <1>4 DEF push_message, EndSend, Goto, Return, Locals, Idle
<1>5. ASSUME NEW t \in Thread, push_context(t) PROVE (m_alloc'[c] = "none" \/ m_handle'[c])
  BY <1>1, <1>5 DEF push_context, Goto, Locals, Idle
<1>6. ASSUME NEW t \in Thread, push_one(t) PROVE (m_alloc'[c] = "none" \/ m_handle'[c])
  BY <1>1, <1>6 DEF push_one, AfterPush, EndSend, Goto, Return, ctxVars,
     Locals, Idle
<1>7. ASSUME NEW t \in Thread, sem_post(t) PROVE (m_alloc'[c] = "none" \/ m_handle'[c])
  BY <1>1, <1>7 DEF sem_post, AfterPush, EndSend, Goto, Return, ctxVars,
     Locals, Idle
<1>8. ASSUME NEW t \in Thread, release_dest(t) PROVE (m_alloc'[c] = "none" \/ m_handle'[c])
  BY <1>1, <1>8 DEF release_dest, Goto, Release, Return, Locals, Idle
<1>9. ASSUME NEW t \in Thread, init(t) PROVE (m_alloc'[c] = "none" \/ m_handle'[c])
  BY <1>1, <1>9 DEF init, CallLog, Goto, ctxVars, Locals, Idle
<1>10. ASSUME NEW t \in Thread, lua_ctx_init(t) PROVE (m_alloc'[c] = "none" \/ m_handle'[c])
  BY <1>1, <1>10 DEF lua_ctx_init, Goto, Locals, Idle
<1>11. ASSUME NEW t \in Thread, set_inited(t) PROVE (m_alloc'[c] = "none" \/ m_handle'[c])
  BY <1>1, <1>11 DEF set_inited, Goto, SendCreated, Locals, Idle
<1>12. ASSUME NEW t \in Thread, retire_created(t) PROVE (m_alloc'[c] = "none" \/ m_handle'[c])
  BY <1>1, <1>12 DEF retire_created, Goto, Release, Retire, SendCreated,
     Locals, Idle
<1>13. ASSUME NEW t \in Thread, check_load(t) PROVE (m_alloc'[c] = "none" \/ m_handle'[c])
  BY <1>1, <1>13 DEF check_load, AfterCreate, Goto, ctxVars, Locals, Idle
<1>14. ASSUME NEW t \in Thread, start_worker(t) PROVE (m_alloc'[c] = "none" \/ m_handle'[c])
  BY <1>1, <1>14 DEF start_worker, AfterCreate, Goto, ctxVars, Locals, Idle
<1>15. ASSUME NEW t \in Thread, check_alive(t) PROVE (m_alloc'[c] = "none" \/ m_handle'[c])
  BY <1>1, <1>15 DEF check_alive, AfterAlive, CallSend, Goto, ctxVars,
     Locals, Idle
<1>16. ASSUME NEW t \in Thread, stop(t) PROVE (m_alloc'[c] = "none" \/ m_handle'[c])
  BY <1>1, <1>16 DEF stop, AfterAlive, Goto, ctxVars, Locals, Idle
<1>17. ASSUME NEW t \in Thread, wakeup(t) PROVE (m_alloc'[c] = "none" \/ m_handle'[c])
  BY <1>1, <1>17 DEF wakeup, AfterAlive, Goto, ctxVars, Locals, Idle
<1>18. ASSUME NEW t \in Worker, loop(t) PROVE (m_alloc'[c] = "none" \/ m_handle'[c])
  BY <1>1, <1>18 DEF loop, Goto, ctxVars, Locals, Idle
<1>19. ASSUME NEW t \in Worker, try_pop_one(t) PROVE (m_alloc'[c] = "none" \/ m_handle'[c])
  BY <1>1, <1>19 DEF try_pop_one, Goto, ctxVars, Locals, Idle
<1>20. ASSUME NEW t \in Worker, steal_context(t) PROVE (m_alloc'[c] = "none" \/ m_handle'[c])
  BY <1>1, <1>20 DEF steal_context, Goto, StealFrom, ctxVars, Locals, Idle
<1>21. ASSUME NEW t \in Worker, push_many(t) PROVE (m_alloc'[c] = "none" \/ m_handle'[c])
  BY <1>1, <1>21 DEF push_many, Goto, ctxVars, Locals, Idle
<1>22. ASSUME NEW t \in Worker, wait(t) PROVE (m_alloc'[c] = "none" \/ m_handle'[c])
  BY <1>1, <1>22 DEF wait, Goto, ctxVars, Locals, Idle
<1>23. ASSUME NEW t \in Worker, attach(t) PROVE (m_alloc'[c] = "none" \/ m_handle'[c])
  BY <1>1, <1>23 DEF attach, Goto, Locals, Idle
<1>24. ASSUME NEW t \in Worker, turn(t) PROVE (m_alloc'[c] = "none" \/ m_handle'[c])
  BY <1>1, <1>24 DEF turn, Goto, IsValid, MayGoOn, Locals, Idle
<1>25. ASSUME NEW t \in Worker, pop_message(t) PROVE (m_alloc'[c] = "none" \/ m_handle'[c])
  BY <1>1, <1>25 DEF pop_message, Goto, IsValid, Locals, Idle
<1>26. ASSUME NEW t \in Worker, release_running(t) PROVE (m_alloc'[c] = "none" \/ m_handle'[c])
  BY <1>1, <1>26 DEF release_running, Goto, Release, Locals, Idle
<1>27. ASSUME NEW t \in Worker, lua_acts(t) PROVE (m_alloc'[c] = "none" \/ m_handle'[c])
  BY <1>1, <1>27 DEF lua_acts, CallLog, CallSend, Goto, Register, ctxVars,
     Locals, Idle
<1>28. ASSUME NEW t \in Worker, handle(t) PROVE (m_alloc'[c] = "none" \/ m_handle'[c])
  BY <1>1, <1>28 DEF handle, Goto, ctxVars, Locals, Idle
<1>29. ASSUME NEW t \in Worker, drop(t) PROVE (m_alloc'[c] = "none" \/ m_handle'[c])
  BY <1>1, <1>29 DEF drop, CallSend, Goto, ctxVars, Locals, Idle
<1>30. ASSUME NEW t \in Worker, finish(t) PROVE (m_alloc'[c] = "none" \/ m_handle'[c])
  BY <1>1, <1>30 DEF finish, Goto, ctxVars, Locals, Idle
<1>31. ASSUME NEW t \in Worker, deinit(t) PROVE (m_alloc'[c] = "none" \/ m_handle'[c])
  BY <1>1, <1>31 DEF deinit, CallLog, CallSend, Goto, ctxVars, Locals, Idle
<1>32. ASSUME NEW t \in Worker, unset_inited(t) PROVE (m_alloc'[c] = "none" \/ m_handle'[c])
  BY <1>1, <1>32 DEF unset_inited, Goto, Locals, Idle
<1>33. ASSUME NEW t \in Worker, retire_context(t) PROVE (m_alloc'[c] = "none" \/ m_handle'[c])
  BY <1>1, <1>33 DEF retire_context, Goto, Release, Retire, Locals, Idle
<1>34. ASSUME NEW t \in Worker, repush_context(t) PROVE (m_alloc'[c] = "none" \/ m_handle'[c])
  BY <1>1, <1>34 DEF repush_context, Goto, ctxVars, Locals, Idle
<1>35. ASSUME NEW t \in Worker, shortest(t) PROVE (m_alloc'[c] = "none" \/ m_handle'[c])
  BY <1>1, <1>35 DEF shortest, Goto, ctxVars, Locals, Idle
<1>36. ASSUME boot_logger PROVE (m_alloc'[c] = "none" \/ m_handle'[c])
  BY <1>1, <1>36 DEF boot_logger, Goto, Register, Locals, Idle
<1>37. ASSUME grab_logger PROVE (m_alloc'[c] = "none" \/ m_handle'[c])
  BY <1>1, <1>37 DEF grab_logger, Goto, Locals, Idle
<1>38. ASSUME boot_root PROVE (m_alloc'[c] = "none" \/ m_handle'[c])
  BY <1>1, <1>38 DEF boot_root, Goto, Register, Locals, Idle
<1>39. ASSUME response PROVE (m_alloc'[c] = "none" \/ m_handle'[c])
  BY <1>1, <1>39 DEF response, CallSend, Goto, ctxVars, Locals, Idle
<1>40. ASSUME NEW t \in Thread, Send(t) PROVE (m_alloc'[c] = "none" \/
   m_handle'[c])
  BY <1>40, <1>2, <1>3, <1>4, <1>5, <1>6, <1>7, <1>8 DEF Send
<1>41. ASSUME NEW t \in Thread, Create(t) PROVE (m_alloc'[c] = "none" \/
   m_handle'[c])
  BY <1>41, <1>9, <1>10, <1>11, <1>12, <1>13, <1>14 DEF Create
<1>42. ASSUME NEW t \in Thread, Stop(t) PROVE (m_alloc'[c] = "none" \/
   m_handle'[c])
  BY <1>42, <1>15, <1>16, <1>17 DEF Stop
<1>43. ASSUME NEW t \in Worker, WorkerProcess(t) PROVE (m_alloc'[c] = "none"
   \/ m_handle'[c])
  BY <1>43, <1>18, <1>19, <1>20, <1>21, <1>22, <1>23, <1>24, <1>25, <1>26,
     <1>27, <1>28, <1>29, <1>30, <1>31, <1>32, <1>33, <1>34, <1>35 DEF
     WorkerProcess
<1>. QED
  BY <1>40, <1>41, <1>42, <1>43, <1>36, <1>37, <1>38, <1>39 DEF Next, Step,
     Boot

\* A logger that is retired stays so.
LEMMA GoneKept ==
    ASSUME SafeInv, Next, LoggerGone
    PROVE  LoggerGone'
<1>1. /\ Logger \in Context /\ Root \in Context /\ Worker \subseteq Thread
      /\ m_handle \in [Context -> BOOLEAN]
      /\ m_alloc \in [Context -> {"none", "live", "deleted"}]
      /\ \A t \in Thread : Locals(t)
  BY RefTypes
<1>2. m_alloc'[Logger] # "none" BY <1>1, AllocKept DEF LoggerGone
<1>3. CASE UNCHANGED m_handle BY <1>2, <1>3 DEF LoggerGone
<1>4. ASSUME NEW t \in Thread, retire_created(t) PROVE ~m_handle'[Logger]
  BY <1>1, <1>4 DEF retire_created, Retire, Locals, LoggerGone
<1>5. ASSUME NEW t \in Thread, NEW c \in Context, Registers(t, c)
      PROVE  ~m_handle'[Logger]
  BY <1>1, <1>5 DEF Registers, Register, LoggerGone
<1>6. ASSUME NEW w \in Worker, retire_context(w) PROVE ~m_handle'[Logger]
  BY <1>1, <1>6 DEF retire_context, Retire, Locals, LoggerGone
<1>. QED BY <1>2, <1>3, <1>4, <1>5, <1>6, HandleSteps DEF HandleStep, LoggerGone

\* Every step keeps what the threads say.
LEMMA SpeaksNext ==
    ASSUME SafeInv, Speaks, Next
    PROVE  Speaks'
<1>. SUFFICES ASSUME NEW u \in Thread PROVE (LogsFrom(u) /\ LoggerRun(u))'
  BY DEF Speaks
<1>1. /\ pc \in [Thread -> Label]
      /\ dest \in [Thread -> Context \cup {NoContext}]
      /\ type \in [Thread -> Message]
      /\ back \in [Thread -> Label]
      /\ created \in [Thread -> Context \cup {NoContext}]
      /\ running \in [Worker -> Context \cup {NoContext}]
      /\ Worker \subseteq Thread /\ Main \in Thread
      /\ Main \notin Worker /\ Net \notin Worker
      /\ Logger \in Context /\ NoContext \notin Context
      /\ LoggerGone => LoggerGone'
      /\ \A t \in Thread : Locals(t) /\ Place(t) /\ LogsFrom(t) /\ LoggerRun(t)
  BY RefTypes, Types, GoneKept DEF SafeInv, Speaks
<1>2. ASSUME NEW t \in Thread, grab_context(t) PROVE (LogsFrom(u) /\ LoggerRun(u))'
  BY <1>1, <1>2 DEF grab_context, Goto, Return, runVars, sendVars, LogsFrom,
     LoggerRun, Locals, Place, Sending, Creating, Resumes, Idle
<1>3. ASSUME NEW t \in Thread, check_valid(t) PROVE (LogsFrom(u) /\ LoggerRun(u))'
  BY <1>1, <1>3 DEF check_valid, EndSend, Goto, IsValid, Return, runVars,
     sendVars, LogsFrom, LoggerRun, Locals, Place, Sending, Creating,
     Resumes, Idle
<1>4. ASSUME NEW t \in Thread, push_message(t) PROVE (LogsFrom(u) /\ LoggerRun(u))'
  BY <1>1, <1>4 DEF push_message, EndSend, Goto, Return, runVars, sendVars,
     LogsFrom, LoggerRun, Locals, Place, Sending, Creating, Resumes, Idle
<1>5. ASSUME NEW t \in Thread, push_context(t) PROVE (LogsFrom(u) /\ LoggerRun(u))'
  BY <1>1, <1>5 DEF push_context, Goto, runVars, sendVars, LogsFrom,
     LoggerRun, Locals, Place, Sending, Creating, Resumes, Idle
<1>6. ASSUME NEW t \in Thread, push_one(t) PROVE (LogsFrom(u) /\ LoggerRun(u))'
  BY <1>1, <1>6 DEF push_one, AfterPush, EndSend, Goto, Return, sendVars,
     LogsFrom, LoggerRun, Locals, Place, Sending, Creating, Resumes, Idle
<1>7. ASSUME NEW t \in Thread, sem_post(t) PROVE (LogsFrom(u) /\ LoggerRun(u))'
  BY <1>1, <1>7 DEF sem_post, AfterPush, EndSend, Goto, Return, runVars,
     sendVars, LogsFrom, LoggerRun, Locals, Place, Sending, Creating,
     Resumes, Idle
<1>8. ASSUME NEW t \in Thread, release_dest(t) PROVE (LogsFrom(u) /\ LoggerRun(u))'
  BY <1>1, <1>8 DEF release_dest, Goto, Release, Return, runVars, LogsFrom,
     LoggerRun, Locals, Place, Sending, Creating, Resumes, Idle
<1>9. ASSUME NEW t \in Thread, init(t) PROVE (LogsFrom(u) /\ LoggerRun(u))'
  BY <1>1, <1>9 DEF init, CallLog, Goto, runVars, sendVars, LogsFrom,
     LoggerRun, Locals, Place, Sending, Creating, Resumes, Idle
<1>10. ASSUME NEW t \in Thread, lua_ctx_init(t) PROVE (LogsFrom(u) /\ LoggerRun(u))'
  BY <1>1, <1>10 DEF lua_ctx_init, Goto, runVars, sendVars, LogsFrom,
     LoggerRun, Locals, Place, Sending, Creating, Resumes, Idle
<1>11. ASSUME NEW t \in Thread, set_inited(t) PROVE (LogsFrom(u) /\ LoggerRun(u))'
  BY <1>1, <1>11 DEF set_inited, Goto, SendCreated, runVars, LogsFrom,
     LoggerRun, Locals, Place, Sending, Creating, Resumes, Idle
<1>12. ASSUME NEW t \in Thread, retire_created(t) PROVE (LogsFrom(u) /\ LoggerRun(u))'
  BY <1>1, <1>12 DEF retire_created, Goto, Release, Retire, SendCreated,
     runVars, LogsFrom, LoggerRun, Locals, Place, Sending, Creating,
     Resumes, Idle
<1>13. ASSUME NEW t \in Thread, check_load(t) PROVE (LogsFrom(u) /\ LoggerRun(u))'
  BY <1>1, <1>13 DEF check_load, AfterCreate, Goto, runVars, sendVars,
     LogsFrom, LoggerRun, Locals, Place, Sending, Creating, Resumes, Idle
<1>14. ASSUME NEW t \in Thread, start_worker(t) PROVE (LogsFrom(u) /\ LoggerRun(u))'
  BY <1>1, <1>14 DEF start_worker, AfterCreate, Goto, runVars, sendVars,
     LogsFrom, LoggerRun, Locals, Place, Sending, Creating, Resumes, Idle
<1>15. ASSUME NEW t \in Thread, check_alive(t) PROVE (LogsFrom(u) /\ LoggerRun(u))'
  <2>1. /\ pc[t] = "check_alive" /\ dest[t] = NoContext
        /\ t \in Worker /\ running[t] = Logger => LoggerGone
        /\ UNCHANGED <<running, created>>
    BY <1>1, <1>15 DEF check_alive, runVars, Place, Sending, LoggerRun
  <2>2. CASE CallSend(t, Logger, "destroy", AfterAlive(t)) /\ m_handle[Logger]
    BY <1>1, <2>1, <2>2 DEF CallSend, Goto, LogsFrom, LoggerRun, LoggerGone,
       Creating
  <2>3. CASE /\ UNCHANGED sendVars
             /\ \E l \in {"stop", "join", "handle", "finish"} :
                    pc' = [pc EXCEPT ![t] = l]
    BY <1>1, <2>1, <2>3 DEF sendVars, LogsFrom, LoggerRun, Creating
  <2>. QED BY <1>15, <2>2, <2>3 DEF check_alive, AfterAlive, Goto
<1>16. ASSUME NEW t \in Thread, stop(t) PROVE (LogsFrom(u) /\ LoggerRun(u))'
  BY <1>1, <1>16 DEF stop, AfterAlive, Goto, runVars, sendVars, LogsFrom,
     LoggerRun, Locals, Place, Sending, Creating, Resumes, Idle
<1>17. ASSUME NEW t \in Thread, wakeup(t) PROVE (LogsFrom(u) /\ LoggerRun(u))'
  BY <1>1, <1>17 DEF wakeup, AfterAlive, Goto, runVars, sendVars, LogsFrom,
     LoggerRun, Locals, Place, Sending, Creating, Resumes, Idle
<1>18. ASSUME NEW t \in Worker, loop(t) PROVE (LogsFrom(u) /\ LoggerRun(u))'
  BY <1>1, <1>18 DEF loop, Goto, runVars, sendVars, LogsFrom, LoggerRun,
     Locals, Place, Sending, Creating, Resumes, Idle
<1>19. ASSUME NEW t \in Worker, try_pop_one(t) PROVE (LogsFrom(u) /\ LoggerRun(u))'
  BY <1>1, <1>19 DEF try_pop_one, Goto, sendVars, LogsFrom, LoggerRun,
     Locals, Place, Sending, Creating, Resumes, Idle
<1>20. ASSUME NEW t \in Worker, steal_context(t) PROVE (LogsFrom(u) /\ LoggerRun(u))'
  <2>1. /\ pc[t] = "steal_context" /\ dest[t] = NoContext
        /\ UNCHANGED <<dest, type, back, created>>
    BY <1>1, <1>20 DEF steal_context, sendVars, Place, Sending
  <2>2. /\ pc'[t] \in {"push_many", "attach", "steal_context", "wait"}
        /\ \A v \in Thread \ {t} : pc'[v] = pc[v]
        /\ \A v \in Worker \ {t} : running'[v] = running[v]
    <3>1. CASE StealFrom(t, scan[t])
      <4>1. /\ running' = [running EXCEPT ![t] = Head(queue[scan[t]])]
            /\ \E l \in {"push_many", "attach"} : pc' = [pc EXCEPT ![t] = l]
        BY <3>1 DEF StealFrom, Goto
      <4>. QED BY <1>1, <4>1
    <3>2. CASE ~StealFrom(t, scan[t])
      BY <1>1, <1>20, <2>1, <3>2 DEF steal_context, Goto
    <3>. QED BY <3>1, <3>2
  <2>. QED BY <1>1, <2>1, <2>2 DEF LogsFrom, LoggerRun, Creating
<1>21. ASSUME NEW t \in Worker, push_many(t) PROVE (LogsFrom(u) /\ LoggerRun(u))'
  BY <1>1, <1>21 DEF push_many, Goto, sendVars, LogsFrom, LoggerRun, Locals,
     Place, Sending, Creating, Resumes, Idle
<1>22. ASSUME NEW t \in Worker, wait(t) PROVE (LogsFrom(u) /\ LoggerRun(u))'
  BY <1>1, <1>22 DEF wait, Goto, runVars, sendVars, LogsFrom, LoggerRun,
     Locals, Place, Sending, Creating, Resumes, Idle
<1>23. ASSUME NEW t \in Worker, attach(t) PROVE (LogsFrom(u) /\ LoggerRun(u))'
  BY <1>1, <1>23 DEF attach, Goto, sendVars, LogsFrom, LoggerRun, Locals,
     Place, Sending, Creating, Resumes, Idle
<1>24. ASSUME NEW t \in Worker, turn(t) PROVE (LogsFrom(u) /\ LoggerRun(u))'
  BY <1>1, <1>24 DEF turn, Goto, IsValid, MayGoOn, runVars, sendVars,
     LogsFrom, LoggerRun, Locals, Place, Sending, Creating, Resumes, Idle
<1>25. ASSUME NEW t \in Worker, pop_message(t) PROVE (LogsFrom(u) /\ LoggerRun(u))'
  BY <1>1, <1>25 DEF pop_message, Goto, IsValid, sendVars, LogsFrom,
     LoggerRun, Locals, Place, Sending, Creating, Resumes, Idle
<1>26. ASSUME NEW t \in Worker, release_running(t) PROVE (LogsFrom(u) /\ LoggerRun(u))'
  BY <1>1, <1>26 DEF release_running, Goto, Release, sendVars, LogsFrom,
     LoggerRun, Locals, Place, Sending, Creating, Resumes, Idle
<1>27. ASSUME NEW t \in Worker, lua_acts(t) PROVE (LogsFrom(u) /\ LoggerRun(u))'
  BY <1>1, <1>27 DEF lua_acts, CallLog, CallSend, Goto, Register, runVars,
     sendVars, LogsFrom, LoggerRun, Locals, Place, Sending, Creating,
     Resumes, Idle
<1>28. ASSUME NEW t \in Worker, handle(t) PROVE (LogsFrom(u) /\ LoggerRun(u))'
  BY <1>1, <1>28 DEF handle, Goto, runVars, sendVars, LogsFrom, LoggerRun,
     Locals, Place, Sending, Creating, Resumes, Idle
<1>29. ASSUME NEW t \in Worker, drop(t) PROVE (LogsFrom(u) /\ LoggerRun(u))'
  BY <1>1, <1>29 DEF drop, CallSend, Goto, runVars, sendVars, LogsFrom,
     LoggerRun, Locals, Place, Sending, Creating, Resumes, Idle
<1>30. ASSUME NEW t \in Worker, finish(t) PROVE (LogsFrom(u) /\ LoggerRun(u))'
  BY <1>1, <1>30 DEF finish, Goto, sendVars, LogsFrom, LoggerRun, Locals,
     Place, Sending, Creating, Resumes, Idle
<1>31. ASSUME NEW t \in Worker, deinit(t) PROVE (LogsFrom(u) /\ LoggerRun(u))'
  BY <1>1, <1>31 DEF deinit, CallLog, CallSend, Goto, runVars, sendVars,
     LogsFrom, LoggerRun, Locals, Place, Sending, Creating, Resumes, Idle
<1>32. ASSUME NEW t \in Worker, unset_inited(t) PROVE (LogsFrom(u) /\ LoggerRun(u))'
  BY <1>1, <1>32 DEF unset_inited, Goto, runVars, sendVars, LogsFrom,
     LoggerRun, Locals, Place, Sending, Creating, Resumes, Idle
<1>33. ASSUME NEW t \in Worker, retire_context(t) PROVE (LogsFrom(u) /\ LoggerRun(u))'
  <2>1. /\ pc[t] = "retire_context" /\ dest[t] = NoContext
        /\ running[t] \in Context
        /\ m_handle' = [m_handle EXCEPT ![running[t]] = FALSE]
        /\ pc' = [pc EXCEPT ![t] = "check_alive"]
        /\ UNCHANGED <<dest, type, back, created, running>>
    BY <1>1, <1>33 DEF retire_context, Retire, Goto, sendVars, runVars,
       Locals, Place, Sending, Idle
  <2>2. running[t] = Logger => LoggerGone'
    <3>1. running[t] = Logger => m_alloc[Logger] # "none"
      BY <1>1 DEF SafeInv, Birth, Fresh
    <3>2. m_alloc[Logger] # "none" => m_alloc'[Logger] # "none"
      BY <1>1, AllocKept
    <3>3. m_handle \in [Context -> BOOLEAN] BY RefTypes
    <3>. QED BY <1>1, <2>1, <3>1, <3>2, <3>3 DEF LoggerGone
  <2>. QED BY <1>1, <2>1, <2>2 DEF LogsFrom, LoggerRun, Creating
<1>34. ASSUME NEW t \in Worker, repush_context(t) PROVE (LogsFrom(u) /\ LoggerRun(u))'
  BY <1>1, <1>34 DEF repush_context, Goto, runVars, sendVars, LogsFrom,
     LoggerRun, Locals, Place, Sending, Creating, Resumes, Idle
<1>35. ASSUME NEW t \in Worker, shortest(t) PROVE (LogsFrom(u) /\ LoggerRun(u))'
  BY <1>1, <1>35 DEF shortest, Goto, runVars, sendVars, LogsFrom, LoggerRun,
     Locals, Place, Sending, Creating, Resumes, Idle
<1>36. ASSUME boot_logger PROVE (LogsFrom(u) /\ LoggerRun(u))'
  BY <1>1, <1>36 DEF boot_logger, Goto, Register, runVars, sendVars,
     LogsFrom, LoggerRun, Locals, Place, Sending, Creating, Resumes, Idle
<1>37. ASSUME grab_logger PROVE (LogsFrom(u) /\ LoggerRun(u))'
  BY <1>1, <1>37 DEF grab_logger, Goto, runVars, sendVars, LogsFrom,
     LoggerRun, Locals, Place, Sending, Creating, Resumes, Idle
<1>38. ASSUME boot_root PROVE (LogsFrom(u) /\ LoggerRun(u))'
  BY <1>1, <1>38 DEF boot_root, Goto, Register, runVars, sendVars, LogsFrom,
     LoggerRun, Locals, Place, Sending, Creating, Resumes, Idle
<1>39. ASSUME response PROVE (LogsFrom(u) /\ LoggerRun(u))'
  BY <1>1, <1>39 DEF response, CallSend, Goto, runVars, LogsFrom, LoggerRun,
     Locals, Place, Sending, Creating, Resumes, Idle
<1>40. ASSUME NEW t \in Thread, Send(t) PROVE (LogsFrom(u) /\ LoggerRun(u))'
  BY <1>40, <1>2, <1>3, <1>4, <1>5, <1>6, <1>7, <1>8 DEF Send
<1>41. ASSUME NEW t \in Thread, Create(t) PROVE (LogsFrom(u) /\ LoggerRun(u))'
  BY <1>41, <1>9, <1>10, <1>11, <1>12, <1>13, <1>14 DEF Create
<1>42. ASSUME NEW t \in Thread, Stop(t) PROVE (LogsFrom(u) /\ LoggerRun(u))'
  BY <1>42, <1>15, <1>16, <1>17 DEF Stop
<1>43. ASSUME NEW t \in Worker, WorkerProcess(t) PROVE (LogsFrom(u) /\
   LoggerRun(u))'
  BY <1>43, <1>18, <1>19, <1>20, <1>21, <1>22, <1>23, <1>24, <1>25, <1>26,
     <1>27, <1>28, <1>29, <1>30, <1>31, <1>32, <1>33, <1>34, <1>35 DEF
     WorkerProcess
<1>. QED
  BY <1>40, <1>41, <1>42, <1>43, <1>36, <1>37, <1>38, <1>39 DEF Next, Step,
     Boot

\* What begins the end: the check that only the logger is registered, the
\* message that was sent then, and the check that nobody is.
EndStep(t) ==
    /\ TellsEnd(t)' =>
           \/ TellsEnd(t)
           \/ pc[t] = "check_alive" /\ m_ctx_size = 1 /\ m_handle[Logger]
    /\ Ends(t)' =>
           \/ Ends(t)
           \/ /\ m_message_queue[Logger] # << >>
              /\ Head(m_message_queue[Logger]) = "destroy"
              /\ m_message_queue'[Logger] = Tail(m_message_queue[Logger])
    /\ m_exiting' \/ pc'[t] \in {"stop", "wakeup", "exited"} =>
           \/ Stopping
           \/ pc[t] = "check_alive" /\ m_ctx_size = 0

\* Nothing else does.
LEMMA EndSteps ==
    ASSUME SafeInv, Speaks, Next, NEW u \in Thread
    PROVE  EndStep(u)
<1>1. /\ pc \in [Thread -> Label]
      /\ dest \in [Thread -> Context \cup {NoContext}]
      /\ type \in [Thread -> Message]
      /\ back \in [Thread -> Label]
      /\ created \in [Thread -> Context \cup {NoContext}]
      /\ running \in [Worker -> Context \cup {NoContext}]
      /\ Worker \subseteq Thread /\ Main \in Thread
      /\ Main \notin Worker /\ Net \notin Worker
      /\ Logger \in Context /\ NoContext \notin Context
      /\ m_message_queue \in [Context -> Seq(Message)]
      /\ message \in [Worker -> Message]
      /\ \A t \in Thread : Locals(t) /\ Place(t) /\ LoggerRun(t)
  BY RefTypes, Types DEF SafeInv, Speaks
<1>2. ASSUME NEW t \in Thread, grab_context(t) PROVE EndStep(u)
  BY <1>1, <1>2 DEF grab_context, Goto, Return, mgrVars, runVars, sendVars,
     EndStep, TellsEnd, Ends, Stopping, LoggerRun, LoggerGone, Locals,
     Place, Sending, Creating, Resumes, Idle
<1>3. ASSUME NEW t \in Thread, check_valid(t) PROVE EndStep(u)
  BY SMTT(30), <1>1, <1>3 DEF check_valid, EndSend, Goto, IsValid, Return, ctxVars,
     mgrVars, runVars, sendVars, EndStep, TellsEnd, Ends, Stopping,
     LoggerRun, LoggerGone, Locals, Place, Sending, Creating, Resumes, Idle
<1>4. ASSUME NEW t \in Thread, push_message(t) PROVE EndStep(u)
  <2>1. /\ pc[t] = "push_message"
        /\ dest[t] \in Context
        /\ UNCHANGED <<type, running, message, m_exiting>>
        /\ \/ EndSend(t)
           \/ Goto(t, "push_context") /\ UNCHANGED sendVars
    BY <1>1, <1>4 DEF push_message, Locals, mgrVars, runVars, EndSend,
       Return, sendVars
  <2>2. /\ \A v \in Thread \ {t} : pc'[v] = pc[v] /\ dest'[v] = dest[v]
        /\ dest'[t] \in {dest[t], NoContext}
        /\ pc'[t] \notin {"stop", "wakeup", "exited"}
        /\ \/ pc'[t] \in {"push_context", "release_dest"}
           \/ pc'[t] = back[t]
    BY <1>1, <2>1 DEF EndSend, Goto, Return, sendVars, Locals, Resumes
  <2>. QED BY <1>1, <2>1, <2>2 DEF EndStep, TellsEnd, Ends, Stopping,
           LoggerRun, Resumes, Locals
<1>5. ASSUME NEW t \in Thread, push_context(t) PROVE EndStep(u)
  BY SMTT(30), <1>1, <1>5 DEF push_context, Goto, runVars, sendVars, EndStep,
     TellsEnd, Ends, Stopping, LoggerRun, LoggerGone, Locals, Place,
     Sending, Creating, Resumes, Idle
<1>6. ASSUME NEW t \in Thread, push_one(t) PROVE EndStep(u)
  BY SMTT(30), <1>1, <1>6 DEF push_one, AfterPush, EndSend, Goto, Return, ctxVars,
     sendVars, EndStep, TellsEnd, Ends, Stopping, LoggerRun, LoggerGone,
     Locals, Place, Sending, Creating, Resumes, Idle
<1>7. ASSUME NEW t \in Thread, sem_post(t) PROVE EndStep(u)
  BY SMTT(30), <1>1, <1>7 DEF sem_post, AfterPush, EndSend, Goto, Return, ctxVars,
     runVars, sendVars, EndStep, TellsEnd, Ends, Stopping, LoggerRun,
     LoggerGone, Locals, Place, Sending, Creating, Resumes, Idle
<1>8. ASSUME NEW t \in Thread, release_dest(t) PROVE EndStep(u)
  BY SMTT(30), <1>1, <1>8 DEF release_dest, Goto, Release, Return, mgrVars, runVars,
     EndStep, TellsEnd, Ends, Stopping, LoggerRun, LoggerGone, Locals,
     Place, Sending, Creating, Resumes, Idle
<1>9. ASSUME NEW t \in Thread, init(t) PROVE EndStep(u)
  BY <1>1, <1>9 DEF init, CallLog, Goto, ctxVars, mgrVars, runVars,
     sendVars, EndStep, TellsEnd, Ends, Stopping, LoggerRun, LoggerGone,
     Locals, Place, Sending, Creating, Resumes, Idle
<1>10. ASSUME NEW t \in Thread, lua_ctx_init(t) PROVE EndStep(u)
  BY <1>1, <1>10 DEF lua_ctx_init, Goto, mgrVars, runVars, sendVars,
     EndStep, TellsEnd, Ends, Stopping, LoggerRun, LoggerGone, Locals,
     Place, Sending, Creating, Resumes, Idle
<1>11. ASSUME NEW t \in Thread, set_inited(t) PROVE EndStep(u)
  BY <1>1, <1>11 DEF set_inited, Goto, SendCreated, mgrVars, runVars,
     EndStep, TellsEnd, Ends, Stopping, LoggerRun, LoggerGone, Locals,
     Place, Sending, Creating, Resumes, Idle
<1>12. ASSUME NEW t \in Thread, retire_created(t) PROVE EndStep(u)
  BY <1>1, <1>12 DEF retire_created, Goto, Release, Retire, SendCreated,
     mgrVars, runVars, EndStep, TellsEnd, Ends, Stopping, LoggerRun,
     LoggerGone, Locals, Place, Sending, Creating, Resumes, Idle
<1>13. ASSUME NEW t \in Thread, check_load(t) PROVE EndStep(u)
  BY <1>1, <1>13 DEF check_load, AfterCreate, Goto, ctxVars, mgrVars,
     runVars, sendVars, EndStep, TellsEnd, Ends, Stopping, LoggerRun,
     LoggerGone, Locals, Place, Sending, Creating, Resumes, Idle
<1>14. ASSUME NEW t \in Thread, start_worker(t) PROVE EndStep(u)
  BY <1>1, <1>14 DEF start_worker, AfterCreate, Goto, ctxVars, runVars,
     sendVars, EndStep, TellsEnd, Ends, Stopping, LoggerRun, LoggerGone,
     Locals, Place, Sending, Creating, Resumes, Idle
<1>15. ASSUME NEW t \in Thread, check_alive(t) PROVE EndStep(u)
  BY <1>1, <1>15 DEF check_alive, AfterAlive, CallSend, Goto, ctxVars,
     mgrVars, runVars, sendVars, EndStep, TellsEnd, Ends, Stopping,
     LoggerRun, LoggerGone, Locals, Place, Sending, Creating, Resumes, Idle
<1>16. ASSUME NEW t \in Thread, stop(t) PROVE EndStep(u)
  BY <1>1, <1>16 DEF stop, AfterAlive, Goto, ctxVars, runVars, sendVars,
     EndStep, TellsEnd, Ends, Stopping, LoggerRun, LoggerGone, Locals,
     Place, Sending, Creating, Resumes, Idle
<1>17. ASSUME NEW t \in Thread, wakeup(t) PROVE EndStep(u)
  BY <1>1, <1>17 DEF wakeup, AfterAlive, Goto, ctxVars, runVars, sendVars,
     EndStep, TellsEnd, Ends, Stopping, LoggerRun, LoggerGone, Locals,
     Place, Sending, Creating, Resumes, Idle
<1>18. ASSUME NEW t \in Worker, loop(t) PROVE EndStep(u)
  BY <1>1, <1>18 DEF loop, Goto, ctxVars, mgrVars, runVars, sendVars,
     EndStep, TellsEnd, Ends, Stopping, LoggerRun, LoggerGone, Locals,
     Place, Sending, Creating, Resumes, Idle
<1>19. ASSUME NEW t \in Worker, try_pop_one(t) PROVE EndStep(u)
  BY <1>1, <1>19 DEF try_pop_one, Goto, ctxVars, sendVars, EndStep,
     TellsEnd, Ends, Stopping, LoggerRun, LoggerGone, Locals, Place,
     Sending, Creating, Resumes, Idle
<1>20. ASSUME NEW t \in Worker, steal_context(t) PROVE EndStep(u)
  <2>1. /\ pc[t] = "steal_context" /\ dest[t] = NoContext
        /\ UNCHANGED <<dest, type, message, m_message_queue, m_exiting>>
    BY <1>1, <1>20 DEF steal_context, ctxVars, sendVars, Place, Sending
  <2>2. /\ pc'[t] \in {"push_many", "attach", "steal_context", "wait"}
        /\ \A v \in Thread \ {t} : pc'[v] = pc[v]
        /\ \A v \in Worker \ {t} : running'[v] = running[v]
    <3>1. CASE StealFrom(t, scan[t])
      <4>1. /\ running' = [running EXCEPT ![t] = Head(queue[scan[t]])]
            /\ \E l \in {"push_many", "attach"} : pc' = [pc EXCEPT ![t] = l]
        BY <3>1 DEF StealFrom, Goto
      <4>. QED BY <1>1, <4>1
    <3>2. CASE ~StealFrom(t, scan[t])
      BY <1>1, <1>20, <2>1, <3>2 DEF steal_context, Goto
    <3>. QED BY <3>1, <3>2
  <2>. QED BY <1>1, <2>1, <2>2 DEF EndStep, TellsEnd, Ends, Stopping
<1>21. ASSUME NEW t \in Worker, push_many(t) PROVE EndStep(u)
  BY <1>1, <1>21 DEF push_many, Goto, ctxVars, sendVars, EndStep, TellsEnd,
     Ends, Stopping, LoggerRun, LoggerGone, Locals, Place, Sending,
     Creating, Resumes, Idle
<1>22. ASSUME NEW t \in Worker, wait(t) PROVE EndStep(u)
  BY <1>1, <1>22 DEF wait, Goto, ctxVars, runVars, sendVars, EndStep,
     TellsEnd, Ends, Stopping, LoggerRun, LoggerGone, Locals, Place,
     Sending, Creating, Resumes, Idle
<1>23. ASSUME NEW t \in Worker, attach(t) PROVE EndStep(u)
  BY <1>1, <1>23 DEF attach, Goto, mgrVars, sendVars, EndStep, TellsEnd,
     Ends, Stopping, LoggerRun, LoggerGone, Locals, Place, Sending,
     Creating, Resumes, Idle
<1>24. ASSUME NEW t \in Worker, turn(t) PROVE EndStep(u)
  BY <1>1, <1>24 DEF turn, Goto, IsValid, MayGoOn, mgrVars, runVars,
     sendVars, EndStep, TellsEnd, Ends, Stopping, LoggerRun, LoggerGone,
     Locals, Place, Sending, Creating, Resumes, Idle
<1>25. ASSUME NEW t \in Worker, pop_message(t) PROVE EndStep(u)
  BY SMTT(30), <1>1, <1>25 DEF pop_message, Goto, IsValid, mgrVars, sendVars, EndStep,
     TellsEnd, Ends, Stopping, LoggerRun, LoggerGone, Locals, Place,
     Sending, Creating, Resumes, Idle
<1>26. ASSUME NEW t \in Worker, release_running(t) PROVE EndStep(u)
  BY <1>1, <1>26 DEF release_running, Goto, Release, mgrVars, sendVars,
     EndStep, TellsEnd, Ends, Stopping, LoggerRun, LoggerGone, Locals,
     Place, Sending, Creating, Resumes, Idle
<1>27. ASSUME NEW t \in Worker, lua_acts(t) PROVE EndStep(u)
  BY SMTT(30), <1>1, <1>27 DEF lua_acts, CallLog, CallSend, Goto, Register, ctxVars,
     mgrVars, runVars, sendVars, EndStep, TellsEnd, Ends, Stopping,
     LoggerRun, LoggerGone, Locals, Place, Sending, Creating, Resumes, Idle
<1>28. ASSUME NEW t \in Worker, handle(t) PROVE EndStep(u)
  BY <1>1, <1>28 DEF handle, Goto, ctxVars, mgrVars, runVars, sendVars,
     EndStep, TellsEnd, Ends, Stopping, LoggerRun, LoggerGone, Locals,
     Place, Sending, Creating, Resumes, Idle
<1>29. ASSUME NEW t \in Worker, drop(t) PROVE EndStep(u)
  BY <1>1, <1>29 DEF drop, CallSend, Goto, ctxVars, mgrVars, runVars,
     sendVars, EndStep, TellsEnd, Ends, Stopping, LoggerRun, LoggerGone,
     Locals, Place, Sending, Creating, Resumes, Idle
<1>30. ASSUME NEW t \in Worker, finish(t) PROVE EndStep(u)
  BY <1>1, <1>30 DEF finish, Goto, ctxVars, mgrVars, sendVars, EndStep,
     TellsEnd, Ends, Stopping, LoggerRun, LoggerGone, Locals, Place,
     Sending, Creating, Resumes, Idle
<1>31. ASSUME NEW t \in Worker, deinit(t) PROVE EndStep(u)
  BY <1>1, <1>31 DEF deinit, CallLog, CallSend, Goto, ctxVars, mgrVars,
     runVars, sendVars, EndStep, TellsEnd, Ends, Stopping, LoggerRun,
     LoggerGone, Locals, Place, Sending, Creating, Resumes, Idle
<1>32. ASSUME NEW t \in Worker, unset_inited(t) PROVE EndStep(u)
  BY <1>1, <1>32 DEF unset_inited, Goto, mgrVars, runVars, sendVars,
     EndStep, TellsEnd, Ends, Stopping, LoggerRun, LoggerGone, Locals,
     Place, Sending, Creating, Resumes, Idle
<1>33. ASSUME NEW t \in Worker, retire_context(t) PROVE EndStep(u)
  BY <1>1, <1>33 DEF retire_context, Goto, Release, Retire, mgrVars,
     runVars, sendVars, EndStep, TellsEnd, Ends, Stopping, LoggerRun,
     LoggerGone, Locals, Place, Sending, Creating, Resumes, Idle
<1>34. ASSUME NEW t \in Worker, repush_context(t) PROVE EndStep(u)
  BY <1>1, <1>34 DEF repush_context, Goto, ctxVars, mgrVars, runVars,
     sendVars, EndStep, TellsEnd, Ends, Stopping, LoggerRun, LoggerGone,
     Locals, Place, Sending, Creating, Resumes, Idle
<1>35. ASSUME NEW t \in Worker, shortest(t) PROVE EndStep(u)
  BY <1>1, <1>35 DEF shortest, Goto, ctxVars, mgrVars, runVars, sendVars,
     EndStep, TellsEnd, Ends, Stopping, LoggerRun, LoggerGone, Locals,
     Place, Sending, Creating, Resumes, Idle
<1>36. ASSUME boot_logger PROVE EndStep(u)
  BY <1>1, <1>36 DEF boot_logger, Goto, Register, mgrVars, runVars,
     sendVars, EndStep, TellsEnd, Ends, Stopping, LoggerRun, LoggerGone,
     Locals, Place, Sending, Creating, Resumes, Idle
<1>37. ASSUME grab_logger PROVE EndStep(u)
  BY <1>1, <1>37 DEF grab_logger, Goto, mgrVars, runVars, sendVars, EndStep,
     TellsEnd, Ends, Stopping, LoggerRun, LoggerGone, Locals, Place,
     Sending, Creating, Resumes, Idle
<1>38. ASSUME boot_root PROVE EndStep(u)
  BY <1>1, <1>38 DEF boot_root, Goto, Register, mgrVars, runVars, sendVars,
     EndStep, TellsEnd, Ends, Stopping, LoggerRun, LoggerGone, Locals,
     Place, Sending, Creating, Resumes, Idle
<1>39. ASSUME response PROVE EndStep(u)
  BY <1>1, <1>39 DEF response, CallSend, Goto, ctxVars, mgrVars, runVars,
     EndStep, TellsEnd, Ends, Stopping, LoggerRun, LoggerGone, Locals,
     Place, Sending, Creating, Resumes, Idle
<1>40. ASSUME NEW t \in Thread, Send(t) PROVE EndStep(u)
  BY <1>40, <1>2, <1>3, <1>4, <1>5, <1>6, <1>7, <1>8 DEF Send
<1>41. ASSUME NEW t \in Thread, Create(t) PROVE EndStep(u)
  BY <1>41, <1>9, <1>10, <1>11, <1>12, <1>13, <1>14 DEF Create
<1>42. ASSUME NEW t \in Thread, Stop(t) PROVE EndStep(u)
  BY <1>42, <1>15, <1>16, <1>17 DEF Stop
<1>43. ASSUME NEW t \in Worker, WorkerProcess(t) PROVE EndStep(u)
  BY <1>43, <1>18, <1>19, <1>20, <1>21, <1>22, <1>23, <1>24, <1>25, <1>26,
     <1>27, <1>28, <1>29, <1>30, <1>31, <1>32, <1>33, <1>34, <1>35 DEF
     WorkerProcess
<1>. QED
  BY <1>40, <1>41, <1>42, <1>43, <1>36, <1>37, <1>38, <1>39 DEF Next, Step,
     Boot

-----------------------------------------------------------------------------
(* The invariant holds in every state.                                      *)

\* The registry is finite, and what its size tells.
LEMMA RegistrySize ==
    ASSUME SafeInv
    PROVE  /\ IsFiniteSet(Registry)
           /\ Cardinality(Registry) = 0 => Registry = {}
           /\ Cardinality(Registry) = 1 /\ m_handle[Logger]
                  => Registry = {Logger}
<1>1. IsFiniteSet(Registry)
  BY SchedulerAssumption, FS_Subset DEF Registry
<1>2. Cardinality(Registry) = 0 => Registry = {} BY <1>1, FS_EmptySet
<1>3. ASSUME Cardinality(Registry) = 1, m_handle[Logger]
      PROVE  Registry = {Logger}
  <2>. DEFINE R == Registry \ {Logger}
  <2>1. Logger \in Registry BY <1>3, RefTypes DEF Registry
  <2>2. IsFiniteSet(R) /\ Cardinality(R) = Cardinality(Registry) - 1
    BY <1>1, <2>1, FS_RemoveElement
  <2>3. Cardinality(R) = 0 BY <1>3, <2>2
  <2>4. R = {} BY <2>2, <2>3, FS_EmptySet
  <2>. QED BY <2>1, <2>4
<1>. QED BY <1>1, <1>2, <1>3

\* The registry and m_ctx_size change together.
LEMMA SizeNext ==
    ASSUME SafeInv, Registered, SizeExact, Next
    PROVE  SizeExact'
<1>1. /\ m_handle \in [Context -> BOOLEAN]
      /\ created \in [Thread -> Context \cup {NoContext}]
      /\ running \in [Worker -> Context \cup {NoContext}]
      /\ Worker \subseteq Thread /\ NoContext \notin Context
      /\ \A t \in Thread : Locals(t)
  BY RefTypes
<1>2. IsFiniteSet(Registry) /\ Cardinality(Registry) \in Nat
  BY RegistrySize, FS_CardinalityType
<1>3. ASSUME NEW c \in Context, m_handle[c], m_ctx_size' = m_ctx_size - 1,
             m_handle' = [m_handle EXCEPT ![c] = FALSE]
      PROVE  SizeExact'
  <2>1. Registry' = Registry \ {c} /\ c \in Registry
    BY <1>1, <1>3 DEF Registry
  <2>2. Cardinality(Registry \ {c}) = Cardinality(Registry) - 1
    BY <1>2, <2>1, FS_RemoveElement
  <2>. QED BY <1>3, <2>1, <2>2 DEF SizeExact
<1>4. CASE UNCHANGED <<m_handle, m_ctx_size>>
  BY <1>4 DEF SizeExact, Registry
<1>5. ASSUME NEW t \in Thread, retire_created(t) PROVE SizeExact'
  BY <1>1, <1>3, <1>5 DEF retire_created, Retire, Locals, Registered
<1>6. ASSUME NEW w \in Worker, retire_context(w) PROVE SizeExact'
  <2>1. /\ running[w] \in Context /\ m_handle[running[w]]
        /\ m_handle' = [m_handle EXCEPT ![running[w]] = FALSE]
        /\ m_ctx_size' = m_ctx_size - 1
    BY <1>1, <1>6 DEF retire_context, Retire, Locals, Idle, Registered,
       Unretired
  <2>. QED BY <1>3, <2>1
<1>7. ASSUME NEW t \in Thread, NEW c \in Context, Registers(t, c)
      PROVE  SizeExact'
  <2>1. /\ m_handle' = [m_handle EXCEPT ![c] = TRUE]
        /\ m_ctx_size' = m_ctx_size + 1 /\ m_alloc[c] = "none"
    BY <1>7 DEF Registers, Register
  <2>2. ~m_handle[c] BY <2>1 DEF SafeInv, Birth, Fresh
  <2>3. Registry' = Registry \cup {c} /\ c \notin Registry
    BY <1>1, <2>1, <2>2 DEF Registry
  <2>4. Cardinality(Registry \cup {c}) = Cardinality(Registry) + 1
    BY <1>2, <2>3, FS_AddElement
  <2>. QED BY <2>1, <2>3, <2>4 DEF SizeExact
<1>. QED BY <1>4, <1>5, <1>6, <1>7, HandleSteps DEF HandleStep

\* Only a context that is registered registers another.
LEMMA QuietNext ==
    ASSUME SafeInv, Registered, Quiet, Next
    PROVE  Quiet'
<1>1. /\ m_handle \in [Context -> BOOLEAN]
      /\ running \in [Worker -> Context \cup {NoContext}]
      /\ Worker \subseteq Thread /\ NoContext \notin Context
      /\ Root \in Context
      /\ \A t \in Thread : Locals(t)
  BY RefTypes
<1>2. m_alloc'[Root] # "none" BY <1>1, AllocKept DEF Quiet
<1>3. CASE UNCHANGED <<m_handle, m_ctx_size>> BY <1>2, <1>3 DEF Quiet
<1>4. ASSUME NEW t \in Thread, retire_created(t) PROVE Quiet'
  BY <1>1, <1>2, <1>4 DEF retire_created, Retire, Locals, Quiet
<1>5. ASSUME NEW w \in Worker, retire_context(w) PROVE Quiet'
  BY <1>1, <1>2, <1>5 DEF retire_context, Retire, Locals, Idle, Quiet
<1>6. ASSUME NEW t \in Thread, NEW c \in Context, Registers(t, c)
      PROVE  FALSE
  <2>1. CASE t \in Worker
    <3>1. pc[t] = "handle" /\ running[t] # Logger
      BY <1>6, <2>1 DEF Registers
    <3>2. running[t] \in Context BY <1>1, <2>1, <3>1 DEF Locals, Idle
    <3>3. m_handle[running[t]]
      BY <1>1, <2>1, <3>1, <3>2 DEF Registered, Unretired
    <3>. QED BY <3>1, <3>2, <3>3 DEF Quiet
  <2>2. CASE t \notin Worker
    <3>1. pc[Main] \in BootLabels BY <1>6, <2>2 DEF Registers, BootLabels
    <3>. QED BY <3>1 DEF SafeInv, Birth, Start, Quiet
  <2>. QED BY <2>1, <2>2
<1>. QED BY <1>3, <1>4, <1>5, <1>6, HandleSteps DEF HandleStep

\* Only a context that is registered logs.
LEMMA NobodyLogs ==
    ASSUME SafeInv, Registered, Speaks, Quiet, NEW t \in Thread,
           dest[t] # NoContext
    PROVE  type[t] # "log"
<1>. SUFFICES ASSUME type[t] = "log" PROVE FALSE OBVIOUS
<1>1. /\ dest \in [Thread -> Context \cup {NoContext}]
      /\ created \in [Thread -> Context \cup {NoContext}]
      /\ running \in [Worker -> Context \cup {NoContext}]
      /\ NoContext \notin Context
      /\ Locals(t) /\ Place(t)
  BY RefTypes
<1>2. CASE back[t] \in {"lua_ctx_init", "retire_created"}
  <2>1. created[t] \in Context /\ created[t] # Logger
    BY <1>1, <1>2 DEF Locals, Place
  <2>2. m_handle[created[t]] BY <1>1, <2>1 DEF Registered
  <2>. QED BY <2>1, <2>2 DEF Quiet
<1>3. CASE back[t] \notin {"lua_ctx_init", "retire_created"}
  <2>1. /\ t \in Worker /\ back[t] \in {"handle", "unset_inited"}
        /\ running[t] # Logger
    BY <1>3 DEF Speaks, LogsFrom
  <2>2. running[t] \in Context
    BY <1>1, <2>1 DEF Locals, Place, Sending, Idle
  <2>3. m_handle[running[t]] BY <1>1, <2>1, <2>2 DEF Registered, Unretired
  <2>. QED BY <2>1, <2>2, <2>3 DEF Quiet
<1>. QED BY <1>2, <1>3

\* A check of what is alive comes after the start of the process.
LEMMA CheckAfterStart ==
    ASSUME SafeInv, NEW t \in Thread, pc[t] = "check_alive"
    PROVE  m_alloc[Root] # "none" /\ m_alloc[Logger] # "none"
<1>1. m_alloc[Root] # "none" BY DEF SafeInv, Birth, Start, Booting
<1>. QED BY <1>1, RefTypes, Booted DEF SafeInv

\* What a step does to the messages of the logger.
LEMMA LoggerQueue ==
    ASSUME SafeInv, Next
    PROVE  \/ m_message_queue'[Logger] = m_message_queue[Logger]
           \/ \E t \in Thread :
                  /\ dest[t] = Logger /\ type[t] \in Message
                  /\ m_message_queue'[Logger] =
                         Append(m_message_queue[Logger], type[t])
           \/ /\ m_message_queue[Logger] # << >>
              /\ m_message_queue'[Logger] = Tail(m_message_queue[Logger])
<1>1. /\ m_message_queue \in [Context -> Seq(Message)]
      /\ type \in [Thread -> Message]
      /\ Worker \subseteq Thread /\ Logger \in Context
      /\ NoContext \notin Context
      /\ \A t \in Thread : Locals(t) /\ Place(t)
  BY RefTypes, Types DEF SafeInv
<1>2. ASSUME NEW t \in Thread, push_message(t)
      PROVE  \/ m_message_queue'[Logger] = m_message_queue[Logger]
             \/ /\ dest[t] = Logger /\ type[t] \in Message
                /\ m_message_queue'[Logger] =
                       Append(m_message_queue[Logger], type[t])
  BY <1>1, <1>2 DEF push_message, Locals
<1>3. ASSUME NEW t \in Thread, lua_ctx_init(t)
      PROVE  m_message_queue'[Logger] = m_message_queue[Logger]
  BY <1>1, <1>3 DEF lua_ctx_init, Locals, Place
<1>4. ASSUME NEW w \in Worker, pop_message(w)
      PROVE  \/ m_message_queue'[Logger] = m_message_queue[Logger]
             \/ /\ m_message_queue[Logger] # << >>
                /\ m_message_queue'[Logger] = Tail(m_message_queue[Logger])
  BY <1>1, <1>4 DEF pop_message, Locals, Idle
<1>5. MessageStep \/ UNCHANGED m_message_queue BY MessageSteps DEF SafeInv
<1>. QED BY <1>2, <1>3, <1>4, <1>5 DEF MessageStep

\* No message of the logger is a record, in terms of the steps of its queue.
LEMMA NoLogsKept ==
    ASSUME SafeInv, Registered, Speaks, Quiet, NoLogs, Next
    PROVE  NoLogs'
<1>. DEFINE q == m_message_queue[Logger]
            r == m_message_queue'[Logger]
<1>1. q \in Seq(Message) /\ NoContext \notin Context /\ Logger \in Context
  BY RefTypes, Types DEF SafeInv
<1>2. \A i \in 1 .. Len(q) : q[i] # "log" BY DEF NoLogs
<1>3. CASE r = q BY <1>2, <1>3 DEF NoLogs
<1>4. ASSUME NEW t \in Thread, dest[t] = Logger, type[t] \in Message,
             r = Append(q, type[t])
      PROVE  NoLogs'
  <2>1. type[t] # "log" BY <1>1, <1>4, NobodyLogs
  <2>2. \A i \in 1 .. Len(r) : r[i] # "log"
    <3>. HIDE DEF q, r
    <3>. QED BY <1>1, <1>2, <1>4, <2>1
  <2>. QED BY <2>2 DEF NoLogs
<1>5. CASE q # << >> /\ r = Tail(q)
  <2>1. \A i \in 1 .. Len(r) : r[i] # "log"
    <3>. HIDE DEF q, r
    <3>. QED BY <1>1, <1>2, <1>5
  <2>. QED BY <2>1 DEF NoLogs
<1>. QED BY <1>3, <1>4, <1>5, LoggerQueue

\* The message that ends the logger is sent only when nobody else is registered.
LEMMA ToldNext ==
    ASSUME SafeInv, Registered, SizeExact, EndInv, Next, Told'
    PROVE  Quiet'
<1>. DEFINE q == m_message_queue[Logger]
            r == m_message_queue'[Logger]
<1>1. q \in Seq(Message) BY RefTypes, Types DEF SafeInv
<1>2. SUFFICES Quiet BY <1>2, QuietNext
<1>3. Told => Quiet BY DEF EndInv
<1>4. ASSUME NEW t \in Thread, TellsEnd(t)' PROVE Quiet
  <2>1. CASE TellsEnd(t) BY <1>3, <2>1 DEF Told
  <2>2. CASE pc[t] = "check_alive" /\ m_ctx_size = 1 /\ m_handle[Logger]
    <3>1. Registry = {Logger} BY <2>2, RegistrySize DEF SizeExact
    <3>. QED BY <2>2, <3>1, CheckAfterStart DEF Quiet, Registry
  <2>. QED BY <1>4, <2>1, <2>2, EndSteps DEF EndInv, EndStep
<1>5. ASSUME NEW i \in 1 .. Len(r), r[i] = "destroy" PROVE Quiet
  <2>1. CASE r = q BY <1>3, <1>5, <2>1 DEF Told
  <2>2. ASSUME NEW t \in Thread, dest[t] = Logger, type[t] \in Message,
               r = Append(q, type[t])
        PROVE  Quiet
    <3>1. type[t] = "destroy" \/ \E j \in 1 .. Len(q) : q[j] = "destroy"
      <4>. HIDE DEF q, r
      <4>. QED BY <1>1, <1>5, <2>2
    <3>. QED BY <1>3, <2>2, <3>1 DEF Told, TellsEnd
  <2>3. CASE q # << >> /\ r = Tail(q)
    <3>1. \E j \in 1 .. Len(q) : q[j] = "destroy"
      <4>. HIDE DEF q, r
      <4>1. i + 1 \in 1 .. Len(q) /\ q[i + 1] = r[i] BY <1>1, <1>5, <2>3
      <4>. QED BY <1>5, <4>1
    <3>. QED BY <1>3, <3>1 DEF Told
  <2>. QED BY <2>1, <2>2, <2>3, LoggerQueue
<1>. QED BY <1>4, <1>5 DEF Told

\* The logger ends after its last record.
LEMMA EndsNext ==
    ASSUME SafeInv, Registered, EndInv, Next,
           (\E t \in Thread : Ends(t))' \/ LoggerGone'
    PROVE  Quiet' /\ NoLogs'
<1>. DEFINE q == m_message_queue[Logger]
            r == m_message_queue'[Logger]
<1>1. /\ q \in Seq(Message) /\ Worker \subseteq Thread
      /\ m_handle \in [Context -> BOOLEAN]
      /\ created \in [Thread -> Context \cup {NoContext}]
      /\ running \in [Worker -> Context \cup {NoContext}]
      /\ NoContext \notin Context /\ Logger \in Context
      /\ \A t \in Thread : Locals(t) /\ Place(t)
  BY RefTypes, Types DEF SafeInv
<1>2. Speaks BY DEF EndInv
<1>3. CASE (\E t \in Thread : Ends(t)) \/ LoggerGone
  <2>1. Quiet /\ NoLogs BY <1>3 DEF EndInv
  <2>. QED BY <1>2, <2>1, QuietNext, NoLogsKept
<1>4. ASSUME NEW t \in Thread, Ends(t)', ~Ends(t) PROVE Quiet' /\ NoLogs'
  <2>1. q # << >> /\ Head(q) = "destroy" /\ r = Tail(q)
    BY <1>2, <1>4, EndSteps DEF EndStep
  <2>2. 1 \in 1 .. Len(q) /\ q[1] = "destroy"
    <3>. HIDE DEF q
    <3>. QED BY <1>1, <2>1
  <2>3. Quiet BY <2>2 DEF EndInv, Told
  <2>4. \A j \in 1 .. Len(q) : 1 < j => q[j] # "log"
    BY <2>2 DEF EndInv, EndLast
  <2>5. \A i \in 1 .. Len(r) : r[i] # "log"
    <3>. HIDE DEF q, r
    <3>1. ASSUME NEW i \in 1 .. Len(r)
          PROVE  i + 1 \in 1 .. Len(q) /\ 1 < i + 1 /\ q[i + 1] = r[i]
      BY <1>1, <2>1
    <3>. QED BY <2>4, <3>1
  <2>. QED BY <2>3, <2>5, QuietNext DEF NoLogs
<1>5. ASSUME LoggerGone', ~LoggerGone PROVE \E t \in Thread : Ends(t)
  <2>1. m_handle[Logger] \/ m_alloc[Logger] = "none" BY <1>5 DEF LoggerGone
  <2>2. m_alloc[Logger] # "none"
    BY <1>1, <1>5, AllocBegins DEF LoggerGone
  <2>3. m_handle[Logger] /\ ~m_handle'[Logger]
    BY <1>5, <2>1, <2>2 DEF LoggerGone
  <2>4. ASSUME NEW t \in Thread, retire_created(t) PROVE FALSE
    BY <1>1, <2>3, <2>4 DEF retire_created, Retire, Locals, Place
  <2>5. ASSUME NEW t \in Thread, NEW c \in Context, Registers(t, c)
        PROVE  FALSE
    BY <1>1, <2>3, <2>5 DEF Registers, Register
  <2>6. ASSUME NEW w \in Worker, retire_context(w) PROVE Ends(w)
    BY <1>1, <2>3, <2>6 DEF retire_context, Retire, Locals, Idle, Ends
  <2>. QED BY <1>1, <2>3, <2>4, <2>5, <2>6, HandleSteps DEF HandleStep
<1>. QED BY <1>3, <1>4, <1>5

\* The engine stops after the logger.
LEMMA StoppingNext ==
    ASSUME SafeInv, SizeExact, EndInv, Next, Stopping'
    PROVE  LoggerGone'
<1>1. PICK t \in Thread :
          m_exiting' \/ pc'[t] \in {"stop", "wakeup", "exited"}
  BY RefTypes DEF Stopping
<1>2. CASE Stopping BY <1>2, GoneKept DEF EndInv
<1>3. CASE pc[t] = "check_alive" /\ m_ctx_size = 0
  <2>1. Registry = {} BY <1>3, RegistrySize DEF SizeExact
  <2>2. LoggerGone
    BY <1>3, <2>1, CheckAfterStart, RefTypes DEF LoggerGone, Registry
  <2>. QED BY <2>2, GoneKept
<1>. QED BY <1>1, <1>2, <1>3, EndSteps DEF EndInv, EndStep

\* No record is pushed after the message that ends the logger.
LEMMA EndLastNext ==
    ASSUME SafeInv, Registered, EndInv, Next
    PROVE  EndLast'
<1>. DEFINE q == m_message_queue[Logger]
            r == m_message_queue'[Logger]
<1>1. q \in Seq(Message) /\ NoContext \notin Context /\ Logger \in Context
  BY RefTypes, Types DEF SafeInv
<1>2. \A i, j \in 1 .. Len(q) : i < j /\ q[i] = "destroy" => q[j] # "log"
  BY DEF EndInv, EndLast
<1>3. CASE r = q BY <1>2, <1>3 DEF EndLast
<1>4. ASSUME NEW t \in Thread, dest[t] = Logger, type[t] \in Message,
             r = Append(q, type[t])
      PROVE  EndLast'
  <2>1. (\E i \in 1 .. Len(q) : q[i] = "destroy") => type[t] # "log"
    BY <1>1, <1>4, NobodyLogs DEF EndInv, Told
  <2>2. \A i, j \in 1 .. Len(r) : i < j /\ r[i] = "destroy" => r[j] # "log"
    <3>. HIDE DEF q, r
    <3>. QED BY <1>1, <1>2, <1>4, <2>1
  <2>. QED BY <2>2 DEF EndLast
<1>5. CASE q # << >> /\ r = Tail(q)
  <2>1. ASSUME NEW i \in 1 .. Len(r), NEW j \in 1 .. Len(r), i < j,
               r[i] = "destroy"
        PROVE  r[j] # "log"
    <3>. HIDE DEF q, r
    <3>1. /\ i + 1 \in 1 .. Len(q) /\ q[i + 1] = r[i]
          /\ j + 1 \in 1 .. Len(q) /\ q[j + 1] = r[j]
          /\ i + 1 < j + 1
      BY <1>1, <1>5, <2>1
    <3>. QED BY <1>2, <2>1, <3>1
  <2>. QED BY <2>1 DEF EndLast
<1>. QED BY <1>3, <1>4, <1>5, LoggerQueue

\* The initial states satisfy it.
LEMMA EndInit ==
    ASSUME Init
    PROVE  SizeExact /\ EndInv
<1>1. /\ Main \in Thread /\ Net \in Thread /\ Worker \subseteq Thread
      /\ Main \notin Worker /\ Net \notin Worker /\ Main # Net
      /\ NoContext \notin Context /\ Logger \in Context
  BY Constants, SchedulerAssumption
<1>2. /\ \A c \in Context : ~m_handle[c] /\ m_alloc[c] = "none"
      /\ m_message_queue[Logger] = << >> /\ m_ctx_size = 0 /\ ~m_exiting
      /\ \A w \in Worker : running[w] = NoContext
      /\ \A t \in Thread : dest[t] = NoContext
  BY <1>1 DEF Init
<1>3. \A t \in Thread : pc[t] \in {"boot_logger", "idle", "loop", "unborn"}
  <2>. SUFFICES ASSUME NEW t \in Thread
                PROVE  pc[t] \in {"boot_logger", "idle", "loop", "unborn"}
    OBVIOUS
  <2>1. pc[t] = CASE t = Main -> "boot_logger"
                  [] t = Net -> "idle"
                  [] t = 0 -> "loop"
                  [] OTHER -> "unborn"
    BY DEF Init
  <2>2. t = Main \/ t = Net \/ t \in Worker BY DEF Thread
  <2>3. CASE t = Main
    <3>1. t # 0 BY <1>1, <2>3, Workers
    <3>. QED BY <1>1, <2>1, <2>3, <3>1
  <2>4. CASE t = Net
    <3>1. t # 0 BY <1>1, <2>4, Workers
    <3>. QED BY <1>1, <2>1, <2>4, <3>1
  <2>5. CASE t \in Worker BY <1>1, <2>1, <2>5
  <2>. QED BY <2>2, <2>3, <2>4, <2>5
<1>4. SizeExact
  <2>1. Registry = {} BY <1>2 DEF Registry
  <2>. QED BY <1>2, <2>1, FS_EmptySet DEF SizeExact
<1>5. EndInv
  BY <1>1, <1>2, <1>3
  DEF EndInv, Told, TellsEnd, Ends, LoggerGone, Stopping, EndLast, Speaks,
      LogsFrom, LoggerRun
<1>. QED BY <1>4, <1>5

\* The invariant of the end.
LEMMA EndSafe == Spec => [](RefsInv /\ SizeExact /\ EndInv)
<1>1. Init => SizeExact /\ EndInv BY EndInit
<1>2. ASSUME RefsInv, SizeExact, EndInv, Next PROVE SizeExact' /\ EndInv'
  <2>1. SafeInv /\ Registered /\ Speaks BY <1>2 DEF RefsInv, EndInv
  <2>2. SizeExact' BY <1>2, <2>1, SizeNext
  <2>3. Told' => Quiet' BY <1>2, <2>1, ToldNext
  <2>4. (\E t \in Thread : Ends(t))' \/ LoggerGone' => Quiet' /\ NoLogs'
    BY <1>2, <2>1, EndsNext
  <2>5. Stopping' => LoggerGone' BY <1>2, <2>1, StoppingNext
  <2>6. EndLast' BY <1>2, <2>1, EndLastNext
  <2>7. Speaks' BY <1>2, <2>1, SpeaksNext
  <2>. QED BY <2>2, <2>3, <2>4, <2>5, <2>6, <2>7 DEF EndInv
<1>3. ASSUME SizeExact, EndInv, UNCHANGED vars PROVE SizeExact' /\ EndInv'
  <2>1. UNCHANGED <<m_alloc, m_handle, m_message_queue, m_ctx_size, m_exiting,
                    pc, running, message, dest, type, back>>
    BY <1>3 DEF vars, ctxVars, mgrVars, runVars, sendVars
  <2>2. SizeExact' BY <1>3, <2>1 DEF SizeExact, Registry
  <2>3. EndInv'
    BY <1>3, <2>1 DEF EndInv, Told, TellsEnd, Ends, LoggerGone, Quiet, NoLogs,
       Stopping, EndLast, Speaks, LogsFrom, LoggerRun
  <2>. QED BY <2>2, <2>3
<1>. QED BY <1>1, <1>2, <1>3, RefsSafe, PTL DEF Spec

-----------------------------------------------------------------------------
(* The properties.                                                          *)

\* Whatever the order in which the other contexts end, and whoever counts the
\* ones that are left, the logger is the last to go, and the engine stops when
\* nothing is registered nor about to be.
THEOREM LoggerGoesLast == Spec => []LoggerIsLast
<1>1. RefsInv /\ SizeExact /\ EndInv => LoggerIsLast
  <2>. SUFFICES ASSUME RefsInv, EndInv PROVE LoggerIsLast OBVIOUS
  <2>1. m_exiting => LoggerGone BY DEF EndInv, Stopping
  <2>2. LoggerGone => Quiet BY DEF EndInv
  <2>3. Quiet => pc[Main] \notin {"boot_logger", "grab_logger", "boot_root"}
    BY DEF RefsInv, SafeInv, Birth, Start, BootLabels, Quiet
  <2>. QED BY <2>1, <2>2, <2>3 DEF LoggerIsLast, LoggerGone, Quiet
<1>. QED BY <1>1, EndSafe, PTL

\* Every record that was accepted is written before the workers are gone.
THEOREM AllLogsWritten == Spec => []LogsWritten
<1>1. RefsInv /\ SizeExact /\ EndInv => LogsWritten
  <2>. SUFFICES ASSUME RefsInv, EndInv,
                       \A w \in Worker : pc[w] \in {"exited", "unborn"}
                PROVE  NoLogs
    BY DEF LogsWritten, NoLogs
  <2>1. 0 \in Worker /\ m_worker_num \in 1 .. MAX_WORKER_NUM
    BY Workers, Types, SchedulerAssumption DEF RefsInv, SafeInv, Worker
  <2>2. pc[0] = "exited" BY <2>1, RefTypes DEF RefsInv, Place
  <2>3. LoggerGone BY <2>1, <2>2, RefTypes DEF RefsInv, EndInv, Stopping
  <2>. QED BY <2>3 DEF EndInv
<1>. QED BY <1>1, EndSafe, PTL

================================================================================
