---------------------------- MODULE NetworkProofs ----------------------------
(***************************************************************************)
(* The pipe of the requests, the writes to a socket, and the readers and   *)
(* acceptors of sockets, for any number of workers, requests, writes,      *)
(* packets, connections and calls.                                         *)
(*                                                                         *)
(* The pipe: what was handled and what is still in the pipe are one        *)
(* sequence, which only grows at its end (InOrder); the exit request is    *)
(* the last one in it (ExitIsLast), so that the thread which has handled   *)
(* it has handled all.                                                     *)
(*                                                                         *)
(* Writes: those that libuv holds, and after them those in the pipe, are   *)
(* in the order they were made (WritesInOrder), hence none of them twice;  *)
(* every write is on its way, or its account is closed (Accounts). That no *)
(* request for libuv is made for a socket that is gone needs that the lua  *)
(* handle sends nothing after its close request (CloseIsLast).             *)
(*                                                                         *)
(* Acceptors: the connections on their way to the context are those after  *)
(* the ones it has handed over, in this order (AllInOrder); who waits is   *)
(* covered by the requests, the demand and the connections on their way    *)
(* (Demanded); at a socket that is closed a message wakes them, or they    *)
(* are being woken (ClosedIsTold).                                         *)
(*                                                                         *)
(* Readers: packets are numbered likewise, from those handed to Lua code   *)
(* to those the network thread keeps (PacketsPlaced). The network thread   *)
(* reads the socket as long as it wants packets, and keeps packets only    *)
(* while it wants none; readers, and those who gave up, are as many as the *)
(* packets wanted, asked for and on their way, with the read that is just  *)
(* timing out counted (ReadDemand, ReadBounds). The context hears of an    *)
(* error only after it (ReadErrors), and who waits while packets have      *)
(* overflowed, or at a socket that is closed, will hear of it              *)
(* (ReadersTold).                                                          *)
(***************************************************************************)
EXTENDS RequestPipe, SocketWrite, TcpListen, TcpRead, FunctionTheorems,
        FiniteSetTheorems, SequenceTheorems, WellFoundedInduction, TLAPS

-----------------------------------------------------------------------------
\* What goes from the head of one sequence to the end of another.
LEMMA HeadMoved ==
    ASSUME NEW S, NEW p \in Seq(S), NEW q \in Seq(S), q # << >>
    PROVE  Append(p, Head(q)) \o Tail(q) = p \o q
<1>1. Head(q) \in S /\ Tail(q) \in Seq(S) /\ <<Head(q)>> \in Seq(S)
  BY HeadTailProperties
<1>2. <<Head(q)>> \o Tail(q) = q
  <2>1. /\ Len(q) \in Nat /\ Len(q) > 0 /\ Len(Tail(q)) = Len(q) - 1 /\ Head(q) = q[1]
        /\ \A i \in 1 .. Len(Tail(q)) : Tail(q)[i] = q[i + 1]
    OBVIOUS
  <2>2. PICK s : s = <<Head(q)>> \o Tail(q)
    OBVIOUS
  <2>3. /\ s \in Seq(S) /\ Len(s) = 1 + Len(Tail(q))
        /\ \A i \in 1 .. 1 + Len(Tail(q)) :
               s[i] = IF i <= 1 THEN Head(q) ELSE Tail(q)[i - 1]
    BY <1>1, <2>2, ConcatProperties
  <2>4. ASSUME NEW i \in 1 .. Len(s) PROVE s[i] = q[i]
    BY <2>1, <2>3
  <2>. QED BY <2>1, <2>2, <2>3, <2>4, SeqEqual
<1>3. Append(p, Head(q)) = p \o <<Head(q)>>
  BY <1>1, AppendIsConcat
<1>. QED BY <1>1, <1>2, <1>3, ConcatAssociative

-----------------------------------------------------------------------------
(* The pipe of the requests.                                                *)

\* What the workers and the main thread send.
AnyRequest == (Worker \X (1 .. MAX_REQUESTS)) \cup {EXIT}

\* The requests in q are those that the workers sent, in the order of each.
InOrder(q, counts) == \A w \in Worker :
    /\ \A n \in 1 .. counts[w] : \E i \in 1 .. Len(q) : q[i] = <<w, n>>
    /\ \A i \in 1 .. Len(q) : q[i][1] = w => q[i][2] <= counts[w]
    /\ \A i, j \in 1 .. Len(q) :
        i < j /\ q[i][1] = w /\ q[j][1] = w => q[i][2] < q[j][2]

\* The exit request comes last, when every worker has ended.
ExitIsLast ==
    /\ m_exiting => ended = Worker
    /\ \A i \in 1 .. Len(InPipe) : InPipe[i] = EXIT => m_exiting /\ i = Len(InPipe)
    /\ poll # "active" => handled # << >> /\ handled[Len(handled)] = EXIT

\* The thread goes on from a batch that is not full, and ends with its poll handle.
Batches ==
    /\ pc = "recv" => batch < m_cpu_count
    /\ pc = "ended" => poll # "active"

RequestPipeInv ==
    RequestPipeTypeOK /\ InOrder(InPipe, sent) /\ ExitIsLast /\ Batches

\* What a request adds to the pipe.
LEMMA RequestAdded ==
    ASSUME NEW added \in AnyRequest, RequestPipeTypeOK, handled' = handled,
           send_whole_request(added)
    PROVE  /\ requests' \in Seq(AnyRequest) /\ Len(requests') <= PIPE_SIZE
           /\ Len(InPipe) \in Nat /\ Len(InPipe') = Len(InPipe) + 1
           /\ \A i \in 1 .. Len(InPipe) : InPipe'[i] = InPipe[i] /\ InPipe[i] \in AnyRequest
           /\ InPipe'[Len(InPipe) + 1] = added
<1>1. /\ requests \in Seq(AnyRequest) /\ handled \in Seq(AnyRequest)
      /\ Len(requests) \in Nat /\ Len(requests) < PIPE_SIZE
      /\ requests' = Append(requests, added)
  BY DEF RequestPipeTypeOK, AnyRequest, send_whole_request
<1>2. requests' \in Seq(AnyRequest) /\ Len(requests') = Len(requests) + 1
  BY <1>1
<1>3. InPipe' = handled \o Append(requests, added)
  BY <1>1 DEF InPipe
<1>4. InPipe' = Append(InPipe, added)
  BY <1>1, <1>3 DEF InPipe
<1>5. InPipe \in Seq(AnyRequest)
  BY <1>1 DEF InPipe
<1>. QED BY <1>1, <1>2, <1>4, <1>5, RequestPipeAssumption

\* A request of a worker.
LEMMA WorkKeeps ==
    ASSUME RequestPipeInv, NEW w \in Worker, work(w)
    PROVE  RequestPipeInv'
<1>. USE DEF RequestPipeInv
<1>1. /\ w \notin ended /\ sent[w] < MAX_REQUESTS
      /\ send_whole_request(<<w, sent[w] + 1>>)
      /\ sent' = [sent EXCEPT ![w] = @ + 1]
      /\ ended' = ended /\ m_exiting' = m_exiting /\ poll' = poll /\ batch' = batch
      /\ handled' = handled /\ pc' = pc
  BY DEF work
<1>2. sent \in [Worker -> 0 .. MAX_REQUESTS] /\ MAX_REQUESTS \in Nat
  BY RequestPipeAssumption DEF RequestPipeTypeOK
<1>3. <<w, sent[w] + 1>> \in AnyRequest
  BY <1>1, <1>2 DEF AnyRequest
<1>4. /\ requests' \in Seq(AnyRequest) /\ Len(requests') <= PIPE_SIZE
      /\ Len(InPipe) \in Nat /\ Len(InPipe') = Len(InPipe) + 1
      /\ \A i \in 1 .. Len(InPipe) : InPipe'[i] = InPipe[i] /\ InPipe[i] \in AnyRequest
      /\ InPipe'[Len(InPipe) + 1] = <<w, sent[w] + 1>>
  BY <1>1, <1>3, RequestAdded
<1>5. sent' \in [Worker -> 0 .. MAX_REQUESTS]
  BY <1>1, <1>2
<1>6. RequestPipeTypeOK'
  BY <1>1, <1>4, <1>5 DEF RequestPipeTypeOK, AnyRequest
<1>7. InOrder(InPipe', sent')
  <2>. SUFFICES ASSUME NEW v \in Worker
       PROVE  /\ \A n \in 1 .. sent'[v] : \E i \in 1 .. Len(InPipe') : InPipe'[i] = <<v, n>>
              /\ \A i \in 1 .. Len(InPipe') : InPipe'[i][1] = v => InPipe'[i][2] <= sent'[v]
              /\ \A i, j \in 1 .. Len(InPipe') :
                    i < j /\ InPipe'[i][1] = v /\ InPipe'[j][1] = v
                        => InPipe'[i][2] < InPipe'[j][2]
    BY DEF InOrder
  <2>1. /\ \A n \in 1 .. sent[v] : \E i \in 1 .. Len(InPipe) : InPipe[i] = <<v, n>>
        /\ \A i \in 1 .. Len(InPipe) : InPipe[i][1] = v => InPipe[i][2] <= sent[v]
        /\ \A i, j \in 1 .. Len(InPipe) :
              i < j /\ InPipe[i][1] = v /\ InPipe[j][1] = v => InPipe[i][2] < InPipe[j][2]
    BY DEF InOrder
  <2>2. sent'[v] = IF v = w THEN sent[v] + 1 ELSE sent[v]
    BY <1>1, <1>2
  <2>3. sent[v] \in Nat /\ sent[w] \in Nat
    BY <1>2
  <2>4. \A i \in 1 .. Len(InPipe') : i \in 1 .. Len(InPipe) \/ i = Len(InPipe) + 1
    BY <1>4
  <2>5. \A i \in 1 .. Len(InPipe) : InPipe[i][1] = v => InPipe[i][2] \in Nat
    BY <1>4, RequestPipeAssumption DEF AnyRequest, EXIT
  <2>6. ASSUME NEW n \in 1 .. sent'[v]
        PROVE  \E i \in 1 .. Len(InPipe') : InPipe'[i] = <<v, n>>
    <3>1. CASE n \in 1 .. sent[v]
      <4>1. PICK i \in 1 .. Len(InPipe) : InPipe[i] = <<v, n>>
        BY <2>1, <3>1
      <4>2. i \in 1 .. Len(InPipe') /\ InPipe'[i] = <<v, n>>
        BY <1>4, <4>1
      <4>. QED BY <4>2
    <3>2. CASE n \notin 1 .. sent[v]
      <4>1. v = w /\ n = sent[w] + 1
        BY <2>2, <2>3, <3>2
      <4>. QED BY <1>4, <4>1
    <3>. QED BY <3>1, <3>2
  <2>7. ASSUME NEW i \in 1 .. Len(InPipe'), InPipe'[i][1] = v
        PROVE  InPipe'[i][2] <= sent'[v]
    <3>1. CASE i \in 1 .. Len(InPipe)
      BY <1>4, <2>1, <2>2, <2>3, <2>5, <2>7, <3>1
    <3>2. CASE i = Len(InPipe) + 1
      BY <1>4, <2>2, <2>3, <2>7, <3>2
    <3>. QED BY <2>4, <3>1, <3>2
  <2>8. ASSUME NEW i \in 1 .. Len(InPipe'), NEW j \in 1 .. Len(InPipe'),
               i < j, InPipe'[i][1] = v, InPipe'[j][1] = v
        PROVE  InPipe'[i][2] < InPipe'[j][2]
    <3>1. i \in 1 .. Len(InPipe) /\ InPipe'[i] = InPipe[i]
      BY <1>4, <2>8
    <3>2. CASE j \in 1 .. Len(InPipe)
      BY <1>4, <2>1, <2>8, <3>1, <3>2
    <3>3. CASE j = Len(InPipe) + 1
      BY <1>4, <2>1, <2>3, <2>5, <2>8, <3>1, <3>3
    <3>. QED BY <2>4, <3>2, <3>3
  <2>. QED BY <2>6, <2>7, <2>8
<1>8. ExitIsLast'
  <2>1. ~m_exiting
    BY <1>1 DEF ExitIsLast
  <2>2. ASSUME NEW i \in 1 .. Len(InPipe') PROVE InPipe'[i] # EXIT
    <3>1. CASE i \in 1 .. Len(InPipe)
      BY <1>4, <2>1, <3>1 DEF ExitIsLast
    <3>2. CASE i = Len(InPipe) + 1
      BY <1>4, <3>2, RequestPipeAssumption DEF EXIT
    <3>. QED BY <1>4, <3>1, <3>2
  <2>. QED BY <1>1, <2>1, <2>2 DEF ExitIsLast
<1>9. Batches'
  BY <1>1 DEF Batches
<1>. QED BY <1>6, <1>7, <1>8, <1>9

\* The exit request.
LEMMA StopKeeps ==
    ASSUME RequestPipeInv, stop
    PROVE  RequestPipeInv'
<1>. USE DEF RequestPipeInv
<1>1. /\ ended = Worker /\ ~m_exiting /\ m_exiting' = TRUE
      /\ send_whole_request(EXIT)
      /\ sent' = sent /\ ended' = ended /\ poll' = poll /\ batch' = batch
      /\ handled' = handled /\ pc' = pc
  BY DEF stop
<1>2. EXIT \in AnyRequest
  BY DEF AnyRequest
<1>3. /\ requests' \in Seq(AnyRequest) /\ Len(requests') <= PIPE_SIZE
      /\ Len(InPipe) \in Nat /\ Len(InPipe') = Len(InPipe) + 1
      /\ \A i \in 1 .. Len(InPipe) : InPipe'[i] = InPipe[i] /\ InPipe[i] \in AnyRequest
      /\ InPipe'[Len(InPipe) + 1] = EXIT
  BY <1>1, <1>2, RequestAdded
<1>4. RequestPipeTypeOK'
  BY <1>1, <1>3 DEF RequestPipeTypeOK, AnyRequest
<1>5. EXIT[1] \notin Worker
  BY RequestPipeAssumption DEF EXIT
<1>6. \A i \in 1 .. Len(InPipe') : i \in 1 .. Len(InPipe) \/ i = Len(InPipe) + 1
  BY <1>3
<1>7. InOrder(InPipe', sent')
  <2>. SUFFICES ASSUME NEW v \in Worker
       PROVE  /\ \A n \in 1 .. sent[v] : \E i \in 1 .. Len(InPipe') : InPipe'[i] = <<v, n>>
              /\ \A i \in 1 .. Len(InPipe') : InPipe'[i][1] = v => InPipe'[i][2] <= sent[v]
              /\ \A i, j \in 1 .. Len(InPipe') :
                    i < j /\ InPipe'[i][1] = v /\ InPipe'[j][1] = v
                        => InPipe'[i][2] < InPipe'[j][2]
    BY <1>1 DEF InOrder
  <2>1. /\ \A n \in 1 .. sent[v] : \E i \in 1 .. Len(InPipe) : InPipe[i] = <<v, n>>
        /\ \A i \in 1 .. Len(InPipe) : InPipe[i][1] = v => InPipe[i][2] <= sent[v]
        /\ \A i, j \in 1 .. Len(InPipe) :
              i < j /\ InPipe[i][1] = v /\ InPipe[j][1] = v => InPipe[i][2] < InPipe[j][2]
    BY DEF InOrder
  <2>2. \A i \in 1 .. Len(InPipe') : InPipe'[i][1] = v => i \in 1 .. Len(InPipe)
    BY <1>3, <1>5, <1>6
  <2>3. ASSUME NEW n \in 1 .. sent[v]
        PROVE  \E i \in 1 .. Len(InPipe') : InPipe'[i] = <<v, n>>
    <3>1. PICK i \in 1 .. Len(InPipe) : InPipe[i] = <<v, n>>
      BY <2>1
    <3>2. i \in 1 .. Len(InPipe') /\ InPipe'[i] = <<v, n>>
      BY <1>3, <3>1
    <3>. QED BY <3>2
  <2>. QED BY <1>3, <2>1, <2>2, <2>3
<1>8. ExitIsLast'
  <2>1. ASSUME NEW i \in 1 .. Len(InPipe'), InPipe'[i] = EXIT PROVE i = Len(InPipe')
    BY <1>1, <1>3, <1>6, <2>1 DEF ExitIsLast
  <2>. QED BY <1>1, <2>1 DEF ExitIsLast
<1>9. Batches'
  BY <1>1 DEF Batches
<1>. QED BY <1>4, <1>7, <1>8, <1>9

\* A request that is handled leaves the order of all requests as it is.
LEMMA ProcessKeeps ==
    ASSUME RequestPipeInv, process_request
    PROVE  RequestPipeInv'
<1>. USE DEF RequestPipeInv
<1>1. /\ pc = "recv" /\ requests # << >>
      /\ requests' = Tail(requests) /\ handled' = Append(handled, Head(requests))
      /\ poll' = IF Head(requests) = EXIT THEN "closing" ELSE poll
      /\ batch' = batch + 1
      /\ pc' = IF batch + 1 >= m_cpu_count THEN "poll" ELSE "recv"
      /\ sent' = sent /\ ended' = ended /\ m_exiting' = m_exiting
  BY DEF process_request
<1>2. /\ requests \in Seq(AnyRequest) /\ handled \in Seq(AnyRequest)
      /\ Len(requests) \in Nat /\ Len(requests) <= PIPE_SIZE /\ Len(handled) \in Nat
      /\ PIPE_SIZE \in Nat /\ m_cpu_count \in Nat /\ batch \in 0 .. m_cpu_count
  BY RequestPipeAssumption DEF RequestPipeTypeOK, AnyRequest
<1>3. /\ requests' \in Seq(AnyRequest) /\ Len(requests') = Len(requests) - 1
      /\ Head(requests) \in AnyRequest /\ Head(requests) = requests[1] /\ Len(requests) > 0
      /\ \A i \in 1 .. Len(requests') : requests'[i] = requests[i + 1]
  BY <1>1, <1>2
<1>4. /\ handled' \in Seq(AnyRequest) /\ Len(handled') = Len(handled) + 1
      /\ \A i \in 1 .. Len(handled) : handled'[i] = handled[i]
      /\ handled'[Len(handled) + 1] = Head(requests)
  BY <1>1, <1>2, <1>3
<1>5. InPipe' = InPipe
  <2>1. InPipe' = handled' \o requests' /\ InPipe = handled \o requests
    BY DEF InPipe
  <2>. QED BY <1>1, <1>2, <2>1, HeadMoved
<1>6. RequestPipeTypeOK'
  BY <1>1, <1>2, <1>3, <1>4 DEF RequestPipeTypeOK, AnyRequest, Batches
<1>7. InOrder(InPipe', sent')
  BY <1>1, <1>5
<1>8. ExitIsLast'
  <2>1. ASSUME poll # "active" PROVE FALSE
    <3>1. handled # << >> /\ handled[Len(handled)] = EXIT
      BY <2>1 DEF ExitIsLast
    <3>2. Len(handled) \in 1 .. Len(InPipe) /\ InPipe[Len(handled)] = EXIT
      BY <1>2, <1>3, <3>1 DEF InPipe
    <3>3. Len(handled) = Len(InPipe)
      BY <3>2 DEF ExitIsLast
    <3>. QED BY <1>2, <1>3, <3>3 DEF InPipe
  <2>2. poll' # "active" => handled' # << >> /\ handled'[Len(handled')] = EXIT
    BY <1>1, <1>2, <1>4, <2>1
  <2>. QED BY <1>1, <1>5, <2>2 DEF ExitIsLast
<1>9. Batches'
  BY <1>1, <1>2 DEF Batches
<1>. QED BY <1>6, <1>7, <1>8, <1>9

\* Every step.
LEMMA RequestPipeStep ==
    RequestPipeInv /\ [RequestPipeNext]_requestPipeVars => RequestPipeInv'
<1>. SUFFICES ASSUME RequestPipeInv, [RequestPipeNext]_requestPipeVars
     PROVE  RequestPipeInv'
  OBVIOUS
<1>. USE DEF RequestPipeInv
<1>1. ASSUME NEW w \in Worker, work(w) PROVE RequestPipeInv'
  BY <1>1, WorkKeeps
<1>2. ASSUME NEW w \in Worker, end_work(w) PROVE RequestPipeInv'
  <2>1. /\ ended' = ended \cup {w} /\ w \notin ended /\ sent' = sent
        /\ m_exiting' = m_exiting /\ requests' = requests /\ poll' = poll
        /\ batch' = batch /\ handled' = handled /\ pc' = pc
    BY <1>2 DEF end_work
  <2>2. InPipe' = InPipe
    BY <2>1 DEF InPipe
  <2>3. ~m_exiting
    BY <2>1 DEF ExitIsLast
  <2>. QED BY <2>1, <2>2, <2>3 DEF RequestPipeTypeOK, InOrder, ExitIsLast, Batches
<1>3. CASE stop
  BY <1>3, StopKeeps
<1>4. CASE on_request_polled_in
  <2>1. /\ pc = "poll" /\ poll = "active" /\ pc' = "recv" /\ batch' = 0
        /\ sent' = sent /\ ended' = ended /\ m_exiting' = m_exiting
        /\ requests' = requests /\ poll' = poll /\ handled' = handled
    BY <1>4 DEF on_request_polled_in
  <2>2. InPipe' = InPipe
    BY <2>1 DEF InPipe
  <2>3. batch' \in 0 .. m_cpu_count /\ batch' < m_cpu_count
    BY <2>1, RequestPipeAssumption
  <2>. QED BY <2>1, <2>2, <2>3 DEF RequestPipeTypeOK, InOrder, ExitIsLast, Batches
<1>5. CASE process_request
  BY <1>5, ProcessKeeps
<1>6. CASE recv_nothing
  <2>1. /\ pc' = "poll" /\ sent' = sent /\ ended' = ended /\ m_exiting' = m_exiting
        /\ requests' = requests /\ poll' = poll /\ batch' = batch /\ handled' = handled
    BY <1>6 DEF recv_nothing, EndBatch
  <2>2. InPipe' = InPipe
    BY <2>1 DEF InPipe
  <2>. QED BY <2>1, <2>2 DEF RequestPipeTypeOK, InOrder, ExitIsLast, Batches
<1>7. CASE on_request_handle_closed
  <2>1. /\ poll = "closing" /\ poll' = "closed" /\ pc' = "ended"
        /\ sent' = sent /\ ended' = ended /\ m_exiting' = m_exiting
        /\ requests' = requests /\ batch' = batch /\ handled' = handled
    BY <1>7 DEF on_request_handle_closed
  <2>2. InPipe' = InPipe
    BY <2>1 DEF InPipe
  <2>. QED BY <2>1, <2>2 DEF RequestPipeTypeOK, InOrder, ExitIsLast, Batches
<1>8. CASE UNCHANGED requestPipeVars
  <2>1. /\ sent' = sent /\ ended' = ended /\ m_exiting' = m_exiting /\ requests' = requests
        /\ poll' = poll /\ batch' = batch /\ handled' = handled /\ pc' = pc
    BY <1>8 DEF requestPipeVars
  <2>2. InPipe' = InPipe
    BY <2>1 DEF InPipe
  <2>. QED BY <2>1, <2>2 DEF RequestPipeTypeOK, InOrder, ExitIsLast, Batches
<1>. QED BY <1>1, <1>2, <1>3, <1>4, <1>5, <1>6, <1>7, <1>8 DEF RequestPipeNext

\* What the invariant says of the end: the exit request was the last one.
LEMMA RequestPipeHolds == RequestPipeInv => RequestsHandled
<1>. SUFFICES ASSUME RequestPipeInv PROVE RequestsHandled
  OBVIOUS
<1>. USE DEF RequestPipeInv
<1>1. ASSUME pc = "ended" PROVE requests = << >> /\ m_exiting
  <2>1. /\ requests \in Seq(AnyRequest) /\ handled \in Seq(AnyRequest)
        /\ Len(requests) \in Nat /\ Len(handled) \in Nat
    BY DEF RequestPipeTypeOK, AnyRequest
  <2>2. handled # << >> /\ handled[Len(handled)] = EXIT
    BY <1>1 DEF Batches, ExitIsLast
  <2>3. Len(handled) \in 1 .. Len(InPipe) /\ InPipe[Len(handled)] = EXIT
    BY <2>1, <2>2 DEF InPipe
  <2>4. m_exiting /\ Len(handled) = Len(InPipe)
    BY <2>3 DEF ExitIsLast
  <2>. QED BY <2>1, <2>4 DEF InPipe
<1>. QED BY <1>1 DEF RequestsHandled, InOrder

\* For any number of workers and requests, any pipe and any batch: the requests of a
\* worker are handled in the order it sent them, each once, and all of them before the
\* network thread ends (network.cpp: send_request, recv_request, stop).
THEOREM RequestsAreHandled == RequestPipeSpec => []RequestsHandled
<1>1. RequestPipeInit => RequestPipeInv
  <2>. SUFFICES ASSUME RequestPipeInit PROVE RequestPipeInv
    OBVIOUS
  <2>1. /\ sent = [w \in Worker |-> 0] /\ ended = {} /\ m_exiting = FALSE
        /\ requests = << >> /\ poll = "active" /\ batch = 0 /\ handled = << >> /\ pc = "poll"
    BY DEF RequestPipeInit
  <2>2. InPipe = << >> /\ Len(InPipe) = 0
    BY <2>1 DEF InPipe
  <2>3. RequestPipeTypeOK
    <3>1. 0 \in 0 .. MAX_REQUESTS /\ 0 \in 0 .. m_cpu_count /\ 0 <= PIPE_SIZE
      BY RequestPipeAssumption
    <3>2. << >> \in Seq((Worker \X (1 .. MAX_REQUESTS)) \cup {EXIT}) /\ Len(<< >>) = 0
      OBVIOUS
    <3>3. sent \in [Worker -> 0 .. MAX_REQUESTS]
      BY <2>1, <3>1
    <3>. QED BY <2>1, <3>1, <3>2, <3>3 DEF RequestPipeTypeOK
  <2>4. InOrder(InPipe, sent) /\ ExitIsLast /\ Batches
    BY <2>1, <2>2 DEF InOrder, ExitIsLast, Batches
  <2>. QED BY <2>3, <2>4 DEF RequestPipeInv
<1>. QED BY <1>1, RequestPipeStep, RequestPipeHolds, PTL DEF RequestPipeSpec
-----------------------------------------------------------------------------
(* Writing to a socket.                                                     *)

Shape == [fd : BOOLEAN, answer : BOOLEAN, long : BOOLEAN]
About == ({"write"} \X Write) \cup ({"wshared"} \X BOOLEAN) \cup {<<"close">>}

\* Writes go through the pipe and through libuv in the order they were made.
WritesInOrder ==
    /\ \A i \in 1 .. Len(write_queue) :
        i <= write_queue[i] /\ write_queue[i] <= Len(form)
    /\ \A i, j \in 1 .. Len(write_queue) : i < j => write_queue[i] < write_queue[j]
    /\ \A i \in 1 .. Len(socket_requests) : socket_requests[i][1] = "write" =>
        /\ socket_requests[i][2] <= Len(form)
        /\ \A k \in 1 .. Len(write_queue) : write_queue[k] < socket_requests[i][2]
    /\ \A i, j \in 1 .. Len(socket_requests) :
        i < j /\ socket_requests[i][1] = "write" /\ socket_requests[j][1] = "write"
            => socket_requests[i][2] < socket_requests[j][2]

\* The last request by the lua handle is its closing; what comes after it, and is not
\* for a socket that is gone, goes by the descriptor.
CloseIsLast ==
    /\ \A i \in 1 .. Len(socket_requests) :
        /\ socket_requests[i][1] = "write" =>
               form[socket_requests[i][2]].fd \/ state = "open"
        /\ socket_requests[i][1] = "close" =>
               /\ state = "open" /\ closed
               /\ \A j \in 1 .. Len(socket_requests) :
                   /\ socket_requests[j][1] = "close" => j = i
                   /\ j > i /\ socket_requests[j][1] = "write" =>
                          form[socket_requests[j][2]].fd
    /\ state # "open" => closed
    /\ state = "gone" => ~wshared

\* A request for libuv is in the cache or with a write that libuv holds.
Counted ==
    /\ allocated = cached + Len(write_queue)
    /\ state = "gone" => allocated = 0

\* A write that was made and is under way no more.
Over(w) == /\ w \in 1 .. Len(form)
           /\ ~Contains(socket_requests, <<"write", w>>)
           /\ ~Contains(write_queue, w)

\* What was done about a write, which nobody has sent unless it is over.
Account(w) ==
    IF Over(w)
    THEN /\ releases[w] = 1
         /\ answers[w] = IF ~form[w].answer THEN << >>
                         ELSE IF Contains(sent_writes, w) THEN <<"ok">> ELSE <<"error">>
    ELSE releases[w] = 0 /\ answers[w] = << >> /\ ~Contains(sent_writes, w)

Accounts == \A w \in Write : Account(w)

SocketWriteInv ==
    SocketWriteTypeOK /\ WritesInOrder /\ CloseIsLast /\ Counted /\ Accounts

\* p is q with m at its end.
Longer(q, p, m) ==
    /\ Len(q) \in Nat /\ Len(p) = Len(q) + 1
    /\ \A i \in 1 .. Len(q) : p[i] = q[i]
    /\ p[Len(q) + 1] = m
    /\ \A i \in 1 .. Len(p) : i \in 1 .. Len(q) \/ i = Len(q) + 1
    /\ \A e : Contains(p, e) <=> Contains(q, e) \/ e = m

\* p is q without its head.
Shorter(q, p) ==
    /\ Len(q) \in Nat /\ Len(q) > 0 /\ Len(p) = Len(q) - 1
    /\ Head(q) = q[1] /\ 1 \in 1 .. Len(q)
    /\ \A i \in 1 .. Len(p) : i + 1 \in 1 .. Len(q) /\ p[i] = q[i + 1]
    /\ \A e : Contains(p, e) => Contains(q, e)
    /\ \A e : Contains(q, e) => Contains(p, e) \/ e = q[1]

\* Append.
LEMMA PutLast ==
    ASSUME NEW S, NEW q \in Seq(S), NEW m \in S, NEW p, p = Append(q, m)
    PROVE  p \in Seq(S) /\ Longer(q, p, m)
<1>1. /\ p \in Seq(S) /\ Len(q) \in Nat /\ Len(p) = Len(q) + 1
      /\ \A i \in 1 .. Len(q) : p[i] = q[i]
      /\ p[Len(q) + 1] = m
  OBVIOUS
<1>2. \A i \in 1 .. Len(p) : i \in 1 .. Len(q) \/ i = Len(q) + 1
  BY <1>1
<1>3. ASSUME NEW e PROVE Contains(p, e) <=> Contains(q, e) \/ e = m
  BY <1>1, <1>2 DEF Contains
<1>. QED BY <1>1, <1>2, <1>3 DEF Longer

\* Tail.
LEMMA TakeFirst ==
    ASSUME NEW S, NEW q \in Seq(S), q # << >>, NEW p, p = Tail(q)
    PROVE  p \in Seq(S) /\ q[1] \in S /\ Shorter(q, p)
<1>1. /\ p \in Seq(S) /\ Len(q) \in Nat /\ Len(q) > 0 /\ Len(p) = Len(q) - 1
      /\ Head(q) = q[1] /\ q[1] \in S /\ 1 \in 1 .. Len(q)
      /\ \A i \in 1 .. Len(p) : i + 1 \in 1 .. Len(q) /\ p[i] = q[i + 1]
  OBVIOUS
<1>2. ASSUME NEW e, Contains(p, e) PROVE Contains(q, e)
  BY <1>1, <1>2 DEF Contains
<1>3. ASSUME NEW e, Contains(q, e) PROVE Contains(p, e) \/ e = q[1]
  <2>1. PICK i \in 1 .. Len(q) : q[i] = e
    BY <1>3 DEF Contains
  <2>2. CASE i = 1
    BY <2>1, <2>2
  <2>3. CASE i # 1
    <3>1. i - 1 \in 1 .. Len(p) /\ p[i - 1] = e
      BY <1>1, <2>1, <2>3
    <3>. QED BY <3>1 DEF Contains
  <2>. QED BY <2>2, <2>3
<1>. QED BY <1>1, <1>2, <1>3 DEF Shorter

\* Sequences of one element or none.
LEMMA OneOrNone ==
    /\ \A w, e : Contains(<<w>>, e) <=> e = w
    /\ \A e : ~Contains(<< >>, e)
<1>1. ASSUME NEW w, NEW e PROVE Contains(<<w>>, e) <=> e = w
  <2>1. PICK s : s = <<w>>
    OBVIOUS
  <2>2. Len(s) = 1 /\ s[1] = w
    BY <2>1
  <2>3. Contains(s, e) <=> e = w
    BY <2>2 DEF Contains
  <2>. QED BY <2>1, <2>3
<1>2. ASSUME NEW e PROVE ~Contains(<< >>, e)
  BY DEF Contains
<1>. QED BY <1>1, <1>2

\* What the types say of a request about the socket.
LEMMA Abouts ==
    ASSUME NEW e \in About
    PROVE  /\ e[1] \in {"write", "wshared", "close"}
           /\ e[1] = "write" => e[2] \in Write /\ e = <<"write", e[2]>>
           /\ e[1] = "wshared" => e[2] \in BOOLEAN
<1>1. CASE e \in {"write"} \X Write
  BY <1>1
<1>2. CASE e \in {"wshared"} \X BOOLEAN
  BY <1>2
<1>3. CASE e = <<"close">>
  BY <1>3
<1>. QED BY <1>1, <1>2, <1>3 DEF About

\* The types that the steps use.
LEMMA SocketTypes ==
    ASSUME SocketWriteTypeOK
    PROVE  /\ form \in Seq(Shape) /\ Len(form) \in Nat /\ Len(form) <= MAX_WRITES
           /\ socket_requests \in Seq(About) /\ write_queue \in Seq(Write)
           /\ sent_writes \in Seq(Write)
           /\ answers \in [Write -> Seq({"ok", "error"})]
           /\ releases \in [Write -> 0 .. 2]
           /\ cached \in Nat /\ allocated \in Nat /\ MAX_WRITES \in Nat
           /\ cached <= TCP_WRITE_UV_REQUEST_CACHE_MAX
           /\ TCP_WRITE_UV_REQUEST_CACHE_MAX \in Nat \ {0}
           /\ Len(write_queue) \in Nat
<1>1. form \in Seq(Shape) /\ socket_requests \in Seq(About)
  BY DEF SocketWriteTypeOK, Shape, About
<1>. QED BY <1>1, SocketWriteAssumption DEF SocketWriteTypeOK

\* The accounts when some writes, which may be none, end.
LEMMA AccountsClosed ==
    ASSUME SocketWriteTypeOK, Accounts, NEW ws, NEW status \in {"ok", "error"},
           releases' = [w \in Write |-> releases[w] + (IF Contains(ws, w) THEN 1 ELSE 0)],
           answers' = [w \in Write |-> IF Contains(ws, w) /\ form'[w].answer
                                       THEN Append(answers[w], status)
                                       ELSE answers[w]],
           \A w \in Write : Contains(ws, w) =>
               /\ Over(w)' /\ ~Over(w)
               /\ Contains(sent_writes', w) <=> status = "ok",
           \A w \in Write : ~Contains(ws, w) =>
               /\ Over(w)' <=> Over(w)
               /\ Contains(sent_writes', w) <=> Contains(sent_writes, w)
               /\ Over(w) => form'[w].answer = form[w].answer
    PROVE  Accounts' /\ releases' \in [Write -> 0 .. 2]
           /\ answers' \in [Write -> Seq({"ok", "error"})]
<1>1. /\ releases \in [Write -> 0 .. 2] /\ answers \in [Write -> Seq({"ok", "error"})]
  BY DEF SocketWriteTypeOK
<1>2. ASSUME NEW w \in Write, Contains(ws, w)
      PROVE  /\ releases'[w] = 1
             /\ answers'[w] = IF ~form'[w].answer THEN << >> ELSE <<status>>
  <2>1. releases[w] = 0 /\ answers[w] = << >>
    BY <1>2 DEF Accounts, Account
  <2>2. Append(answers[w], status) = <<status>>
    BY <2>1
  <2>. QED BY <1>1, <1>2, <2>1, <2>2
<1>3. ASSUME NEW w \in Write, ~Contains(ws, w)
      PROVE  releases'[w] = releases[w] /\ answers'[w] = answers[w]
  <2>1. releases'[w] = releases[w] + 0
    BY <1>3
  <2>2. answers'[w] = answers[w]
    BY <1>3
  <2>3. releases[w] \in 0 .. 2
    BY <1>1
  <2>. QED BY <2>1, <2>2, <2>3
<1>4. ASSUME NEW w \in Write PROVE Account(w)'
  <2>1. CASE Contains(ws, w)
    <3>1. Over(w)' /\ (Contains(sent_writes', w) <=> status = "ok")
      BY <2>1
    <3>2. <<status>> = IF Contains(sent_writes', w) THEN <<"ok">> ELSE <<"error">>
      BY <3>1
    <3>. QED BY <1>2, <2>1, <3>1, <3>2 DEF Account
  <2>2. CASE ~Contains(ws, w)
    <3>1. Account(w) /\ (Over(w)' <=> Over(w))
          /\ (Contains(sent_writes', w) <=> Contains(sent_writes, w))
          /\ (Over(w) => form'[w].answer = form[w].answer)
      BY <2>2 DEF Accounts
    <3>. QED BY <1>3, <2>2, <3>1 DEF Account
  <2>. QED BY <2>1, <2>2
<1>5. ASSUME NEW w \in Write
      PROVE  releases'[w] \in 0 .. 2 /\ answers'[w] \in Seq({"ok", "error"})
  BY <1>1, <1>2, <1>3
<1>6. DOMAIN releases' = Write /\ DOMAIN answers' = Write
  OBVIOUS
<1>. QED BY <1>4, <1>5 DEF Accounts

\* The accounts when one write ends.
LEMMA AccountsOfOne ==
    ASSUME SocketWriteTypeOK, Accounts, NEW n \in Write, NEW status \in {"ok", "error"},
           releases' = [w \in Write |-> releases[w] + (IF Contains(<<n>>, w) THEN 1 ELSE 0)],
           answers' = [w \in Write |-> IF Contains(<<n>>, w) /\ form'[w].answer
                                       THEN Append(answers[w], status)
                                       ELSE answers[w]],
           Over(n)', ~Over(n), Contains(sent_writes', n) <=> status = "ok",
           \A w \in Write : w # n =>
               /\ Over(w)' <=> Over(w)
               /\ Contains(sent_writes', w) <=> Contains(sent_writes, w)
               /\ Over(w) => form'[w].answer = form[w].answer
    PROVE  Accounts' /\ releases' \in [Write -> 0 .. 2]
           /\ answers' \in [Write -> Seq({"ok", "error"})]
<1>. PICK ws : ws = <<n>>
  OBVIOUS
<1>1. \A w : Contains(ws, w) <=> w = n
  BY OneOrNone
<1>2. /\ releases' = [w \in Write |-> releases[w] + (IF Contains(ws, w) THEN 1 ELSE 0)]
      /\ answers' = [w \in Write |-> IF Contains(ws, w) /\ form'[w].answer
                                     THEN Append(answers[w], status)
                                     ELSE answers[w]]
  OBVIOUS
<1>3. \A w \in Write : Contains(ws, w) =>
          /\ Over(w)' /\ ~Over(w)
          /\ Contains(sent_writes', w) <=> status = "ok"
  BY <1>1
<1>4. \A w \in Write : ~Contains(ws, w) =>
          /\ Over(w)' <=> Over(w)
          /\ Contains(sent_writes', w) <=> Contains(sent_writes, w)
          /\ Over(w) => form'[w].answer = form[w].answer
  BY <1>1
<1>. QED BY <1>2, <1>3, <1>4, AccountsClosed

\* The accounts when no write ends.
LEMMA AccountsKept ==
    ASSUME SocketWriteTypeOK, Accounts, releases' = releases, answers' = answers,
           sent_writes' = sent_writes,
           \A w \in Write : Over(w)' <=> Over(w),
           \A w \in Write : Over(w) => form'[w] = form[w]
    PROVE  Accounts'
<1>1. ASSUME NEW w \in Write PROVE Account(w)'
  <2>1. Account(w) /\ (Over(w)' <=> Over(w)) /\ (Over(w) => form'[w] = form[w])
    BY DEF Accounts
  <2>. QED BY <2>1 DEF Account
<1>. QED BY <1>1 DEF Accounts

-----------------------------------------------------------------------------
(* Lua code.                                                                 *)

\* A write goes into the pipe, and nothing else happens.
LEMMA RequestKeeps ==
    ASSUME SocketWriteInv, NEW shape \in Shape, shape.fd \/ ~closed, request(shape)
    PROVE  SocketWriteInv'
<1>. PICK n : n = Len(form) + 1
  OBVIOUS
<1>1. /\ n \in Write
      /\ form' = Append(form, shape)
      /\ socket_requests' = Append(socket_requests, <<"write", n>>)
      /\ kind' = kind /\ closed' = closed /\ options' = options /\ wshared' = wshared
      /\ state' = state /\ fd_open' = fd_open /\ m_write_error' = m_write_error
      /\ cached' = cached /\ allocated' = allocated /\ write_queue' = write_queue
      /\ releases' = releases /\ answers' = answers /\ sent_writes' = sent_writes
  BY DEF request, handleVars, memory, write_requests
<1>2. /\ form \in Seq(Shape) /\ socket_requests \in Seq(About) /\ Len(form) \in Nat
      /\ write_queue \in Seq(Write) /\ MAX_WRITES \in Nat
  BY SocketTypes DEF SocketWriteInv
<1>3. <<"write", n>> \in About
  BY <1>1 DEF About
<1>4. /\ form' \in Seq(Shape) /\ Len(form') = Len(form) + 1
      /\ \A i \in 1 .. Len(form) : form'[i] = form[i]
      /\ form'[n] = shape
  BY <1>1, <1>2, PutLast DEF Longer
<1>5. /\ socket_requests' \in Seq(About)
      /\ Longer(socket_requests, socket_requests', <<"write", n>>)
  BY <1>1, <1>2, <1>3, PutLast
<1>. USE DEF Longer
<1>6. SocketWriteTypeOK'
  <2>1. Len(form') <= MAX_WRITES
    BY <1>1, <1>2, <1>4 DEF Write
  <2>. QED BY <1>1, <1>4, <1>5, <2>1 DEF SocketWriteInv, SocketWriteTypeOK, Shape, About
<1>7. \A i \in 1 .. Len(socket_requests) : socket_requests[i][1] = "write" =>
          socket_requests[i][2] \in 1 .. Len(form)
  <2>1. ASSUME NEW i \in 1 .. Len(socket_requests), socket_requests[i][1] = "write"
        PROVE  socket_requests[i][2] \in 1 .. Len(form)
    <3>1. socket_requests[i] \in About
      BY <1>2, <2>1
    <3>2. socket_requests[i][2] \in Write /\ socket_requests[i][2] <= Len(form)
      BY <2>1, <3>1, Abouts DEF SocketWriteInv, WritesInOrder
    <3>. QED BY <1>2, <3>2 DEF Write
  <2>. QED BY <2>1
<1>8. \A i \in 1 .. Len(write_queue) : write_queue[i] \in 1 .. Len(form)
  BY <1>2 DEF SocketWriteInv, WritesInOrder, Write
<1>9. WritesInOrder'
  <2>1. /\ \A i \in 1 .. Len(write_queue) : i <= write_queue[i] /\ write_queue[i] <= Len(form')
        /\ \A i, j \in 1 .. Len(write_queue) : i < j => write_queue[i] < write_queue[j]
    <3>1. /\ \A i \in 1 .. Len(write_queue) : i <= write_queue[i]
          /\ \A i, j \in 1 .. Len(write_queue) : i < j => write_queue[i] < write_queue[j]
      BY DEF SocketWriteInv, WritesInOrder
    <3>2. ASSUME NEW i \in 1 .. Len(write_queue)
          PROVE  write_queue[i] <= Len(form')
      <4>1. write_queue[i] \in 1 .. Len(form)
        BY <1>8
      <4>. QED BY <1>2, <1>4, <4>1
    <3>. QED BY <3>1, <3>2
  <2>2. ASSUME NEW i \in 1 .. Len(socket_requests'), socket_requests'[i][1] = "write"
        PROVE  /\ socket_requests'[i][2] <= Len(form')
               /\ \A k \in 1 .. Len(write_queue) : write_queue[k] < socket_requests'[i][2]
    <3>1. CASE i \in 1 .. Len(socket_requests)
      <4>1. socket_requests'[i] = socket_requests[i] /\ socket_requests[i][1] = "write"
        BY <1>5, <2>2, <3>1
      <4>2. \A k \in 1 .. Len(write_queue) : write_queue[k] < socket_requests[i][2]
        BY <3>1, <4>1 DEF SocketWriteInv, WritesInOrder
      <4>3. socket_requests[i][2] <= Len(form')
        BY <1>2, <1>4, <1>7, <3>1, <4>1
      <4>. QED BY <4>1, <4>2, <4>3
    <3>2. CASE i = Len(socket_requests) + 1
      BY <1>2, <1>4, <1>5, <1>8, <3>2
    <3>. QED BY <1>5, <3>1, <3>2
  <2>3. ASSUME NEW i \in 1 .. Len(socket_requests'), NEW j \in 1 .. Len(socket_requests'),
               i < j, socket_requests'[i][1] = "write", socket_requests'[j][1] = "write"
        PROVE  socket_requests'[i][2] < socket_requests'[j][2]
    <3>1. i \in 1 .. Len(socket_requests) /\ socket_requests'[i] = socket_requests[i]
      BY <1>5, <2>3
    <3>2. CASE j \in 1 .. Len(socket_requests)
      BY <1>5, <2>3, <3>1, <3>2 DEF SocketWriteInv, WritesInOrder
    <3>3. CASE j = Len(socket_requests) + 1
      BY <1>2, <1>5, <1>7, <2>3, <3>1, <3>3
    <3>. QED BY <1>5, <3>2, <3>3
  <2>. QED BY <1>1, <2>1, <2>2, <2>3 DEF WritesInOrder
<1>10. CloseIsLast'
  <2>1. ~closed => /\ state = "open"
                   /\ \A i \in 1 .. Len(socket_requests) : socket_requests[i][1] # "close"
    BY DEF SocketWriteInv, CloseIsLast
  <2>2. ASSUME NEW i \in 1 .. Len(socket_requests'), socket_requests'[i][1] = "write"
        PROVE  /\ form'[socket_requests'[i][2]].fd \/ state = "open"
               /\ i \in 1 .. Len(socket_requests) =>
                      form'[socket_requests'[i][2]] = form[socket_requests[i][2]]
    <3>1. CASE i \in 1 .. Len(socket_requests)
      BY <1>4, <1>5, <1>7, <2>2, <3>1 DEF SocketWriteInv, CloseIsLast
    <3>2. CASE i = Len(socket_requests) + 1
      BY <1>4, <1>5, <2>1, <3>2
    <3>. QED BY <1>5, <3>1, <3>2
  <2>3. ASSUME NEW i \in 1 .. Len(socket_requests'), socket_requests'[i][1] = "close"
        PROVE  /\ state = "open" /\ closed
               /\ \A j \in 1 .. Len(socket_requests') :
                   /\ socket_requests'[j][1] = "close" => j = i
                   /\ j > i /\ socket_requests'[j][1] = "write" =>
                          form'[socket_requests'[j][2]].fd
    <3>1. i \in 1 .. Len(socket_requests) /\ socket_requests'[i] = socket_requests[i]
      BY <1>5, <2>3
    <3>2. /\ state = "open" /\ closed
          /\ \A j \in 1 .. Len(socket_requests) :
                   /\ socket_requests[j][1] = "close" => j = i
                   /\ j > i /\ socket_requests[j][1] = "write" =>
                          form[socket_requests[j][2]].fd
      BY <2>3, <3>1 DEF SocketWriteInv, CloseIsLast
    <3>3. ASSUME NEW j \in 1 .. Len(socket_requests')
          PROVE  /\ socket_requests'[j][1] = "close" => j = i
                 /\ j > i /\ socket_requests'[j][1] = "write" =>
                          form'[socket_requests'[j][2]].fd
      <4>1. CASE j \in 1 .. Len(socket_requests)
        BY <1>5, <2>2, <3>2, <4>1
      <4>2. CASE j = Len(socket_requests) + 1
        BY <1>4, <1>5, <3>2, <4>2
      <4>. QED BY <1>5, <4>1, <4>2
    <3>. QED BY <3>2, <3>3
  <2>. QED BY <1>1, <2>2, <2>3 DEF SocketWriteInv, CloseIsLast
<1>11. Counted'
  BY <1>1 DEF SocketWriteInv, Counted
<1>12. Accounts'
  <2>1. ASSUME NEW w \in Write PROVE Over(w)' <=> Over(w)
    <3>1. <<"write", w>> = <<"write", n>> <=> w = n
      OBVIOUS
    <3>2. Contains(socket_requests', <<"write", w>>) <=>
              Contains(socket_requests, <<"write", w>>) \/ w = n
      BY <1>5, <3>1
    <3>3. w \in 1 .. Len(form') <=> w \in 1 .. Len(form) \/ w = n
      BY <1>2, <1>4
    <3>4. n \notin 1 .. Len(form)
      BY <1>2
    <3>. QED BY <1>1, <3>2, <3>3, <3>4 DEF Over
  <2>2. \A w \in Write : Over(w) => form'[w] = form[w]
    BY <1>4 DEF Over
  <2>. QED BY <1>1, <2>1, <2>2, AccountsKept DEF SocketWriteInv
<1>. QED BY <1>6, <1>9, <1>10, <1>11, <1>12 DEF SocketWriteInv

\* A write after an error ends at once.
LEMMA WriteErrorKeeps ==
    ASSUME SocketWriteInv, NEW wants \in BOOLEAN, write_error(wants)
    PROVE  SocketWriteInv'
<1>. PICK n : n = Len(form) + 1
  OBVIOUS
<1>. PICK shape : shape = [fd |-> FALSE, answer |-> wants, long |-> FALSE]
  OBVIOUS
<1>1. /\ n \in Write /\ ~closed
      /\ form' = Append(form, shape)
      /\ socket_requests' = socket_requests
      /\ kind' = kind /\ closed' = closed /\ options' = options /\ wshared' = wshared
      /\ state' = state /\ fd_open' = fd_open /\ m_write_error' = m_write_error
      /\ cached' = cached /\ allocated' = allocated /\ write_queue' = write_queue
      /\ sent_writes' = sent_writes
  BY DEF write_error, handleVars, write_requests
<1>2. /\ releases' = [w \in Write |-> releases[w] + (IF Contains(<<n>>, w) THEN 1 ELSE 0)]
      /\ answers' = [w \in Write |-> IF Contains(<<n>>, w) /\ form'[w].answer
                                     THEN Append(answers[w], "error")
                                     ELSE answers[w]]
  BY DEF write_error, complete, answer
<1>3. /\ form \in Seq(Shape) /\ socket_requests \in Seq(About) /\ Len(form) \in Nat
      /\ write_queue \in Seq(Write) /\ MAX_WRITES \in Nat
  BY SocketTypes DEF SocketWriteInv
<1>4. shape \in Shape
  BY DEF Shape
<1>5. form' \in Seq(Shape) /\ Longer(form, form', shape)
  BY <1>1, <1>3, <1>4, PutLast
<1>6. /\ Len(form') = Len(form) + 1
      /\ \A i \in 1 .. Len(form) : form'[i] = form[i]
  BY <1>5 DEF Longer
<1>7. /\ \A i \in 1 .. Len(socket_requests) : socket_requests[i] \in About
      /\ Len(socket_requests) \in Nat /\ Len(write_queue) \in Nat
  BY <1>3
<1>8. \A i \in 1 .. Len(socket_requests) : socket_requests[i][1] = "write" =>
          socket_requests[i][2] \in 1 .. Len(form)
  BY <1>7, Abouts DEF SocketWriteInv, WritesInOrder, Write
<1>9. \A i \in 1 .. Len(write_queue) : write_queue[i] \in 1 .. Len(form)
  BY <1>3 DEF SocketWriteInv, WritesInOrder, Write
<1>10. WritesInOrder'
  <2>1. Len(form) <= Len(form')
    BY <1>3, <1>6
  <2>2. \A i \in 1 .. Len(write_queue) : write_queue[i] <= Len(form')
    BY <1>3, <1>6, <1>9
  <2>3. \A i \in 1 .. Len(socket_requests) : socket_requests[i][1] = "write" =>
            socket_requests[i][2] <= Len(form')
    BY <1>3, <1>6, <1>8
  <2>. QED BY <1>1, <2>2, <2>3 DEF SocketWriteInv, WritesInOrder
<1>11. CloseIsLast'
  <2>1. \A i \in 1 .. Len(socket_requests) : socket_requests[i][1] = "write" =>
            form'[socket_requests[i][2]] = form[socket_requests[i][2]]
    BY <1>6, <1>8
  <2>2. state = "open" /\ \A i \in 1 .. Len(socket_requests) : socket_requests[i][1] # "close"
    BY <1>1 DEF SocketWriteInv, CloseIsLast
  <2>. QED BY <1>1, <2>1, <2>2 DEF SocketWriteInv, CloseIsLast
<1>12. Counted'
  BY <1>1 DEF SocketWriteInv, Counted
<1>13. n \notin 1 .. Len(form) /\ n \in 1 .. Len(form')
  BY <1>3, <1>6
<1>14. ~Over(n) /\ Over(n)' /\ ~Contains(sent_writes', n)
  <2>1. ~Contains(socket_requests, <<"write", n>>)
    <3>1. SUFFICES ASSUME NEW i \in 1 .. Len(socket_requests),
                          socket_requests[i] = <<"write", n>>
                   PROVE  FALSE
      BY DEF Contains
    <3>2. socket_requests[i][1] = "write" /\ socket_requests[i][2] = n
      BY <3>1
    <3>. QED BY <1>8, <1>13, <3>2
  <2>2. ~Contains(write_queue, n)
    BY <1>9, <1>13 DEF Contains
  <2>3. ~Over(n)
    BY <1>13 DEF Over
  <2>4. Over(n)'
    BY <1>1, <1>13, <2>1, <2>2 DEF Over
  <2>5. ~Contains(sent_writes, n)
    BY <1>1, <2>3 DEF SocketWriteInv, Accounts, Account
  <2>. QED BY <1>1, <2>3, <2>4, <2>5
<1>15. \A w \in Write : w # n => (Over(w)' <=> Over(w)) /\ (Over(w) => form'[w] = form[w])
  <2>. SUFFICES ASSUME NEW w \in Write, w # n
       PROVE  (Over(w)' <=> Over(w)) /\ (Over(w) => form'[w] = form[w])
    OBVIOUS
  <2>1. w \in 1 .. Len(form') <=> w \in 1 .. Len(form)
    BY <1>3, <1>6
  <2>. QED BY <1>1, <1>6, <2>1 DEF Over
<1>16. /\ Accounts' /\ releases' \in [Write -> 0 .. 2]
       /\ answers' \in [Write -> Seq({"ok", "error"})]
  <2>1. SocketWriteTypeOK /\ Accounts
    BY DEF SocketWriteInv
  <2>2. \A w \in Write : w # n =>
            /\ Over(w)' <=> Over(w)
            /\ Contains(sent_writes', w) <=> Contains(sent_writes, w)
            /\ Over(w) => form'[w].answer = form[w].answer
    BY <1>1, <1>15
  <2>. QED BY <1>1, <1>2, <1>14, <2>1, <2>2, AccountsOfOne
<1>17. SocketWriteTypeOK'
  <2>1. Len(form') <= MAX_WRITES
    BY <1>1, <1>3, <1>6 DEF Write
  <2>2. form' \in Seq([fd : BOOLEAN, answer : BOOLEAN, long : BOOLEAN])
    BY <1>5 DEF Shape
  <2>. QED BY <1>1, <1>16, <2>1, <2>2 DEF SocketWriteInv, SocketWriteTypeOK
<1>. QED BY <1>10, <1>11, <1>12, <1>16, <1>17 DEF SocketWriteInv

\* A request that is no write goes into the pipe.
LEMMA OtherKeeps ==
    ASSUME SocketWriteInv, NEW e \in About, e[1] # "write",
           ~closed, closed' \in BOOLEAN, e[1] = "close" => closed', closed => closed',
           socket_requests' = Append(socket_requests, e), options' \in 0 .. MAX_OPTIONS,
           kind' = kind, form' = form, wshared' = wshared, state' = state,
           fd_open' = fd_open, m_write_error' = m_write_error, cached' = cached,
           allocated' = allocated, write_queue' = write_queue, releases' = releases,
           answers' = answers, sent_writes' = sent_writes
    PROVE  SocketWriteInv'
<1>1. socket_requests \in Seq(About) /\ form \in Seq(Shape)
  BY SocketTypes DEF SocketWriteInv
<1>2. socket_requests' \in Seq(About) /\ Longer(socket_requests, socket_requests', e)
  BY <1>1, PutLast
<1>3. SocketWriteTypeOK'
  BY <1>2 DEF SocketWriteInv, SocketWriteTypeOK, About
<1>. USE <1>2 DEF Longer
<1>4. \A i \in 1 .. Len(socket_requests') : socket_requests'[i][1] = "write" =>
          i \in 1 .. Len(socket_requests) /\ socket_requests'[i] = socket_requests[i]
  OBVIOUS
<1>5. state = "open" /\ \A i \in 1 .. Len(socket_requests) : socket_requests[i][1] # "close"
  BY DEF SocketWriteInv, CloseIsLast
<1>6. \A i \in 1 .. Len(socket_requests') : socket_requests'[i][1] = "close" =>
          i = Len(socket_requests') /\ closed'
  BY <1>5
<1>7. WritesInOrder'
  BY <1>4 DEF SocketWriteInv, WritesInOrder
<1>8. CloseIsLast'
  <2>1. ASSUME NEW i \in 1 .. Len(socket_requests')
        PROVE  /\ socket_requests'[i][1] = "write" =>
                      form'[socket_requests'[i][2]].fd \/ state' = "open"
               /\ socket_requests'[i][1] = "close" =>
                      /\ state' = "open" /\ closed'
                      /\ \A j \in 1 .. Len(socket_requests') :
                          /\ socket_requests'[j][1] = "close" => j = i
                          /\ j > i /\ socket_requests'[j][1] = "write" =>
                                 form'[socket_requests'[j][2]].fd
    BY <1>5, <1>6
  <2>. QED BY <1>5, <2>1 DEF CloseIsLast
<1>9. Counted'
  BY DEF SocketWriteInv, Counted
<1>10. Accounts'
  <2>1. ASSUME NEW w \in Write PROVE Over(w)' <=> Over(w)
    <3>1. <<"write", w>>[1] = "write"
      OBVIOUS
    <3>2. e # <<"write", w>>
      BY <3>1
    <3>3. Contains(socket_requests', <<"write", w>>) <=>
              Contains(socket_requests, <<"write", w>>)
      BY <3>2
    <3>. QED BY <3>3 DEF Over
  <2>. QED BY <2>1, AccountsKept DEF SocketWriteInv
<1>. QED BY <1>3, <1>7, <1>8, <1>9, <1>10 DEF SocketWriteInv

-----------------------------------------------------------------------------
(* Network thread.                                                           *)

\* What the invariant says of a request that leaves the pipe.
LEMMA HeadLeaves ==
    ASSUME SocketWriteInv, NEW type, SocketRequest(type)
    PROVE  /\ socket_requests' \in Seq(About) /\ Shorter(socket_requests, socket_requests')
           /\ socket_requests[1] \in About /\ Head(socket_requests) = socket_requests[1]
           /\ socket_requests[1][1] = type
           /\ state # "aborted"
<1>1. /\ socket_requests # << >> /\ Head(socket_requests)[1] = type
      /\ socket_requests' = Tail(socket_requests) /\ state # "aborted"
  BY DEF SocketRequest, Running
<1>2. socket_requests \in Seq(About)
  BY SocketTypes DEF SocketWriteInv
<1>3. /\ socket_requests' \in Seq(About) /\ socket_requests[1] \in About
      /\ Shorter(socket_requests, socket_requests')
  BY <1>1, <1>2, TakeFirst
<1>. QED BY <1>1, <1>3 DEF Shorter

\* What is left in the pipe is in order.
LEMMA RestInOrder ==
    ASSUME SocketWriteInv, Shorter(socket_requests, socket_requests'),
           form' = form, closed' = closed, wshared' = wshared, state' = state
    PROVE  /\ \A i \in 1 .. Len(socket_requests') : socket_requests'[i][1] = "write" =>
                  socket_requests'[i][2] <= Len(form)
           /\ \A i, j \in 1 .. Len(socket_requests') :
                  i < j /\ socket_requests'[i][1] = "write" /\ socket_requests'[j][1] = "write"
                      => socket_requests'[i][2] < socket_requests'[j][2]
           /\ CloseIsLast'
<1>1. /\ Len(socket_requests) \in Nat
      /\ Len(socket_requests') \in Nat
      /\ \A i \in 1 .. Len(socket_requests') :
             /\ i + 1 \in 1 .. Len(socket_requests)
             /\ socket_requests'[i] = socket_requests[i + 1]
  BY DEF Shorter
<1>2. \A i, j \in 1 .. Len(socket_requests') : /\ i < j => i + 1 < j + 1
                                               /\ i + 1 = j + 1 => i = j
                                               /\ i \in Nat
  BY <1>1
<1>3. ASSUME NEW i \in 1 .. Len(socket_requests')
      PROVE  /\ socket_requests'[i][1] = "write" =>
                    /\ socket_requests'[i][2] <= Len(form)
                    /\ form[socket_requests'[i][2]].fd \/ state = "open"
             /\ socket_requests'[i][1] = "close" => state = "open" /\ closed
  BY <1>1 DEF SocketWriteInv, WritesInOrder, CloseIsLast
<1>4. ASSUME NEW i \in 1 .. Len(socket_requests'), NEW j \in 1 .. Len(socket_requests'),
             i < j, socket_requests'[i][1] = "write", socket_requests'[j][1] = "write"
      PROVE  socket_requests'[i][2] < socket_requests'[j][2]
  <2>1. /\ i + 1 \in 1 .. Len(socket_requests) /\ j + 1 \in 1 .. Len(socket_requests)
        /\ i + 1 < j + 1
        /\ socket_requests[i + 1][1] = "write" /\ socket_requests[j + 1][1] = "write"
    BY <1>1, <1>2, <1>4
  <2>2. socket_requests[i + 1][2] < socket_requests[j + 1][2]
    BY <2>1 DEF SocketWriteInv, WritesInOrder
  <2>. QED BY <1>1, <2>2
<1>5. ASSUME NEW i \in 1 .. Len(socket_requests'), NEW j \in 1 .. Len(socket_requests'),
             socket_requests'[i][1] = "close"
      PROVE  /\ socket_requests'[j][1] = "close" => j = i
             /\ j > i /\ socket_requests'[j][1] = "write" =>
                    form[socket_requests'[j][2]].fd
  <2>1. i + 1 \in 1 .. Len(socket_requests) /\ j + 1 \in 1 .. Len(socket_requests)
        /\ socket_requests[i + 1][1] = "close"
        /\ socket_requests'[j] = socket_requests[j + 1]
    BY <1>1, <1>5
  <2>2. /\ socket_requests[j + 1][1] = "close" => j + 1 = i + 1
        /\ j + 1 > i + 1 /\ socket_requests[j + 1][1] = "write" =>
               form[socket_requests[j + 1][2]].fd
    BY <2>1 DEF SocketWriteInv, CloseIsLast
  <2>. QED BY <1>2, <2>1, <2>2
<1>6. (state # "open" => closed) /\ (state = "gone" => ~wshared)
  BY DEF SocketWriteInv, CloseIsLast
<1>. QED BY <1>3, <1>4, <1>5, <1>6 DEF CloseIsLast

\* What the invariant says of a write that leaves the pipe: all that libuv holds came
\* before it, all that is left in the pipe after it.
LEMMA WriteLeaves ==
    ASSUME SocketWriteInv, SocketRequest("write"), NEW w, w = Head(socket_requests)[2]
    PROVE  /\ w \in Write /\ w \in 1 .. Len(form)
           /\ \A k \in 1 .. Len(write_queue) : write_queue[k] < w
           /\ Len(write_queue) < w
           /\ \A i \in 1 .. Len(socket_requests') : socket_requests'[i][1] = "write" =>
                  w < socket_requests'[i][2]
           /\ ~Contains(write_queue, w) /\ ~Contains(socket_requests', <<"write", w>>)
           /\ ~Over(w)
           /\ \A v : v # w => (Contains(socket_requests', <<"write", v>>)
                               <=> Contains(socket_requests, <<"write", v>>))
           /\ shared_write(w) => state # "gone"
<1>1. /\ socket_requests' \in Seq(About) /\ Shorter(socket_requests, socket_requests')
      /\ socket_requests[1] \in About /\ Head(socket_requests) = socket_requests[1]
      /\ socket_requests[1][1] = "write"
  BY HeadLeaves
<1>2. w \in Write /\ socket_requests[1] = <<"write", w>> /\ w = socket_requests[1][2]
  BY <1>1, Abouts
<1>3. /\ form \in Seq(Shape) /\ Len(form) \in Nat /\ write_queue \in Seq(Write)
      /\ Len(write_queue) \in Nat /\ MAX_WRITES \in Nat
  BY SocketTypes DEF SocketWriteInv
<1>4. 1 \in 1 .. Len(socket_requests)
  BY <1>1 DEF Shorter
<1>5. /\ w <= Len(form) /\ \A k \in 1 .. Len(write_queue) : write_queue[k] < w
      /\ \A j \in 1 .. Len(socket_requests) : 1 < j /\ socket_requests[j][1] = "write" =>
             w < socket_requests[j][2]
  BY <1>1, <1>2, <1>4 DEF SocketWriteInv, WritesInOrder
<1>6. w \in 1 .. Len(form) /\ w \in Nat
  BY <1>2, <1>3, <1>5 DEF Write
<1>7. Len(write_queue) < w
  <2>1. CASE Len(write_queue) = 0
    BY <1>6, <2>1
  <2>2. CASE Len(write_queue) # 0
    <3>1. Len(write_queue) \in 1 .. Len(write_queue)
      BY <1>3, <2>2
    <3>2. write_queue[Len(write_queue)] \in Write
      BY <1>3, <3>1
    <3>3. /\ Len(write_queue) <= write_queue[Len(write_queue)]
          /\ write_queue[Len(write_queue)] < w
      BY <1>5, <3>1 DEF SocketWriteInv, WritesInOrder
    <3>. QED BY <1>3, <1>6, <3>2, <3>3 DEF Write
  <2>. QED BY <2>1, <2>2
<1>8. ASSUME NEW i \in 1 .. Len(socket_requests'), socket_requests'[i][1] = "write"
      PROVE  w < socket_requests'[i][2]
  <2>1. /\ i + 1 \in 1 .. Len(socket_requests) /\ 1 < i + 1
        /\ socket_requests'[i] = socket_requests[i + 1]
    BY <1>1 DEF Shorter
  <2>. QED BY <1>5, <1>8, <2>1
<1>9. ~Contains(write_queue, w)
  BY <1>5, <1>6 DEF Contains
<1>10. ~Contains(socket_requests', <<"write", w>>)
  <2>1. SUFFICES ASSUME NEW i \in 1 .. Len(socket_requests'),
                        socket_requests'[i] = <<"write", w>>
                 PROVE  FALSE
    BY DEF Contains
  <2>2. socket_requests'[i][1] = "write" /\ socket_requests'[i][2] = w
    BY <2>1
  <2>3. w < w
    BY <1>8, <2>2
  <2>. QED BY <1>6, <2>3
<1>11. ~Over(w)
  BY <1>2, <1>4 DEF Over, Contains
<1>12. ASSUME NEW v, v # w
       PROVE  Contains(socket_requests', <<"write", v>>)
                  <=> Contains(socket_requests, <<"write", v>>)
  <2>1. <<"write", v>> # socket_requests[1]
    <3>1. <<"write", v>>[2] = v /\ socket_requests[1][2] = w
      BY <1>2
    <3>. QED BY <1>12, <3>1
  <2>. QED BY <1>1, <2>1 DEF Shorter
<1>13. shared_write(w) => state # "gone"
  BY <1>1, <1>2, <1>4 DEF SocketWriteInv, CloseIsLast, shared_write
<1>. QED BY <1>2, <1>5, <1>6, <1>7, <1>8, <1>9, <1>10, <1>11, <1>12, <1>13

\* libuv takes a write.
LEMMA QueueKeeps ==
    ASSUME SocketWriteInv, SocketRequest("write"), NEW w, w = Head(socket_requests)[2],
           queue(w), state # "gone", kind' = kind, form' = form, closed' = closed,
           options' = options, wshared' = wshared, state' = state, fd_open' \in BOOLEAN,
           m_write_error' \in BOOLEAN, sent_writes' = sent_writes
    PROVE  SocketWriteInv'
<1>1. /\ write_queue' = Append(write_queue, w)
      /\ cached' = IF cached > 0 THEN cached - 1 ELSE 0
      /\ allocated' = IF cached > 0 THEN allocated ELSE allocated + 1
      /\ releases' = releases /\ answers' = answers
  BY DEF queue
<1>2. /\ form \in Seq(Shape) /\ write_queue \in Seq(Write) /\ MAX_WRITES \in Nat
      /\ cached \in Nat /\ allocated \in Nat /\ cached <= TCP_WRITE_UV_REQUEST_CACHE_MAX
      /\ TCP_WRITE_UV_REQUEST_CACHE_MAX \in Nat \ {0} /\ Len(write_queue) \in Nat
  BY SocketTypes DEF SocketWriteInv
<1>3. /\ socket_requests' \in Seq(About) /\ Shorter(socket_requests, socket_requests')
  BY HeadLeaves
<1>4. /\ w \in Write /\ w \in 1 .. Len(form)
      /\ \A k \in 1 .. Len(write_queue) : write_queue[k] < w
      /\ Len(write_queue) < w
      /\ \A i \in 1 .. Len(socket_requests') : socket_requests'[i][1] = "write" =>
             w < socket_requests'[i][2]
      /\ ~Over(w)
      /\ \A v : v # w => (Contains(socket_requests', <<"write", v>>)
                          <=> Contains(socket_requests, <<"write", v>>))
  BY WriteLeaves
<1>5. write_queue' \in Seq(Write) /\ Longer(write_queue, write_queue', w)
  BY <1>1, <1>2, <1>4, PutLast
<1>6. /\ \A i \in 1 .. Len(socket_requests') : socket_requests'[i][1] = "write" =>
             socket_requests'[i][2] <= Len(form)
      /\ \A i, j \in 1 .. Len(socket_requests') :
             i < j /\ socket_requests'[i][1] = "write" /\ socket_requests'[j][1] = "write"
                 => socket_requests'[i][2] < socket_requests'[j][2]
      /\ CloseIsLast'
  BY <1>3, RestInOrder
<1>7. \A i \in 1 .. Len(socket_requests') : socket_requests'[i][1] = "write" =>
          socket_requests'[i][2] \in Write
  BY <1>3, Abouts
<1>8. \A k \in 1 .. Len(write_queue) : write_queue[k] \in Nat
  BY <1>2 DEF Write
<1>9. w \in Nat /\ Len(form) \in Nat /\ w <= Len(form) /\ w <= MAX_WRITES
  BY <1>2, <1>4 DEF Write
<1>10. \A k \in 1 .. Len(write_queue') :
           k \in 1 .. Len(write_queue) \/ k = Len(write_queue) + 1
  BY <1>5 DEF Longer
<1>11. WritesInOrder'
  <2>1. ASSUME NEW i \in 1 .. Len(write_queue')
        PROVE  /\ i <= write_queue'[i] /\ write_queue'[i] <= Len(form)
               /\ write_queue'[i] <= w
    <3>1. CASE i \in 1 .. Len(write_queue)
      <4>1. write_queue'[i] = write_queue[i]
        BY <1>5, <3>1 DEF Longer
      <4>2. i <= write_queue[i] /\ write_queue[i] <= Len(form) /\ write_queue[i] < w
        BY <1>4, <3>1 DEF SocketWriteInv, WritesInOrder
      <4>. QED BY <1>8, <1>9, <3>1, <4>1, <4>2
    <3>2. CASE i = Len(write_queue) + 1
      BY <1>2, <1>4, <1>5, <1>9, <3>2 DEF Longer
    <3>. QED BY <1>10, <3>1, <3>2
  <2>2. ASSUME NEW i \in 1 .. Len(write_queue'), NEW j \in 1 .. Len(write_queue'), i < j
        PROVE  write_queue'[i] < write_queue'[j]
    <3>1. i \in 1 .. Len(write_queue) /\ write_queue'[i] = write_queue[i]
      BY <1>2, <1>5, <2>2 DEF Longer
    <3>2. CASE j \in 1 .. Len(write_queue)
      BY <1>5, <2>2, <3>1, <3>2 DEF Longer, SocketWriteInv, WritesInOrder
    <3>3. CASE j = Len(write_queue) + 1
      BY <1>4, <1>5, <3>1, <3>3 DEF Longer
    <3>. QED BY <1>10, <3>2, <3>3
  <2>3. ASSUME NEW i \in 1 .. Len(socket_requests'), socket_requests'[i][1] = "write",
               NEW k \in 1 .. Len(write_queue')
        PROVE  write_queue'[k] < socket_requests'[i][2]
    <3>1. w < socket_requests'[i][2] /\ socket_requests'[i][2] \in Nat
      BY <1>4, <1>7, <2>3 DEF Write
    <3>2. write_queue'[k] \in Write
      BY <1>5
    <3>3. write_queue'[k] <= w /\ write_queue'[k] \in Nat
      BY <1>2, <2>1, <3>2 DEF Write
    <3>. QED BY <1>9, <3>1, <3>3
  <2>. QED BY <1>6, <2>1, <2>2, <2>3 DEF WritesInOrder
<1>12. Counted' /\ cached' \in 0 .. TCP_WRITE_UV_REQUEST_CACHE_MAX
       /\ allocated' \in 0 .. MAX_WRITES
  <2>1. allocated = cached + Len(write_queue) /\ allocated <= MAX_WRITES
    BY DEF SocketWriteInv, Counted, SocketWriteTypeOK
  <2>2. Len(write_queue') = Len(write_queue) + 1
    BY <1>5 DEF Longer
  <2>3. CASE cached > 0
    BY <1>1, <1>2, <2>1, <2>2, <2>3 DEF Counted
  <2>4. CASE cached = 0
    BY <1>1, <1>2, <1>4, <1>9, <2>1, <2>2, <2>4 DEF Counted
  <2>. QED BY <1>2, <2>3, <2>4
<1>13. Accounts'
  <2>1. ASSUME NEW v \in Write PROVE Over(v)' <=> Over(v)
    <3>1. CASE v = w
      <4>1. Contains(write_queue', w)
        BY <1>5 DEF Longer
      <4>. QED BY <1>4, <3>1, <4>1 DEF Over
    <3>2. CASE v # w
      <4>1. Contains(write_queue', v) <=> Contains(write_queue, v)
        BY <1>5, <3>2 DEF Longer
      <4>2. Contains(socket_requests', <<"write", v>>)
                <=> Contains(socket_requests, <<"write", v>>)
        BY <1>4, <3>2
      <4>. QED BY <4>1, <4>2 DEF Over
    <3>. QED BY <3>1, <3>2
  <2>. QED BY <1>1, <2>1, AccountsKept DEF SocketWriteInv
<1>14. SocketWriteTypeOK'
  BY <1>1, <1>3, <1>5, <1>12 DEF SocketWriteInv, SocketWriteTypeOK, About
<1>. QED BY <1>6, <1>11, <1>12, <1>13, <1>14 DEF SocketWriteInv

\* A write ends at once, before or after libuv was tried.
LEMMA RefuseKeeps ==
    ASSUME SocketWriteInv, SocketRequest("write"), NEW w, w = Head(socket_requests)[2],
           NEW tried \in BOOLEAN, refuse_write(w, tried), tried => state # "gone",
           kind' = kind, form' = form, closed' = closed, options' = options,
           wshared' = wshared, state' = state, fd_open' \in BOOLEAN,
           m_write_error' \in BOOLEAN, sent_writes' = sent_writes
    PROVE  SocketWriteInv'
<1>1. /\ write_queue' = write_queue
      /\ cached' = IF tried /\ cached = 0 THEN 1 ELSE cached
      /\ allocated' = allocated + (cached' - cached)
      /\ releases' = [v \in Write |-> releases[v] + (IF Contains(<<w>>, v) THEN 1 ELSE 0)]
      /\ answers' = [v \in Write |-> IF Contains(<<w>>, v) /\ form'[v].answer
                                     THEN Append(answers[v], "error")
                                     ELSE answers[v]]
  BY DEF refuse_write, complete, answer
<1>2. /\ form \in Seq(Shape) /\ write_queue \in Seq(Write) /\ MAX_WRITES \in Nat
      /\ cached \in Nat /\ allocated \in Nat /\ cached <= TCP_WRITE_UV_REQUEST_CACHE_MAX
      /\ TCP_WRITE_UV_REQUEST_CACHE_MAX \in Nat \ {0} /\ Len(write_queue) \in Nat
  BY SocketTypes DEF SocketWriteInv
<1>3. /\ socket_requests' \in Seq(About) /\ Shorter(socket_requests, socket_requests')
  BY HeadLeaves
<1>4. /\ w \in Write /\ w \in 1 .. Len(form)
      /\ Len(write_queue) < w
      /\ \A k \in 1 .. Len(write_queue) : write_queue[k] < w
      /\ \A i \in 1 .. Len(socket_requests') : socket_requests'[i][1] = "write" =>
             w < socket_requests'[i][2]
      /\ ~Contains(write_queue, w) /\ ~Contains(socket_requests', <<"write", w>>)
      /\ ~Over(w)
      /\ \A v : v # w => (Contains(socket_requests', <<"write", v>>)
                          <=> Contains(socket_requests, <<"write", v>>))
  BY WriteLeaves
<1>5. /\ \A i \in 1 .. Len(socket_requests') : socket_requests'[i][1] = "write" =>
             socket_requests'[i][2] <= Len(form)
      /\ \A i, j \in 1 .. Len(socket_requests') :
             i < j /\ socket_requests'[i][1] = "write" /\ socket_requests'[j][1] = "write"
                 => socket_requests'[i][2] < socket_requests'[j][2]
      /\ CloseIsLast'
  BY <1>3, RestInOrder
<1>6. \A i \in 1 .. Len(socket_requests') : socket_requests'[i][1] = "write" =>
          socket_requests'[i][2] \in Nat
  BY <1>3, Abouts DEF Write
<1>7. w \in Nat /\ w <= MAX_WRITES /\ \A k \in 1 .. Len(write_queue) : write_queue[k] \in Nat
  BY <1>2, <1>4 DEF Write
<1>8. WritesInOrder'
  <2>1. ASSUME NEW i \in 1 .. Len(socket_requests'), socket_requests'[i][1] = "write",
               NEW k \in 1 .. Len(write_queue)
        PROVE  write_queue[k] < socket_requests'[i][2]
    BY <1>4, <1>6, <1>7, <2>1
  <2>. QED BY <1>1, <1>5, <2>1 DEF SocketWriteInv, WritesInOrder
<1>9. Counted' /\ cached' \in 0 .. TCP_WRITE_UV_REQUEST_CACHE_MAX
      /\ allocated' \in 0 .. MAX_WRITES
  <2>1. /\ allocated = cached + Len(write_queue) /\ allocated <= MAX_WRITES
        /\ state = "gone" => allocated = 0
    BY DEF SocketWriteInv, Counted, SocketWriteTypeOK
  <2>2. CASE tried /\ cached = 0
    BY <1>1, <1>2, <1>4, <1>7, <2>1, <2>2 DEF Counted
  <2>3. CASE ~(tried /\ cached = 0)
    <3>1. cached' = cached /\ allocated' = allocated
      BY <1>1, <1>2, <2>3
    <3>2. Counted'
      BY <1>1, <2>1, <3>1 DEF Counted
    <3>. QED BY <1>2, <2>1, <3>1, <3>2
  <2>. QED BY <2>2, <2>3
<1>10. /\ Accounts' /\ releases' \in [Write -> 0 .. 2]
       /\ answers' \in [Write -> Seq({"ok", "error"})]
  <2>1. Over(w)'
    BY <1>1, <1>4 DEF Over
  <2>2. \A v \in Write : v # w => (Over(v)' <=> Over(v))
    BY <1>1, <1>4 DEF Over
  <2>3. ~Contains(sent_writes, w)
    BY <1>4 DEF SocketWriteInv, Accounts, Account
  <2>4. SocketWriteTypeOK /\ Accounts
    BY DEF SocketWriteInv
  <2>5. \A v \in Write : v # w =>
            /\ Over(v)' <=> Over(v)
            /\ Contains(sent_writes', v) <=> Contains(sent_writes, v)
            /\ Over(v) => form'[v].answer = form[v].answer
    BY <2>2
  <2>. QED BY <1>1, <1>4, <2>1, <2>3, <2>4, <2>5, AccountsOfOne
<1>11. SocketWriteTypeOK'
  BY <1>1, <1>3, <1>9, <1>10 DEF SocketWriteInv, SocketWriteTypeOK, About
<1>. QED BY <1>5, <1>8, <1>9, <1>10, <1>11 DEF SocketWriteInv

\* libuv has ended its first write.
LEMMA WrittenKeeps ==
    ASSUME SocketWriteInv, NEW status \in {"ok", "error"}, written(status),
           m_write_error' \in BOOLEAN
    PROVE  SocketWriteInv'
<1>. PICK w : w = Head(write_queue)
  OBVIOUS
<1>1. /\ state = "open" /\ write_queue # << >> /\ write_queue' = Tail(write_queue)
      /\ sent_writes' = IF status = "ok" THEN Append(sent_writes, w) ELSE sent_writes
      /\ releases' = [v \in Write |-> releases[v] + (IF Contains(<<w>>, v) THEN 1 ELSE 0)]
      /\ kind' = kind /\ form' = form /\ closed' = closed /\ options' = options
      /\ socket_requests' = socket_requests /\ wshared' = wshared /\ state' = state
      /\ fd_open' = fd_open
  BY DEF written, complete, contextVars, handleVars
<1>2. answers' = [v \in Write |-> IF Contains(<<w>>, v) /\ form'[v].answer
                                  THEN Append(answers[v], status)
                                  ELSE answers[v]]
  BY <1>1 DEF written, complete, answer
<1>3. /\ form \in Seq(Shape) /\ write_queue \in Seq(Write) /\ sent_writes \in Seq(Write)
      /\ cached \in Nat /\ allocated \in Nat /\ cached <= TCP_WRITE_UV_REQUEST_CACHE_MAX
      /\ TCP_WRITE_UV_REQUEST_CACHE_MAX \in Nat \ {0} /\ Len(write_queue) \in Nat
      /\ socket_requests \in Seq(About) /\ Len(form) \in Nat /\ MAX_WRITES \in Nat
  BY SocketTypes DEF SocketWriteInv
<1>4. /\ write_queue' \in Seq(Write) /\ w \in Write /\ w = write_queue[1]
      /\ Shorter(write_queue, write_queue')
  <2>1. /\ write_queue' \in Seq(Write) /\ write_queue[1] \in Write
        /\ Shorter(write_queue, write_queue')
    BY <1>1, <1>3, TakeFirst
  <2>. QED BY <2>1 DEF Shorter
<1>5. /\ Len(write_queue) > 0 /\ Len(write_queue') = Len(write_queue) - 1
      /\ 1 \in 1 .. Len(write_queue)
      /\ \A i \in 1 .. Len(write_queue') :
             i + 1 \in 1 .. Len(write_queue) /\ write_queue'[i] = write_queue[i + 1]
  BY <1>4 DEF Shorter
<1>6. \A i \in 1 .. Len(write_queue) : write_queue[i] \in Nat
  BY <1>3 DEF Write
<1>7. w <= Len(form) /\ w \in 1 .. Len(form)
  <2>1. write_queue[1] <= Len(form)
    BY <1>5 DEF SocketWriteInv, WritesInOrder
  <2>2. w \in Nat /\ w >= 1
    BY <1>3, <1>4 DEF Write
  <2>. QED BY <1>3, <1>4, <2>1, <2>2
<1>8. \A i \in 1 .. Len(write_queue') : w < write_queue'[i]
  <2>1. \A i \in 1 .. Len(write_queue') : 1 < i + 1
    OBVIOUS
  <2>. QED BY <1>4, <1>5, <2>1 DEF SocketWriteInv, WritesInOrder
<1>9. WritesInOrder'
  <2>1. ASSUME NEW i \in 1 .. Len(write_queue')
        PROVE  i <= write_queue'[i] /\ write_queue'[i] <= Len(form)
    <3>1. i + 1 <= write_queue[i + 1] /\ write_queue[i + 1] <= Len(form)
      BY <1>5 DEF SocketWriteInv, WritesInOrder
    <3>. QED BY <1>5, <1>6, <3>1
  <2>2. ASSUME NEW i \in 1 .. Len(write_queue'), NEW j \in 1 .. Len(write_queue'), i < j
        PROVE  write_queue'[i] < write_queue'[j]
    <3>1. i + 1 < j + 1
      BY <2>2
    <3>. QED BY <1>5, <3>1 DEF SocketWriteInv, WritesInOrder
  <2>3. ASSUME NEW i \in 1 .. Len(socket_requests), socket_requests[i][1] = "write"
        PROVE  /\ socket_requests[i][2] <= Len(form)
               /\ \A k \in 1 .. Len(write_queue') : write_queue'[k] < socket_requests[i][2]
    BY <1>5, <2>3 DEF SocketWriteInv, WritesInOrder
  <2>. QED BY <1>1, <2>1, <2>2, <2>3 DEF SocketWriteInv, WritesInOrder
<1>10. CloseIsLast'
  BY <1>1 DEF SocketWriteInv, CloseIsLast
<1>11. Counted' /\ cached' \in 0 .. TCP_WRITE_UV_REQUEST_CACHE_MAX
       /\ allocated' \in 0 .. MAX_WRITES
  <2>1. /\ allocated = cached + Len(write_queue) /\ allocated <= MAX_WRITES
    BY DEF SocketWriteInv, Counted, SocketWriteTypeOK
  <2>2. put_write_cached(1)
    BY DEF written
  <2>3. PICK room : room = TCP_WRITE_UV_REQUEST_CACHE_MAX - cached
    OBVIOUS
  <2>4. /\ cached' = IF 1 <= room THEN cached + 1 ELSE TCP_WRITE_UV_REQUEST_CACHE_MAX
        /\ allocated' = IF 1 <= room THEN allocated ELSE allocated - (1 - room)
    BY <2>2, <2>3 DEF put_write_cached
  <2>5. CASE 1 <= room
    BY <1>1, <1>3, <1>5, <2>1, <2>3, <2>4, <2>5 DEF Counted
  <2>6. CASE ~(1 <= room)
    <3>1. room = 0 /\ cached = TCP_WRITE_UV_REQUEST_CACHE_MAX
      BY <1>3, <2>3, <2>6
    <3>. QED BY <1>1, <1>3, <1>5, <2>1, <2>4, <3>1 DEF Counted
  <2>. QED BY <2>5, <2>6
<1>12. ~Over(w) /\ Over(w)' /\ (Contains(sent_writes', w) <=> status = "ok")
  <2>1. Contains(write_queue, w)
    BY <1>4, <1>5 DEF Contains
  <2>2. ~Over(w)
    BY <2>1 DEF Over
  <2>3. ~Contains(write_queue', w)
    <3>1. w \in Nat
      BY <1>4 DEF Write
    <3>. QED BY <1>8, <3>1 DEF Contains
  <2>4. ~Contains(socket_requests, <<"write", w>>)
    <3>1. SUFFICES ASSUME NEW i \in 1 .. Len(socket_requests),
                          socket_requests[i] = <<"write", w>>
                   PROVE  FALSE
      BY DEF Contains
    <3>2. socket_requests[i][1] = "write" /\ socket_requests[i][2] = w
      BY <3>1
    <3>3. w < w
      BY <1>4, <1>5, <3>2 DEF SocketWriteInv, WritesInOrder
    <3>4. w \in Nat
      BY <1>4 DEF Write
    <3>. QED BY <3>3, <3>4
  <2>5. Over(w)'
    BY <1>1, <1>7, <2>3, <2>4 DEF Over
  <2>6. ~Contains(sent_writes, w)
    BY <1>4, <2>2 DEF SocketWriteInv, Accounts, Account
  <2>7. CASE status = "ok"
    <3>1. Longer(sent_writes, sent_writes', w)
      BY <1>1, <1>3, <1>4, <2>7, PutLast
    <3>. QED BY <2>2, <2>5, <2>7, <3>1 DEF Longer
  <2>8. CASE status # "ok"
    BY <1>1, <2>2, <2>5, <2>6, <2>8
  <2>. QED BY <2>7, <2>8
<1>13. ASSUME NEW v \in Write, v # w
       PROVE  /\ Over(v)' <=> Over(v)
              /\ Contains(sent_writes', v) <=> Contains(sent_writes, v)
  <2>1. Contains(write_queue', v) <=> Contains(write_queue, v)
    BY <1>4, <1>13 DEF Shorter
  <2>2. Contains(sent_writes', v) <=> Contains(sent_writes, v)
    <3>1. CASE status = "ok"
      <4>1. Longer(sent_writes, sent_writes', w)
        BY <1>1, <1>3, <1>4, <3>1, PutLast
      <4>. QED BY <1>13, <4>1 DEF Longer
    <3>2. CASE status # "ok"
      BY <1>1, <3>2
    <3>. QED BY <3>1, <3>2
  <2>. QED BY <1>1, <2>1, <2>2 DEF Over
<1>14. sent_writes' \in Seq(Write)
  <2>1. Append(sent_writes, w) \in Seq(Write)
    BY <1>3, <1>4, PutLast
  <2>. QED BY <1>1, <1>3, <2>1
<1>15. /\ Accounts' /\ releases' \in [Write -> 0 .. 2]
       /\ answers' \in [Write -> Seq({"ok", "error"})]
  <2>1. SocketWriteTypeOK /\ Accounts
    BY DEF SocketWriteInv
  <2>2. \A v \in Write : v # w =>
            /\ Over(v)' <=> Over(v)
            /\ Contains(sent_writes', v) <=> Contains(sent_writes, v)
            /\ Over(v) => form'[v].answer = form[v].answer
    BY <1>1, <1>13
  <2>. QED BY <1>1, <1>2, <1>4, <1>12, <2>1, <2>2, AccountsOfOne
<1>16. SocketWriteTypeOK'
  BY <1>1, <1>4, <1>11, <1>14, <1>15 DEF SocketWriteInv, SocketWriteTypeOK
<1>. QED BY <1>9, <1>10, <1>11, <1>15, <1>16 DEF SocketWriteInv

\* A request that is no write is handled: the accounts and what libuv holds stay.
LEMMA OtherHandled ==
    ASSUME SocketWriteInv, NEW type, type # "write", SocketRequest(type),
           kind' = kind, form' = form, closed' = closed, options' = options,
           m_write_error' = m_write_error, cached' = cached, allocated' = allocated,
           write_queue' = write_queue, releases' = releases, answers' = answers,
           sent_writes' = sent_writes, state' = "gone" => state = "gone",
           wshared' \in BOOLEAN, state' \in {"open", "closing", "gone", "aborted"},
           fd_open' \in BOOLEAN, CloseIsLast'
    PROVE  SocketWriteInv'
<1>1. /\ socket_requests' \in Seq(About) /\ Shorter(socket_requests, socket_requests')
      /\ socket_requests[1] \in About /\ socket_requests[1][1] = type
  BY HeadLeaves
<1>2. /\ Len(socket_requests') \in Nat
      /\ \A i \in 1 .. Len(socket_requests') :
             /\ i + 1 \in 1 .. Len(socket_requests)
             /\ socket_requests'[i] = socket_requests[i + 1]
  BY <1>1 DEF Shorter
<1>3. WritesInOrder'
  <2>1. ASSUME NEW i \in 1 .. Len(socket_requests'), socket_requests'[i][1] = "write"
        PROVE  /\ socket_requests'[i][2] <= Len(form)
               /\ \A k \in 1 .. Len(write_queue) : write_queue[k] < socket_requests'[i][2]
    BY <1>2, <2>1 DEF SocketWriteInv, WritesInOrder
  <2>2. ASSUME NEW i \in 1 .. Len(socket_requests'), NEW j \in 1 .. Len(socket_requests'),
               i < j, socket_requests'[i][1] = "write", socket_requests'[j][1] = "write"
        PROVE  socket_requests'[i][2] < socket_requests'[j][2]
    <3>1. i + 1 < j + 1
      BY <1>2, <2>2
    <3>2. /\ i + 1 \in 1 .. Len(socket_requests) /\ j + 1 \in 1 .. Len(socket_requests)
          /\ socket_requests[i + 1][1] = "write" /\ socket_requests[j + 1][1] = "write"
      BY <1>2, <2>2
    <3>3. socket_requests[i + 1][2] < socket_requests[j + 1][2]
      BY <3>1, <3>2 DEF SocketWriteInv, WritesInOrder
    <3>. QED BY <1>2, <3>3
  <2>. QED BY <2>1, <2>2 DEF SocketWriteInv, WritesInOrder
<1>4. Counted'
  BY DEF SocketWriteInv, Counted
<1>5. Accounts'
  <2>1. ASSUME NEW w \in Write PROVE Over(w)' <=> Over(w)
    <3>1. <<"write", w>>[1] = "write"
      OBVIOUS
    <3>2. socket_requests[1] # <<"write", w>>
      BY <1>1, <3>1
    <3>3. Contains(socket_requests', <<"write", w>>) <=>
              Contains(socket_requests, <<"write", w>>)
      BY <1>1, <3>2 DEF Shorter
    <3>. QED BY <3>3 DEF Over
  <2>. QED BY <2>1, AccountsKept DEF SocketWriteInv
<1>6. SocketWriteTypeOK'
  BY <1>1 DEF SocketWriteInv, SocketWriteTypeOK, About
<1>. QED BY <1>3, <1>4, <1>5, <1>6 DEF SocketWriteInv

\* libuv ends the handle and all writes that it holds.
LEMMA ClosedKeeps ==
    ASSUME SocketWriteInv, on_socket_closed
    PROVE  SocketWriteInv'
<1>1. /\ state = "closing" /\ state' = "gone" /\ wshared' = FALSE /\ write_queue' = << >>
      /\ m_write_error' = (m_write_error \/ (kind = "tcp" /\ write_queue # << >>))
      /\ releases' =
             [w \in Write |-> releases[w] + (IF Contains(write_queue, w) THEN 1 ELSE 0)]
      /\ cached' = 0 /\ allocated' = allocated - Len(write_queue) - cached
      /\ kind' = kind /\ form' = form /\ closed' = closed /\ options' = options
      /\ socket_requests' = socket_requests /\ fd_open' = fd_open
      /\ sent_writes' = sent_writes
  BY DEF on_socket_closed, complete, contextVars
<1>2. answers' = [w \in Write |-> IF Contains(write_queue, w) /\ form'[w].answer
                                  THEN Append(answers[w], "error")
                                  ELSE answers[w]]
  BY <1>1 DEF on_socket_closed, complete, answer
<1>3. /\ write_queue \in Seq(Write) /\ Len(write_queue) \in Nat /\ cached \in Nat
      /\ socket_requests \in Seq(About) /\ Len(form) \in Nat /\ MAX_WRITES \in Nat
      /\ TCP_WRITE_UV_REQUEST_CACHE_MAX \in Nat
  BY SocketTypes DEF SocketWriteInv
<1>4. write_queue' \in Seq(Write) /\ Len(write_queue') = 0
  BY <1>1
<1>5. WritesInOrder'
  BY <1>1, <1>4 DEF SocketWriteInv, WritesInOrder
<1>6. CloseIsLast'
  BY <1>1 DEF SocketWriteInv, CloseIsLast
<1>7. Counted' /\ cached' = 0 /\ allocated' = 0
  BY <1>1, <1>3, <1>4 DEF SocketWriteInv, Counted
<1>8. ASSUME NEW w \in Write, Contains(write_queue, w)
      PROVE  Over(w)' /\ ~Over(w) /\ ~Contains(sent_writes', w)
  <2>1. PICK k \in 1 .. Len(write_queue) : write_queue[k] = w
    BY <1>8 DEF Contains
  <2>2. w \in Nat /\ w \in 1 .. Len(form)
    BY <1>3, <2>1 DEF SocketWriteInv, WritesInOrder, Write
  <2>3. ~Contains(socket_requests, <<"write", w>>)
    <3>1. SUFFICES ASSUME NEW i \in 1 .. Len(socket_requests),
                          socket_requests[i] = <<"write", w>>
                   PROVE  FALSE
      BY DEF Contains
    <3>2. socket_requests[i][1] = "write" /\ socket_requests[i][2] = w
      BY <3>1
    <3>3. w < w
      BY <2>1, <3>2 DEF SocketWriteInv, WritesInOrder
    <3>. QED BY <2>2, <3>3
  <2>4. ~Contains(write_queue', w)
    BY <1>1, OneOrNone
  <2>5. ~Over(w)
    BY <1>8 DEF Over
  <2>6. ~Contains(sent_writes, w)
    BY <2>5 DEF SocketWriteInv, Accounts, Account
  <2>. QED BY <1>1, <2>2, <2>3, <2>4, <2>5, <2>6 DEF Over
<1>9. ASSUME NEW w \in Write, ~Contains(write_queue, w)
      PROVE  Over(w)' <=> Over(w)
  <2>1. ~Contains(write_queue', w)
    BY <1>1, OneOrNone
  <2>. QED BY <1>1, <1>9, <2>1 DEF Over
<1>10. /\ Accounts' /\ releases' \in [Write -> 0 .. 2]
       /\ answers' \in [Write -> Seq({"ok", "error"})]
  <2>1. SocketWriteTypeOK /\ Accounts
    BY DEF SocketWriteInv
  <2>2. \A w \in Write : Contains(write_queue, w) =>
            /\ Over(w)' /\ ~Over(w)
            /\ Contains(sent_writes', w) <=> "error" = "ok"
    BY <1>8
  <2>3. \A w \in Write : ~Contains(write_queue, w) =>
            /\ Over(w)' <=> Over(w)
            /\ Contains(sent_writes', w) <=> Contains(sent_writes, w)
            /\ Over(w) => form'[w].answer = form[w].answer
    BY <1>1, <1>9
  <2>. QED BY <1>1, <1>2, <2>1, <2>2, <2>3, AccountsClosed
<1>11. SocketWriteTypeOK'
  <2>1. m_write_error' \in BOOLEAN
    BY <1>1, Zenon
  <2>2. 0 \in 0 .. TCP_WRITE_UV_REQUEST_CACHE_MAX /\ 0 \in 0 .. MAX_WRITES
    BY <1>3
  <2>. QED BY <1>1, <1>4, <1>7, <1>10, <2>1, <2>2 DEF SocketWriteInv, SocketWriteTypeOK
<1>. QED BY <1>5, <1>6, <1>7, <1>10, <1>11 DEF SocketWriteInv

\* Every step.
LEMMA SocketWriteStep ==
    SocketWriteInv /\ [SocketWriteNext]_socketWriteVars => SocketWriteInv'
<1>. SUFFICES ASSUME SocketWriteInv, [SocketWriteNext]_socketWriteVars
     PROVE  SocketWriteInv'
  OBVIOUS
<1>0. /\ kind \in {"tcp", "udp"} /\ wshared \in BOOLEAN /\ fd_open \in BOOLEAN
      /\ m_write_error \in BOOLEAN /\ options \in 0 .. MAX_OPTIONS /\ closed \in BOOLEAN
      /\ state \in {"open", "closing", "gone", "aborted"} /\ MAX_OPTIONS \in Nat
  BY SocketWriteAssumption DEF SocketWriteInv, SocketWriteTypeOK
<1>1. ASSUME NEW wants \in BOOLEAN, write_handle(wants) PROVE SocketWriteInv'
  <2>. PICK shape : shape = [fd |-> FALSE, answer |-> wants, long |-> FALSE]
    OBVIOUS
  <2>1. shape \in Shape /\ ~closed /\ request(shape)
    BY <1>1 DEF write_handle, Shape
  <2>. QED BY <2>1, RequestKeeps
<1>2. ASSUME NEW wants \in BOOLEAN, write_error(wants) PROVE SocketWriteInv'
  BY <1>2, WriteErrorKeeps
<1>3. ASSUME NEW wants \in BOOLEAN, NEW long \in BOOLEAN, write_fd(wants, long)
      PROVE  SocketWriteInv'
  <2>. PICK shape : shape = [fd |-> TRUE, answer |-> wants, long |-> long]
    OBVIOUS
  <2>1. shape \in Shape /\ shape.fd /\ request(shape)
    BY <1>3 DEF write_fd, Shape
  <2>. QED BY <2>1, RequestKeeps
<1>4. ASSUME NEW fd \in BOOLEAN, NEW wants \in BOOLEAN, _write(fd, wants)
      PROVE  SocketWriteInv'
  <2>. PICK shape : shape = [fd |-> fd, answer |-> wants, long |-> FALSE]
    OBVIOUS
  <2>1. shape \in Shape /\ shape.fd = fd
    BY DEF Shape
  <2>2. (fd \/ ~closed) /\ request(shape)
    BY <1>4 DEF _write
  <2>3. shape.fd \/ ~closed
    BY <2>1, <2>2
  <2>. QED BY <2>1, <2>2, <2>3, RequestKeeps
<1>5. ASSUME NEW enable \in BOOLEAN, set_wshared(enable) PROVE SocketWriteInv'
  <2>. PICK e : e = <<"wshared", enable>>
    OBVIOUS
  <2>1. e \in About /\ e[1] # "write" /\ e[1] # "close"
    BY DEF About
  <2>2. /\ ~closed /\ options < MAX_OPTIONS /\ options' = options + 1
        /\ socket_requests' = Append(socket_requests, e)
        /\ kind' = kind /\ closed' = closed /\ form' = form /\ wshared' = wshared
        /\ state' = state /\ fd_open' = fd_open /\ m_write_error' = m_write_error
        /\ cached' = cached /\ allocated' = allocated /\ write_queue' = write_queue
        /\ releases' = releases /\ answers' = answers /\ sent_writes' = sent_writes
    BY <1>5 DEF set_wshared, handleVars, memory, write_requests
  <2>3. options' \in 0 .. MAX_OPTIONS /\ closed' \in BOOLEAN
    BY <1>0, <2>2
  <2>. QED BY <2>1, <2>2, <2>3, OtherKeeps
<1>6. CASE close_socket
  <2>. PICK e : e = <<"close">>
    OBVIOUS
  <2>1. e \in About /\ e[1] = "close"
    BY DEF About
  <2>2. /\ ~closed /\ closed' = TRUE
        /\ socket_requests' = Append(socket_requests, e)
        /\ kind' = kind /\ form' = form /\ wshared' = wshared /\ options' = options
        /\ state' = state /\ fd_open' = fd_open /\ m_write_error' = m_write_error
        /\ cached' = cached /\ allocated' = allocated /\ write_queue' = write_queue
        /\ releases' = releases /\ answers' = answers /\ sent_writes' = sent_writes
    BY <1>6 DEF close_socket, handleVars, memory, write_requests
  <2>3. options' \in 0 .. MAX_OPTIONS /\ closed' \in BOOLEAN
    BY <1>0, <2>2
  <2>. QED BY <2>1, <2>2, <2>3, OtherKeeps
<1>7. CASE request_write
  <2>. PICK w : w = Head(socket_requests)[2]
    OBVIOUS
  <2>. PICK tried : tried = (shared_write(w) /\ ~m_write_error)
    OBVIOUS
  <2>1. /\ SocketRequest("write")
        /\ kind' = kind /\ form' = form /\ closed' = closed /\ options' = options
        /\ wshared' = wshared /\ state' = state /\ fd_open' = fd_open
        /\ sent_writes' = sent_writes
    BY <1>7 DEF request_write, contextVars, handleVars
  <2>2. \/ tried /\ queue(w) /\ m_write_error' = m_write_error
        \/ refuse_write(w, tried) /\ m_write_error' = (m_write_error \/ tried)
    BY <1>7 DEF request_write
  <2>3. tried \in BOOLEAN /\ (tried => state # "gone")
    <3>1. tried \in BOOLEAN
      BY Zenon
    <3>2. tried => shared_write(w)
      OBVIOUS
    <3>. QED BY <2>1, <3>1, <3>2, WriteLeaves
  <2>4. (m_write_error \/ tried) \in BOOLEAN
    BY Zenon
  <2>5. m_write_error' \in BOOLEAN /\ fd_open' \in BOOLEAN
    BY <1>0, <2>1, <2>2, <2>4
  <2>6. CASE tried /\ queue(w)
    BY <2>1, <2>3, <2>5, <2>6, QueueKeeps
  <2>7. CASE refuse_write(w, tried)
    BY <2>1, <2>3, <2>5, <2>7, RefuseKeeps
  <2>. QED BY <2>2, <2>6, <2>7
<1>8. CASE request_udp_write
  <2>. PICK w : w = Head(socket_requests)[2]
    OBVIOUS
  <2>1. /\ SocketRequest("write")
        /\ kind' = kind /\ form' = form /\ closed' = closed /\ options' = options
        /\ wshared' = wshared /\ state' = state /\ m_write_error' = m_write_error
        /\ sent_writes' = sent_writes
    BY <1>8 DEF request_udp_write, contextVars
  <2>2. \/ shared_write(w) /\ fd_open' = TRUE /\ queue(w)
        \/ shared_write(w) /\ refuse_write(w, TRUE) /\ fd_open' = fd_open
        \/ refuse_write(w, FALSE) /\ fd_open' = fd_open
    BY <1>8 DEF request_udp_write, uv_udp_send
  <2>3. shared_write(w) => state # "gone"
    BY <2>1, WriteLeaves
  <2>4. m_write_error' \in BOOLEAN /\ fd_open' \in BOOLEAN
    BY <1>0, <2>1, <2>2
  <2>5. CASE shared_write(w) /\ queue(w)
    BY <2>1, <2>3, <2>4, <2>5, QueueKeeps
  <2>6. CASE shared_write(w) /\ refuse_write(w, TRUE)
    BY <2>1, <2>3, <2>4, <2>6, RefuseKeeps
  <2>7. CASE refuse_write(w, FALSE)
    BY <2>1, <2>4, <2>7, RefuseKeeps
  <2>. QED BY <2>2, <2>5, <2>6, <2>7
<1>9. CASE request_option
  <2>1. /\ SocketRequest("wshared")
        /\ wshared' = IF state = "open" THEN Head(socket_requests)[2] ELSE wshared
        /\ kind' = kind /\ form' = form /\ closed' = closed /\ options' = options
        /\ state' = state /\ fd_open' = fd_open /\ m_write_error' = m_write_error
        /\ cached' = cached /\ allocated' = allocated /\ write_queue' = write_queue
        /\ releases' = releases /\ answers' = answers /\ sent_writes' = sent_writes
    BY <1>9 DEF request_option, contextVars, memory, write_requests
  <2>2. /\ Shorter(socket_requests, socket_requests') /\ socket_requests[1] \in About
        /\ Head(socket_requests) = socket_requests[1]
        /\ socket_requests[1][1] = "wshared"
    BY <2>1, HeadLeaves
  <2>3. wshared' \in BOOLEAN
    BY <1>0, <2>1, <2>2, Abouts
  <2>4. CloseIsLast'
    <3>1. ASSUME NEW i \in 1 .. Len(socket_requests')
          PROVE  /\ i + 1 \in 1 .. Len(socket_requests)
                 /\ socket_requests'[i] = socket_requests[i + 1]
      BY <2>2 DEF Shorter
    <3>2. ASSUME NEW i \in 1 .. Len(socket_requests')
          PROVE  /\ socket_requests'[i][1] = "write" =>
                        form[socket_requests'[i][2]].fd \/ state = "open"
                 /\ socket_requests'[i][1] = "close" => state = "open" /\ closed
      BY <3>1 DEF SocketWriteInv, CloseIsLast
    <3>3. ASSUME NEW i \in 1 .. Len(socket_requests'), NEW j \in 1 .. Len(socket_requests'),
                 socket_requests'[i][1] = "close"
          PROVE  /\ socket_requests'[j][1] = "close" => j = i
                 /\ j > i /\ socket_requests'[j][1] = "write" =>
                        form[socket_requests'[j][2]].fd
      <4>1. /\ i + 1 \in 1 .. Len(socket_requests) /\ j + 1 \in 1 .. Len(socket_requests)
            /\ socket_requests[i + 1][1] = "close"
            /\ socket_requests'[j] = socket_requests[j + 1]
        BY <3>1, <3>3
      <4>2. /\ socket_requests[j + 1][1] = "close" => j + 1 = i + 1
            /\ j + 1 > i + 1 /\ socket_requests[j + 1][1] = "write" =>
                   form[socket_requests[j + 1][2]].fd
        BY <4>1 DEF SocketWriteInv, CloseIsLast
      <4>. QED BY <4>1, <4>2
    <3>4. (state # "open" => closed) /\ (state = "gone" => ~wshared')
      BY <2>1 DEF SocketWriteInv, CloseIsLast
    <3>. QED BY <2>1, <3>2, <3>3, <3>4 DEF CloseIsLast
  <2>. QED BY <1>0, <2>1, <2>3, <2>4, OtherHandled
<1>10. CASE request_close
  <2>1. /\ SocketRequest("close")
        /\ state' = "closing" /\ fd_open' = FALSE
        /\ kind' = kind /\ form' = form /\ closed' = closed /\ options' = options
        /\ wshared' = wshared /\ m_write_error' = m_write_error
        /\ cached' = cached /\ allocated' = allocated /\ write_queue' = write_queue
        /\ releases' = releases /\ answers' = answers /\ sent_writes' = sent_writes
    BY <1>10 DEF request_close, contextVars, memory, write_requests
  <2>2. /\ Shorter(socket_requests, socket_requests')
        /\ socket_requests[1][1] = "close"
    BY <2>1, HeadLeaves
  <2>3. 1 \in 1 .. Len(socket_requests)
    BY <2>2 DEF Shorter
  <2>4. /\ closed
        /\ \A j \in 1 .. Len(socket_requests) :
            /\ socket_requests[j][1] = "close" => j = 1
            /\ j > 1 /\ socket_requests[j][1] = "write" => form[socket_requests[j][2]].fd
    BY <2>2, <2>3 DEF SocketWriteInv, CloseIsLast
  <2>5. ASSUME NEW i \in 1 .. Len(socket_requests')
        PROVE  /\ socket_requests'[i][1] = "write" => form[socket_requests'[i][2]].fd
               /\ socket_requests'[i][1] # "close"
    <3>1. /\ i + 1 \in 1 .. Len(socket_requests) /\ i + 1 > 1 /\ i + 1 # 1
          /\ socket_requests'[i] = socket_requests[i + 1]
      BY <2>2 DEF Shorter
    <3>. QED BY <2>4, <3>1
  <2>6. CloseIsLast'
    BY <2>1, <2>4, <2>5 DEF CloseIsLast
  <2>. QED BY <1>0, <2>1, <2>6, OtherHandled
<1>11. ASSUME NEW status \in {"ok", "error"}, on_write(status) PROVE SocketWriteInv'
  <2>1. written(status) /\ m_write_error' = (m_write_error \/ status = "error")
    BY <1>11 DEF on_write
  <2>2. m_write_error' \in BOOLEAN
    BY <2>1, Zenon
  <2>. QED BY <2>1, <2>2, WrittenKeeps
<1>12. ASSUME NEW status \in {"ok", "error"}, on_udp_write(status) PROVE SocketWriteInv'
  <2>1. written(status) /\ m_write_error' \in BOOLEAN
    BY <1>0, <1>12 DEF on_udp_write
  <2>. QED BY <2>1, WrittenKeeps
<1>13. CASE on_socket_closed
  BY <1>13, ClosedKeeps
<1>14. CASE abort
  <2>1. /\ state = "closing" /\ state' = "aborted"
        /\ kind' = kind /\ form' = form /\ closed' = closed /\ options' = options
        /\ socket_requests' = socket_requests
        /\ wshared' = wshared /\ fd_open' = fd_open /\ m_write_error' = m_write_error
        /\ cached' = cached /\ allocated' = allocated /\ write_queue' = write_queue
        /\ releases' = releases /\ answers' = answers /\ sent_writes' = sent_writes
    BY <1>14 DEF abort, contextVars, memory, write_requests
  <2>2. SocketWriteTypeOK' /\ WritesInOrder' /\ Counted'
    BY <2>1 DEF SocketWriteInv, SocketWriteTypeOK, WritesInOrder, Counted
  <2>3. CloseIsLast'
    BY <2>1 DEF SocketWriteInv, CloseIsLast
  <2>4. Accounts'
    BY <2>1 DEF SocketWriteInv, Accounts, Account, Over
  <2>. QED BY <2>2, <2>3, <2>4 DEF SocketWriteInv
<1>15. CASE UNCHANGED socketWriteVars
  <2>1. /\ kind' = kind /\ form' = form /\ closed' = closed /\ options' = options
        /\ socket_requests' = socket_requests /\ state' = state
        /\ wshared' = wshared /\ fd_open' = fd_open /\ m_write_error' = m_write_error
        /\ cached' = cached /\ allocated' = allocated /\ write_queue' = write_queue
        /\ releases' = releases /\ answers' = answers /\ sent_writes' = sent_writes
    BY <1>15 DEF socketWriteVars, contextVars, handleVars, memory, write_requests
  <2>2. SocketWriteTypeOK' /\ WritesInOrder' /\ Counted' /\ CloseIsLast'
    BY <2>1 DEF SocketWriteInv, SocketWriteTypeOK, WritesInOrder, Counted, CloseIsLast
  <2>3. Accounts'
    BY <2>1 DEF SocketWriteInv, Accounts, Account, Over
  <2>. QED BY <2>2, <2>3 DEF SocketWriteInv
<1>. QED BY <1>1, <1>2, <1>3, <1>4, <1>5, <1>6, <1>7, <1>8, <1>9, <1>10, <1>11, <1>12,
            <1>13, <1>14, <1>15 DEF SocketWriteNext

\* What the invariant says of the writes and of their data.
LEMMA SocketWriteHolds == SocketWriteInv => WritesOver
<1>. SUFFICES ASSUME SocketWriteInv PROVE MemoryReleased /\ WritesAnswered
  BY DEF SocketWriteInv, WritesOver
<1>1. form \in Seq(Shape) /\ Len(form) \in Nat /\ Len(form) <= MAX_WRITES /\ MAX_WRITES \in Nat
  BY SocketTypes DEF SocketWriteInv
<1>2. ASSUME NEW w \in 1 .. Len(form)
      PROVE  w \in Write /\ Account(w) /\ (Over(w) <=> w \notin Pending)
  <2>1. w \in Write
    BY <1>1 DEF Write
  <2>. QED BY <2>1 DEF SocketWriteInv, Accounts, Over, Pending
<1>3. ASSUME NEW w \in 1 .. Len(form)
      PROVE  /\ releases[w] = IF w \in Pending THEN 0 ELSE 1
             /\ Len(answers[w]) = IF form[w].answer /\ w \notin Pending THEN 1 ELSE 0
             /\ answers[w] # << >> => (answers[w] = <<"ok">> <=> Contains(sent_writes, w))
  <2>1. Len(<< >>) = 0 /\ Len(<<"ok">>) = 1 /\ Len(<<"error">>) = 1 /\ <<"ok">> # <<"error">>
    OBVIOUS
  <2>2. CASE Over(w)
    <3>1. /\ releases[w] = 1 /\ w \notin Pending
          /\ answers[w] = IF ~form[w].answer THEN << >>
                          ELSE IF Contains(sent_writes, w) THEN <<"ok">> ELSE <<"error">>
      BY <1>2, <2>2 DEF Account
    <3>2. CASE ~form[w].answer
      BY <2>1, <3>1, <3>2
    <3>3. CASE form[w].answer /\ Contains(sent_writes, w)
      BY <2>1, <3>1, <3>3
    <3>4. CASE form[w].answer /\ ~Contains(sent_writes, w)
      BY <2>1, <3>1, <3>4
    <3>. QED BY <3>2, <3>3, <3>4
  <2>3. CASE ~Over(w)
    <3>1. releases[w] = 0 /\ w \in Pending /\ answers[w] = << >>
      BY <1>2, <2>3 DEF Account
    <3>. QED BY <2>1, <3>1
  <2>. QED BY <2>2, <2>3
<1>. QED BY <1>3 DEF SocketWriteInv, Counted, MemoryReleased, WritesAnswered

\* For any number of writes and options and any size of the cache, over tcp and udp, by
\* the handle or the shared descriptor, whatever libuv answers and whenever the socket
\* is closed: the data of a write is released once, when nobody uses it any more, and
\* whoever waits for the write is answered once (uv_tcp_handle.cpp, uv_udp_handle.cpp).
THEOREM WritesAreOver == SocketWriteSpec => []WritesOver
<1>1. SocketWriteInit => SocketWriteInv
  <2>. SUFFICES ASSUME SocketWriteInit PROVE SocketWriteInv
    OBVIOUS
  <2>1. /\ kind \in {"tcp", "udp"} /\ closed = FALSE /\ form = << >> /\ options = 0
        /\ answers = [w \in Write |-> << >>] /\ socket_requests = << >>
        /\ wshared = FALSE /\ m_write_error = FALSE /\ state = "open" /\ fd_open = TRUE
        /\ write_queue = << >> /\ cached = 0 /\ allocated = 0
        /\ releases = [w \in Write |-> 0] /\ sent_writes = << >>
    BY DEF SocketWriteInit
  <2>2. /\ Len(form) = 0 /\ Len(socket_requests) = 0 /\ Len(write_queue) = 0
        /\ ~(\E i \in 1 .. 0 : TRUE)
    BY <2>1
  <2>3. SocketWriteTypeOK
    <3>1. 0 \in 0 .. MAX_OPTIONS /\ 0 \in 0 .. TCP_WRITE_UV_REQUEST_CACHE_MAX
          /\ 0 \in 0 .. MAX_WRITES /\ 0 \in 0 .. 2 /\ 0 <= MAX_WRITES
      BY SocketWriteAssumption
    <3>2. /\ answers \in [Write -> Seq({"ok", "error"})] /\ releases \in [Write -> 0 .. 2]
      BY <2>1, <3>1
    <3>3. /\ form \in Seq([fd : BOOLEAN, answer : BOOLEAN, long : BOOLEAN])
          /\ socket_requests \in Seq(({"write"} \X Write) \cup ({"wshared"} \X BOOLEAN)
                                     \cup {<<"close">>})
          /\ write_queue \in Seq(Write) /\ sent_writes \in Seq(Write)
      BY <2>1
    <3>. QED BY <2>1, <2>2, <3>1, <3>2, <3>3 DEF SocketWriteTypeOK
  <2>4. WritesInOrder /\ CloseIsLast /\ Counted
    BY <2>1, <2>2 DEF WritesInOrder, CloseIsLast, Counted
  <2>5. Accounts
    <3>1. ASSUME NEW w \in Write PROVE Account(w)
      <4>1. ~Over(w)
        BY <2>2 DEF Over
      <4>2. releases[w] = 0 /\ answers[w] = << >>
        BY <2>1
      <4>3. ~Contains(sent_writes, w)
        BY <2>1, OneOrNone
      <4>. QED BY <4>1, <4>2, <4>3 DEF Account
    <3>. QED BY <3>1 DEF Accounts
  <2>. QED BY <2>3, <2>4, <2>5 DEF SocketWriteInv
<1>. QED BY <1>1, SocketWriteStep, SocketWriteHolds, PTL DEF SocketWriteSpec

-----------------------------------------------------------------------------
(* Sequences: the number of requests of a kind, and what is taken out.       *)

\* The number of the places where a sequence holds m.
Times(q, m) == Cardinality({i \in 1 .. Len(q) : q[i] = m})

\* Places are finitely many.
LEMMA PlacesFinite ==
    ASSUME NEW q, Len(q) \in Nat, NEW m
    PROVE  IsFiniteSet({i \in 1 .. Len(q) : q[i] = m}) /\ Times(q, m) \in Nat
<1>1. IsFiniteSet(1 .. Len(q))
  BY FS_Interval
<1>2. IsFiniteSet({i \in 1 .. Len(q) : q[i] = m})
  BY <1>1, FS_Subset
<1>. QED BY <1>2, FS_CardinalityType DEF Times

\* A longer sequence.
LEMMA TimesLonger ==
    ASSUME NEW q, NEW p, NEW e, Longer(q, p, e), NEW m
    PROVE  Times(p, m) = Times(q, m) + (IF e = m THEN 1 ELSE 0)
<1>1. PICK Q : Q = {i \in 1 .. Len(q) : q[i] = m}
  OBVIOUS
<1>2. PICK P : P = {i \in 1 .. Len(p) : p[i] = m}
  OBVIOUS
<1>3. IsFiniteSet(Q) /\ Cardinality(Q) \in Nat /\ Times(q, m) = Cardinality(Q)
  BY <1>1, PlacesFinite DEF Times, Longer
<1>4. Times(p, m) = Cardinality(P)
  BY <1>2 DEF Times
<1>5. CASE e = m
  <2>1. P = Q \cup {Len(q) + 1} /\ Len(q) + 1 \notin Q
    BY <1>1, <1>2, <1>5 DEF Longer
  <2>2. Cardinality(P) = Cardinality(Q) + 1
    BY <1>3, <2>1, FS_AddElement
  <2>. QED BY <1>3, <1>4, <1>5, <2>2
<1>6. CASE e # m
  <2>1. P = Q
    BY <1>1, <1>2, <1>6 DEF Longer
  <2>. QED BY <1>3, <1>4, <1>6, <2>1
<1>. QED BY <1>5, <1>6

\* A shorter sequence.
LEMMA TimesShorter ==
    ASSUME NEW q, NEW p, Shorter(q, p), NEW m
    PROVE  Times(q, m) = Times(p, m) + (IF q[1] = m THEN 1 ELSE 0)
<1>1. PICK Q : Q = {i \in 1 .. Len(q) : q[i] = m}
  OBVIOUS
<1>2. PICK P : P = {i \in 1 .. Len(p) : p[i] = m}
  OBVIOUS
<1>3. IsFiniteSet(Q) /\ Cardinality(Q) \in Nat /\ Times(q, m) = Cardinality(Q)
  BY <1>1, PlacesFinite DEF Times, Shorter
<1>4. Len(p) \in Nat /\ Len(q) \in Nat /\ Len(p) = Len(q) - 1
  BY DEF Shorter
<1>5. IsFiniteSet(P) /\ Cardinality(P) \in Nat /\ Times(p, m) = Cardinality(P)
  BY <1>2, <1>4, PlacesFinite DEF Times
<1>6. PICK T : T = Q \ {1}
  OBVIOUS
<1>7. IsFiniteSet(T) /\ Cardinality(T) = Cardinality(P)
  <2>1. PICK f : f = [i \in P |-> i + 1]
    OBVIOUS
  <2>2. ASSUME NEW i \in P PROVE i \in Nat /\ i + 1 \in T
    BY <1>1, <1>2, <1>6 DEF Shorter
  <2>3. ASSUME NEW j \in T PROVE \E i \in P : f[i] = j
    <3>1. j \in 1 .. Len(q) /\ j # 1 /\ q[j] = m
      BY <1>1, <1>6
    <3>2. j - 1 \in 1 .. Len(p) /\ (j - 1) + 1 = j
      BY <1>4, <3>1
    <3>3. p[j - 1] = q[j]
      BY <3>2 DEF Shorter
    <3>4. j - 1 \in P
      BY <1>2, <3>1, <3>2, <3>3
    <3>. QED BY <2>1, <3>2, <3>4
  <2>4. f \in Bijection(P, T)
    BY <2>1, <2>2, <2>3, Fun_IsBij
  <2>5. ExistsBijection(P, T)
    BY <2>4 DEF ExistsBijection
  <2>. QED BY <1>5, <2>5, FS_Bijection
<1>8. 1 \in 1 .. Len(q)
  BY DEF Shorter
<1>9. CASE q[1] = m
  <2>1. 1 \in Q
    BY <1>1, <1>8, <1>9
  <2>2. Cardinality(T) = Cardinality(Q) - 1
    BY <1>3, <1>6, <2>1, FS_RemoveElement
  <2>. QED BY <1>3, <1>5, <1>7, <1>9, <2>2
<1>10. CASE q[1] # m
  <2>1. T = Q
    BY <1>1, <1>6, <1>10
  <2>. QED BY <1>3, <1>5, <1>7, <1>10, <2>1
<1>. QED BY <1>9, <1>10

\* RemoveFirst: what is left is a sequence without one place of e, if there was one.
LEMMA FirstRemoved ==
    ASSUME NEW S, NEW q \in Seq(S), NEW e
    PROVE  /\ RemoveFirst(q, e) \in Seq(S)
           /\ Len(RemoveFirst(q, e)) =
                  IF Contains(q, e) THEN Len(q) - 1 ELSE Len(q)
           /\ \A x : x # e /\ Contains(q, x) => Contains(RemoveFirst(q, e), x)
<1>1. CASE ~ \E i \in 1 .. Len(q) : q[i] = e
  BY <1>1 DEF RemoveFirst, Contains
<1>2. CASE \E i \in 1 .. Len(q) : q[i] = e
  <2>1. PICK I : I = {i \in 1 .. Len(q) : q[i] = e}
    OBVIOUS
  <2>2. I # {} /\ I \subseteq Nat /\ I \subseteq 1 .. Len(q)
    BY <1>2, <2>1
  <2>3. PICK R : R = OpToRel(<, Nat)
    OBVIOUS
  <2>4. IsWellFoundedOn(R, Nat)
    BY <2>3, NatLessThanWellFounded
  <2>5. PICK x \in I : \A y \in I : <<y, x>> \notin R
    BY <2>2, <2>4, WFMin
  <2>6. ASSUME NEW y \in I PROVE x <= y
    <3>1. <<y, x>> \in R <=> y < x
      BY <2>2, <2>3 DEF OpToRel
    <3>. QED BY <2>2, <2>5, <3>1
  <2>7. Min(I) \in I
    BY <2>5, <2>6 DEF Min
  <2>8. PICK k : k = Min(I)
    OBVIOUS
  <2>9. RemoveFirst(q, e) = SubSeq(q, 1, k - 1) \o SubSeq(q, k + 1, Len(q))
    BY <1>2, <2>1, <2>2, <2>8 DEF RemoveFirst, RemoveAt, SelectInSeq
  <2>10. k \in 1 .. Len(q) /\ Len(q) \in Nat
    <3>1. k \in I
      BY <2>7, <2>8
    <3>. QED BY <2>2, <3>1
  <2>11. /\ SubSeq(q, 1, k - 1) \in Seq(S) /\ Len(SubSeq(q, 1, k - 1)) = k - 1
         /\ SubSeq(q, k + 1, Len(q)) \in Seq(S)
         /\ Len(SubSeq(q, k + 1, Len(q))) = Len(q) - k
    BY <2>10
  <2>12. PICK a : a = SubSeq(q, 1, k - 1)
    OBVIOUS
  <2>13. PICK b : b = SubSeq(q, k + 1, Len(q))
    OBVIOUS
  <2>14. a \o b \in Seq(S) /\ Len(a \o b) = Len(a) + Len(b)
    BY <2>11, <2>12, <2>13, ConcatProperties
  <2>15. RemoveFirst(q, e) = a \o b /\ Len(a) = k - 1 /\ Len(b) = Len(q) - k
    BY <2>9, <2>11, <2>12, <2>13
  <2>16. Len(a \o b) = Len(q) - 1
    BY <2>10, <2>14, <2>15
  <2>17. Contains(q, e)
    BY <1>2 DEF Contains
  <2>18. ASSUME NEW y, y # e, Contains(q, y) PROVE Contains(a \o b, y)
    <3>1. PICK i \in 1 .. Len(q) : q[i] = y
      BY <2>18 DEF Contains
    <3>2. q[k] = e
      BY <2>1, <2>7, <2>8
    <3>3. \A j \in 1 .. Len(a) + Len(b) :
              (a \o b)[j] = IF j <= Len(a) THEN a[j] ELSE b[j - Len(a)]
      BY <2>11, <2>12, <2>13, ConcatProperties
    <3>4. CASE i < k
      <4>1. i \in 1 .. k - 1 /\ i \in 1 .. Len(a) + Len(b) /\ i <= Len(a)
        BY <2>10, <2>15, <3>4
      <4>2. a[i] = q[i]
        BY <2>10, <2>12, <4>1
      <4>3. (a \o b)[i] = y /\ i \in 1 .. Len(a \o b)
        BY <2>14, <3>1, <3>3, <4>1, <4>2
      <4>. QED BY <4>3 DEF Contains
    <3>5. CASE i > k
      <4>1. i - k \in 1 .. Len(q) - k /\ k + 1 + (i - k) - 1 = i
        BY <2>10, <3>5
      <4>2. b[i - k] = q[i]
        <5>1. Len(SubSeq(q, k + 1, Len(q))) = Len(q) - k
          BY <2>11
        <5>. QED BY <2>10, <2>13, <4>1, <5>1
      <4>3. i - 1 \in 1 .. Len(a) + Len(b) /\ ~(i - 1 <= Len(a)) /\ (i - 1) - Len(a) = i - k
        BY <2>10, <2>15, <3>5
      <4>4. (a \o b)[i - 1] = y /\ i - 1 \in 1 .. Len(a \o b)
        BY <2>14, <3>1, <3>3, <4>2, <4>3
      <4>. QED BY <4>4 DEF Contains
    <3>. QED BY <2>10, <3>1, <3>2, <3>4, <3>5, <2>18
  <2>. QED BY <2>14, <2>15, <2>16, <2>17, <2>18
<1>. QED BY <1>1, <1>2

-----------------------------------------------------------------------------
(* Messages of a kind that are numbered.                                     *)

\* The messages of the kind tag in q are those after low and up to high, in this order.
Ordered(tag, q, low, high) ==
    /\ \A n \in low + 1 .. high : \E i \in 1 .. Len(q) : q[i][1] = tag /\ q[i][2] = n
    /\ \A i \in 1 .. Len(q) : q[i][1] = tag => q[i][2] \in low + 1 .. high
    /\ \A i, j \in 1 .. Len(q) :
        i < j /\ q[i][1] = tag /\ q[j][1] = tag => q[i][2] < q[j][2]

\* The next message of the kind is put last.
LEMMA OrderedNext ==
    ASSUME NEW tag, NEW low \in Nat, NEW high \in Nat, low <= high,
           NEW q, Ordered(tag, q, low, high),
           NEW m, m[1] = tag, m[2] = high + 1, NEW p, Longer(q, p, m)
    PROVE  Ordered(tag, p, low, high + 1)
<1>1. /\ Len(q) \in Nat /\ Len(p) = Len(q) + 1
      /\ \A i \in 1 .. Len(q) : p[i] = q[i]
      /\ p[Len(q) + 1][1] = tag /\ p[Len(q) + 1][2] = high + 1
      /\ \A i \in 1 .. Len(p) : i \in 1 .. Len(q) \/ i = Len(q) + 1
  BY DEF Longer
<1>2. ASSUME NEW n \in low + 1 .. high + 1
      PROVE  \E i \in 1 .. Len(p) : p[i][1] = tag /\ p[i][2] = n
  <2>1. CASE n \in low + 1 .. high
    <3>1. PICK i \in 1 .. Len(q) : q[i][1] = tag /\ q[i][2] = n
      BY <2>1 DEF Ordered
    <3>2. i \in 1 .. Len(p) /\ p[i][1] = tag /\ p[i][2] = n
      BY <1>1, <3>1
    <3>. QED BY <3>2
  <2>2. CASE n = high + 1
    <3>1. Len(q) + 1 \in 1 .. Len(p)
      BY <1>1
    <3>. QED BY <1>1, <2>2, <3>1
  <2>. QED BY <1>2, <2>1, <2>2
<1>3. ASSUME NEW i \in 1 .. Len(p), p[i][1] = tag
      PROVE  p[i][2] \in low + 1 .. high + 1
  <2>1. CASE i \in 1 .. Len(q)
    <3>1. q[i][2] \in low + 1 .. high /\ p[i] = q[i]
      BY <1>1, <1>3, <2>1 DEF Ordered
    <3>. QED BY <3>1
  <2>2. CASE i = Len(q) + 1
    BY <1>1, <2>2
  <2>. QED BY <1>1, <2>1, <2>2
<1>4. ASSUME NEW i \in 1 .. Len(p), NEW j \in 1 .. Len(p), i < j,
             p[i][1] = tag, p[j][1] = tag
      PROVE  p[i][2] < p[j][2]
  <2>1. i \in 1 .. Len(q) /\ p[i] = q[i]
    BY <1>1, <1>4
  <2>2. q[i][2] \in low + 1 .. high
    BY <1>4, <2>1 DEF Ordered
  <2>3. CASE j \in 1 .. Len(q)
    BY <1>1, <1>4, <2>1, <2>3 DEF Ordered
  <2>4. CASE j = Len(q) + 1
    BY <1>1, <2>1, <2>2, <2>4
  <2>. QED BY <1>1, <2>3, <2>4
<1>. QED BY <1>2, <1>3, <1>4 DEF Ordered

\* Messages of another kind change nothing.
LEMMA OrderedOther ==
    ASSUME NEW tag, NEW low \in Nat, NEW high \in Nat, NEW q, Ordered(tag, q, low, high),
           NEW m, m[1] # tag, NEW p, Longer(q, p, m)
    PROVE  Ordered(tag, p, low, high)
<1>1. /\ Len(q) \in Nat /\ Len(p) = Len(q) + 1
      /\ \A i \in 1 .. Len(q) : p[i] = q[i]
      /\ p[Len(q) + 1][1] # tag
      /\ \A i \in 1 .. Len(p) : i \in 1 .. Len(q) \/ i = Len(q) + 1
  BY DEF Longer
<1>2. ASSUME NEW n \in low + 1 .. high
      PROVE  \E i \in 1 .. Len(p) : p[i][1] = tag /\ p[i][2] = n
  <2>1. PICK i \in 1 .. Len(q) : q[i][1] = tag /\ q[i][2] = n
    BY DEF Ordered
  <2>2. i \in 1 .. Len(p) /\ p[i][1] = tag /\ p[i][2] = n
    BY <1>1, <2>1
  <2>. QED BY <2>2
<1>3. \A i \in 1 .. Len(p) : p[i][1] = tag => i \in 1 .. Len(q) /\ p[i] = q[i]
  BY <1>1
<1>. QED BY <1>2, <1>3 DEF Ordered

\* The first message of the kind is the next one.
LEMMA OrderedFirst ==
    ASSUME NEW tag, NEW low \in Nat, NEW high \in Nat, NEW q, Ordered(tag, q, low, high),
           NEW p, Shorter(q, p), q[1][1] = tag
    PROVE  q[1][2] = low + 1 /\ low + 1 <= high /\ Ordered(tag, p, low + 1, high)
<1>1. /\ Len(q) \in Nat /\ Len(p) = Len(q) - 1 /\ 1 \in 1 .. Len(q)
      /\ \A i \in 1 .. Len(p) : i + 1 \in 1 .. Len(q) /\ p[i] = q[i + 1]
  BY DEF Shorter
<1>2. q[1][2] \in low + 1 .. high
  BY <1>1 DEF Ordered
<1>3. PICK k \in 1 .. Len(q) : q[k][1] = tag /\ q[k][2] = low + 1
  BY <1>2 DEF Ordered
<1>4. q[1][2] = low + 1
  <2>1. CASE k = 1
    BY <1>3, <2>1
  <2>2. CASE k # 1
    <3>1. q[1][2] < q[k][2]
      BY <1>1, <1>3, <2>2 DEF Ordered
    <3>. QED BY <1>2, <1>3, <3>1
  <2>. QED BY <2>1, <2>2
<1>5. ASSUME NEW n \in low + 2 .. high
      PROVE  \E i \in 1 .. Len(p) : p[i][1] = tag /\ p[i][2] = n
  <2>1. PICK i \in 1 .. Len(q) : q[i][1] = tag /\ q[i][2] = n
    BY DEF Ordered
  <2>2. i # 1
    BY <1>4, <2>1
  <2>3. i - 1 \in 1 .. Len(p) /\ (i - 1) + 1 = i
    BY <1>1, <2>2
  <2>4. p[i - 1] = q[i]
    BY <1>1, <2>3
  <2>. QED BY <2>1, <2>3, <2>4
<1>6. ASSUME NEW i \in 1 .. Len(p), p[i][1] = tag
      PROVE  p[i][2] \in low + 2 .. high
  <2>1. i + 1 \in 1 .. Len(q) /\ p[i] = q[i + 1] /\ 1 < i + 1
    BY <1>1
  <2>2. q[1][2] < q[i + 1][2] /\ q[i + 1][2] \in low + 1 .. high
    BY <1>1, <1>6, <2>1 DEF Ordered
  <2>. QED BY <1>4, <2>1, <2>2
<1>7. ASSUME NEW i \in 1 .. Len(p), NEW j \in 1 .. Len(p), i < j,
             p[i][1] = tag, p[j][1] = tag
      PROVE  p[i][2] < p[j][2]
  <2>1. i + 1 \in 1 .. Len(q) /\ j + 1 \in 1 .. Len(q) /\ i + 1 < j + 1
        /\ p[i] = q[i + 1] /\ p[j] = q[j + 1]
    BY <1>1, <1>7
  <2>2. q[i + 1][2] < q[j + 1][2]
    BY <1>7, <2>1 DEF Ordered
  <2>. QED BY <2>1, <2>2
<1>8. (low + 1) + 1 = low + 2
  OBVIOUS
<1>. QED BY <1>2, <1>4, <1>5, <1>6, <1>7, <1>8 DEF Ordered

\* A message of another kind is taken.
LEMMA OrderedRest ==
    ASSUME NEW tag, NEW low \in Nat, NEW high \in Nat, NEW q, Ordered(tag, q, low, high),
           NEW p, Shorter(q, p), q[1][1] # tag
    PROVE  Ordered(tag, p, low, high)
<1>1. /\ Len(q) \in Nat /\ Len(p) = Len(q) - 1 /\ 1 \in 1 .. Len(q)
      /\ \A i \in 1 .. Len(p) : i + 1 \in 1 .. Len(q) /\ p[i] = q[i + 1]
  BY DEF Shorter
<1>2. ASSUME NEW n \in low + 1 .. high
      PROVE  \E i \in 1 .. Len(p) : p[i][1] = tag /\ p[i][2] = n
  <2>1. PICK i \in 1 .. Len(q) : q[i][1] = tag /\ q[i][2] = n
    BY DEF Ordered
  <2>2. i # 1
    BY <2>1
  <2>3. i - 1 \in 1 .. Len(p) /\ (i - 1) + 1 = i
    BY <1>1, <2>2
  <2>4. p[i - 1] = q[i]
    BY <1>1, <2>3
  <2>. QED BY <2>1, <2>3, <2>4
<1>3. ASSUME NEW i \in 1 .. Len(p), NEW j \in 1 .. Len(p), i < j,
             p[i][1] = tag, p[j][1] = tag
      PROVE  p[i][2] < p[j][2]
  <2>1. i + 1 \in 1 .. Len(q) /\ j + 1 \in 1 .. Len(q) /\ i + 1 < j + 1
        /\ p[i] = q[i + 1] /\ p[j] = q[j + 1]
    BY <1>1, <1>3
  <2>2. q[i + 1][2] < q[j + 1][2]
    BY <1>3, <2>1 DEF Ordered
  <2>. QED BY <2>1, <2>2
<1>4. \A i \in 1 .. Len(p) : p[i][1] = tag => p[i][2] \in low + 1 .. high
  BY <1>1 DEF Ordered
<1>. QED BY <1>2, <1>3, <1>4 DEF Ordered

\* A sequence of messages of the kind, which are the next ones, is put last.
LEMMA OrderedConcat ==
    ASSUME NEW tag, NEW low \in Nat, NEW high \in Nat, low <= high,
           NEW S, NEW q \in Seq(S), Ordered(tag, q, low, high),
           NEW r \in Seq(S),
           \A i \in 1 .. Len(r) : r[i][1] = tag /\ r[i][2] = high + i,
           NEW p, p = q \o r
    PROVE  Ordered(tag, p, low, high + Len(r))
<1>1. /\ Len(q) \in Nat /\ Len(r) \in Nat /\ Len(p) = Len(q) + Len(r)
      /\ \A i \in 1 .. Len(q) + Len(r) : p[i] = IF i <= Len(q) THEN q[i] ELSE r[i - Len(q)]
  BY ConcatProperties
<1>2. ASSUME NEW i \in 1 .. Len(q) PROVE i \in 1 .. Len(p) /\ p[i] = q[i]
  <2>1. i \in 1 .. Len(q) + Len(r) /\ i <= Len(q)
    BY <1>1
  <2>. QED BY <1>1, <2>1
<1>3. ASSUME NEW i \in 1 .. Len(p), i \notin 1 .. Len(q)
      PROVE  /\ i - Len(q) \in 1 .. Len(r) /\ p[i][1] = tag
             /\ p[i][2] = high + (i - Len(q))
  <2>1. /\ i \in 1 .. Len(q) + Len(r) /\ ~(i <= Len(q))
        /\ i - Len(q) \in 1 .. Len(r)
    BY <1>1, <1>3
  <2>2. p[i] = r[i - Len(q)]
    BY <1>1, <2>1
  <2>. QED BY <2>1, <2>2
<1>4. ASSUME NEW n \in low + 1 .. high + Len(r)
      PROVE  \E i \in 1 .. Len(p) : p[i][1] = tag /\ p[i][2] = n
  <2>1. CASE n \in low + 1 .. high
    <3>1. PICK i \in 1 .. Len(q) : q[i][1] = tag /\ q[i][2] = n
      BY <2>1 DEF Ordered
    <3>. QED BY <1>2, <3>1
  <2>2. CASE n \notin low + 1 .. high
    <3>1. n \in high + 1 .. high + Len(r)
      BY <1>1, <1>4, <2>2
    <3>2. n \in Int /\ Len(q) \in Int /\ Len(q) + (n - high) \in Int
      BY <1>1, <3>1
    <3>3. PICK i \in Int : i = Len(q) + (n - high)
      BY <3>2
    <3>4. i \in 1 .. Len(p) /\ i \notin 1 .. Len(q) /\ high + (i - Len(q)) = n
      BY <1>1, <3>1, <3>2, <3>3
    <3>. QED BY <1>3, <3>4
  <2>. QED BY <2>1, <2>2
<1>5. ASSUME NEW i \in 1 .. Len(p), p[i][1] = tag
      PROVE  p[i][2] \in low + 1 .. high + Len(r)
  <2>1. CASE i \in 1 .. Len(q)
    <3>1. q[i][2] \in low + 1 .. high /\ p[i] = q[i]
      BY <1>2, <1>5, <2>1 DEF Ordered
    <3>. QED BY <1>1, <3>1
  <2>2. CASE i \notin 1 .. Len(q)
    <3>1. i - Len(q) \in 1 .. Len(r) /\ p[i][2] = high + (i - Len(q))
      BY <1>3, <2>2
    <3>. QED BY <1>1, <3>1
  <2>. QED BY <2>1, <2>2
<1>6. ASSUME NEW i \in 1 .. Len(p), NEW j \in 1 .. Len(p), i < j,
             p[i][1] = tag, p[j][1] = tag
      PROVE  p[i][2] < p[j][2]
  <2>1. CASE j \in 1 .. Len(q)
    <3>1. i \in 1 .. Len(q) /\ p[i] = q[i] /\ p[j] = q[j]
      BY <1>1, <1>2, <1>6, <2>1
    <3>. QED BY <1>6, <2>1, <3>1 DEF Ordered
  <2>2. CASE j \notin 1 .. Len(q) /\ i \in 1 .. Len(q)
    <3>1. j - Len(q) \in 1 .. Len(r) /\ p[j][2] = high + (j - Len(q))
      BY <1>3, <2>2
    <3>2. p[i] = q[i] /\ q[i][2] \in low + 1 .. high
      BY <1>2, <1>6, <2>2 DEF Ordered
    <3>. QED BY <1>1, <3>1, <3>2
  <2>3. CASE j \notin 1 .. Len(q) /\ i \notin 1 .. Len(q)
    <3>1. /\ j - Len(q) \in 1 .. Len(r) /\ p[j][2] = high + (j - Len(q))
          /\ i - Len(q) \in 1 .. Len(r) /\ p[i][2] = high + (i - Len(q))
      BY <1>3, <2>3
    <3>. QED BY <1>1, <1>6, <3>1
  <2>. QED BY <2>1, <2>2, <2>3
<1>. QED BY <1>4, <1>5, <1>6 DEF Ordered

-----------------------------------------------------------------------------
(* Accepting connections.                                                    *)

AcceptAnswer == ({"socket"} \X Connection) \cup ({"timeout"} \X Accept)
                \cup {AcceptError, ListenClosing}
AcceptKind == {"blocking", "nonblocking", "close"}

\* The connections that were handed over, and after them those on their way.
AllInOrder ==
    /\ Len(handed) <= Sent
    /\ \A i \in 1 .. Len(handed) : handed[i][1] = i
    /\ Ordered("socket", accept_messages, Len(handed), Sent)

\* A connection waits only while nobody asks for one.  As long as no callback has,
\* those who wait are not more than those that were asked for and those on their way.
Demanded ==
    /\ m_has_accept_event => ~m_has_noblocking_accept /\ m_blocking_accept_count = 0
    /\ accept_callback =>
           m_has_noblocking_accept \/ Contains(accept_requests, "nonblocking")
    /\ ~listen_closed /\ ~m_has_noblocking_accept =>
           Len(accept_sessions) <=
               Len(accept_requests) + m_blocking_accept_count + (Sent - Len(handed))
    /\ Len(accept_sessions) <= accepts
    /\ m_blocking_accept_count + Times(accept_requests, "blocking") <= accepts

\* The handler wakes all who wait, the coroutines one by one.
WakingAcceptors ==
    /\ "wake_blocking" = IF accept_pc = "lua" THEN accept_back ELSE accept_pc
    /\ ~accept_callback
    /\ Len(accept_sessions) <= accept_left

\* Those who wait at a socket that is closed will hear of it.
ClosedIsTold ==
    /\ Contains(accept_requests, "close") => listen_closed
    /\ listen_closed =>
           no_acceptor \/ Contains(accept_messages, ListenClosing) \/ WakingAcceptors

ListenInv == ListenTypeOK /\ AllInOrder /\ Demanded /\ ClosedIsTold

\* What the types say of a message about the listening socket.
LEMMA AcceptAnswers ==
    ASSUME NEW m \in AcceptAnswer
    PROVE  /\ m[1] = "socket" => m[2] \in Connection /\ m = NewSocket(m[2])
           /\ m[1] = "timeout" => m[2] \in Accept /\ m = AcceptExpired(m[2])
           /\ m[1] \in {"socket", "timeout"} => m # ListenClosing
<1>1. CASE m \in {"socket"} \X Connection
  BY <1>1 DEF NewSocket, ListenClosing
<1>2. CASE m \in {"timeout"} \X Accept
  BY <1>2 DEF AcceptExpired, ListenClosing
<1>3. CASE m \in {AcceptError, ListenClosing}
  BY <1>3 DEF AcceptError, ListenClosing
<1>. QED BY <1>1, <1>2, <1>3 DEF AcceptAnswer

\* The types, with the numbers they imply.
LEMMA ListenTypes ==
    ASSUME ListenTypeOK
    PROVE  /\ accept_messages \in Seq(AcceptAnswer) /\ accept_sessions \in Seq(Accept)
           /\ accept_requests \in Seq(AcceptKind) /\ handed \in Seq(Connection \X BOOLEAN)
           /\ Len(accept_messages) \in Nat /\ Len(accept_sessions) \in Nat
           /\ Len(accept_requests) \in Nat /\ Len(handed) \in Nat
           /\ MAX_ACCEPTS \in Nat /\ MAX_CONNECTIONS \in Nat /\ MAX_CALLBACKS \in Nat
           /\ MAX_ERRORS \in Nat
           /\ accepts \in Nat /\ m_blocking_accept_count \in Nat /\ connections \in Nat
           /\ accept_left \in Nat
           /\ Sent \in Int /\ Sent = IF m_has_accept_event THEN connections - 1 ELSE connections
           /\ \A m : Times(accept_requests, m) \in Nat
<1>1. /\ accept_messages \in Seq(AcceptAnswer) /\ accept_sessions \in Seq(Accept)
      /\ accept_requests \in Seq(AcceptKind) /\ handed \in Seq(Connection \X BOOLEAN)
      /\ Len(accept_messages) \in Nat /\ Len(accept_sessions) \in Nat
      /\ Len(accept_requests) \in Nat /\ Len(handed) \in Nat
  BY DEF ListenTypeOK, AcceptAnswer, AcceptKind
<1>2. /\ MAX_ACCEPTS \in Nat /\ MAX_CONNECTIONS \in Nat /\ MAX_CALLBACKS \in Nat
      /\ MAX_ERRORS \in Nat
  BY TcpListenAssumption
<1>3. /\ accepts \in Nat /\ m_blocking_accept_count \in Nat /\ connections \in Nat
      /\ accept_left \in Nat
  BY <1>2 DEF ListenTypeOK
<1>4. Sent \in Int /\ Sent = IF m_has_accept_event THEN connections - 1 ELSE connections
  BY <1>3 DEF Sent
<1>5. \A m : Times(accept_requests, m) \in Nat
  BY <1>1, PlacesFinite
<1>. QED BY <1>1, <1>2, <1>3, <1>4, <1>5

\* What try_accept does about a connection c that is the next to be sent.
LEMMA TryAccept ==
    ASSUME NEW event \in BOOLEAN, NEW noblocking \in BOOLEAN, NEW count \in Nat, NEW c,
           NEW high \in Nat, NEW low \in Nat, low <= high,
           event => c = high + 1 /\ c \in Connection,
           accept_messages \in Seq(AcceptAnswer), Ordered("socket", accept_messages, low, high),
           try_accept(event, noblocking, count, c)
    PROVE  /\ accept_messages' \in Seq(AcceptAnswer)
           /\ m_has_accept_event' \in BOOLEAN
           /\ m_has_noblocking_accept' = noblocking
           /\ m_blocking_accept_count' \in Nat /\ m_blocking_accept_count' <= count
           /\ m_has_accept_event' => event /\ ~noblocking /\ m_blocking_accept_count' = 0
           /\ Contains(accept_messages, ListenClosing)
                  => Contains(accept_messages', ListenClosing)
           /\ Ordered("socket", accept_messages', low,
                      high + (IF event /\ ~m_has_accept_event' THEN 1 ELSE 0))
           /\ ~noblocking =>
                  m_blocking_accept_count' + (IF event /\ ~m_has_accept_event' THEN 1 ELSE 0)
                      = count
<1>1. CASE event /\ (noblocking \/ count > 0)
  <2>1. /\ accept_messages' = Append(accept_messages, NewSocket(c))
        /\ m_has_accept_event' = FALSE /\ m_has_noblocking_accept' = noblocking
        /\ m_blocking_accept_count' = IF count > 0 THEN count - 1 ELSE count
    BY <1>1 DEF try_accept
  <2>2. /\ NewSocket(c) \in AcceptAnswer /\ c = high + 1
        /\ NewSocket(high + 1)[1] = "socket" /\ NewSocket(high + 1)[2] = high + 1
    BY <1>1 DEF NewSocket, AcceptAnswer
  <2>3. /\ accept_messages' \in Seq(AcceptAnswer)
        /\ Longer(accept_messages, accept_messages', NewSocket(high + 1))
    BY <2>1, <2>2, PutLast
  <2>4. Ordered("socket", accept_messages', low, high + 1)
    BY <2>2, <2>3, OrderedNext
  <2>5. Contains(accept_messages, ListenClosing)
            => Contains(accept_messages', ListenClosing)
    BY <2>3 DEF Longer
  <2>6. 1 = IF event /\ ~m_has_accept_event' THEN 1 ELSE 0
    BY <1>1, <2>1
  <2>7. ~noblocking => m_blocking_accept_count' + 1 = count
    BY <1>1, <2>1
  <2>8. m_blocking_accept_count' \in Nat /\ m_blocking_accept_count' <= count
    BY <2>1
  <2>9. Ordered("socket", accept_messages', low,
                high + (IF event /\ ~m_has_accept_event' THEN 1 ELSE 0))
    BY <2>4, <2>6
  <2>10. ~noblocking =>
             m_blocking_accept_count' + (IF event /\ ~m_has_accept_event' THEN 1 ELSE 0)
                 = count
    BY <2>6, <2>7
  <2>. QED BY <2>1, <2>3, <2>5, <2>8, <2>9, <2>10
<1>2. CASE ~(event /\ (noblocking \/ count > 0))
  <2>1. /\ accept_messages' = accept_messages
        /\ m_has_accept_event' = event /\ m_has_noblocking_accept' = noblocking
        /\ m_blocking_accept_count' = count
    BY <1>2 DEF try_accept
  <2>2. Ordered("socket", accept_messages', low, high + 0)
    BY <2>1
  <2>3. event => ~noblocking /\ count = 0
    BY <1>2
  <2>4. 0 = IF event /\ ~m_has_accept_event' THEN 1 ELSE 0
    BY <2>1
  <2>. QED BY <2>1, <2>2, <2>3, <2>4
<1>. QED BY <1>1, <1>2

\* A connection arrives.
LEMMA OnAccept ==
    ASSUME ListenInv, on_accept
    PROVE  ListenInv'
<1>. USE DEF ListenInv
<1>1. /\ ~m_has_accept_event /\ connections < MAX_CONNECTIONS
      /\ connections' = connections + 1
      /\ try_accept(TRUE, m_has_noblocking_accept, m_blocking_accept_count, connections + 1)
      /\ accept_sessions' = accept_sessions /\ accept_callback' = accept_callback
      /\ listen_closed' = listen_closed /\ accepts' = accepts
      /\ accept_callbacks' = accept_callbacks /\ accept_timer' = accept_timer
      /\ handed' = handed /\ accept_pc' = accept_pc /\ accept_back' = accept_back
      /\ accept_left' = accept_left /\ accept_requests' = accept_requests
      /\ listen_closing' = listen_closing /\ listen_errors' = listen_errors
  BY DEF on_accept, acceptors, listen_calls, accept_handler
<1>2. /\ m_has_noblocking_accept \in BOOLEAN /\ m_blocking_accept_count \in Nat
      /\ connections \in Nat /\ MAX_CONNECTIONS \in Nat /\ Sent = connections
      /\ Len(handed) \in Nat /\ Len(handed) <= Sent
      /\ accept_messages \in Seq(AcceptAnswer) /\ MAX_ACCEPTS \in Nat
      /\ Ordered("socket", accept_messages, Len(handed), Sent)
      /\ m_blocking_accept_count <= MAX_ACCEPTS
  BY <1>1, ListenTypes DEF ListenTypeOK, AllInOrder
<1>3. connections + 1 \in Connection
  BY <1>1, <1>2 DEF Connection
<1>4. /\ accept_messages' \in Seq(AcceptAnswer)
      /\ m_has_accept_event' \in BOOLEAN
      /\ m_has_noblocking_accept' = m_has_noblocking_accept
      /\ m_blocking_accept_count' \in Nat
      /\ m_blocking_accept_count' <= m_blocking_accept_count
      /\ m_has_accept_event' => ~m_has_noblocking_accept /\ m_blocking_accept_count' = 0
      /\ Contains(accept_messages, ListenClosing)
             => Contains(accept_messages', ListenClosing)
      /\ Ordered("socket", accept_messages', Len(handed),
                 connections + (IF TRUE /\ ~m_has_accept_event' THEN 1 ELSE 0))
      /\ ~m_has_noblocking_accept =>
             m_blocking_accept_count' + (IF TRUE /\ ~m_has_accept_event' THEN 1 ELSE 0)
                 = m_blocking_accept_count
  BY <1>1, <1>2, <1>3, TryAccept
<1>5. PICK n \in {0, 1} : n = IF TRUE /\ ~m_has_accept_event' THEN 1 ELSE 0
  OBVIOUS
<1>6. Sent' = connections + n
  BY <1>1, <1>2, <1>4, <1>5 DEF Sent
<1>7. ListenTypeOK'
  <2>1. connections' \in 0 .. MAX_CONNECTIONS
    BY <1>1, <1>2
  <2>2. m_blocking_accept_count' \in 0 .. MAX_ACCEPTS
    BY <1>2, <1>4
  <2>. QED BY <1>1, <1>4, <2>1, <2>2 DEF ListenTypeOK, AcceptAnswer
<1>8. AllInOrder'
  BY <1>1, <1>2, <1>4, <1>5, <1>6 DEF AllInOrder
<1>9. Demanded'
  <2>1. /\ Len(accept_sessions) \in Nat /\ Len(accept_requests) \in Nat /\ accepts \in Nat
        /\ Times(accept_requests, "blocking") \in Nat
    BY ListenTypes
  <2>2. ~listen_closed /\ ~m_has_noblocking_accept =>
            Len(accept_sessions) <=
                Len(accept_requests) + m_blocking_accept_count' + (Sent' - Len(handed))
    <3>. SUFFICES ASSUME ~listen_closed, ~m_has_noblocking_accept
         PROVE  Len(accept_sessions) <=
                    Len(accept_requests) + m_blocking_accept_count' + (Sent' - Len(handed))
      OBVIOUS
    <3>1. Len(accept_sessions) <=
              Len(accept_requests) + m_blocking_accept_count + (Sent - Len(handed))
      BY DEF Demanded
    <3>2. m_blocking_accept_count = m_blocking_accept_count' + n
      BY <1>4, <1>5
    <3>. QED BY <1>2, <1>4, <1>6, <2>1, <3>1, <3>2
  <2>3. m_blocking_accept_count' + Times(accept_requests, "blocking") <= accepts
    BY <1>2, <1>4, <2>1 DEF Demanded
  <2>. QED BY <1>1, <1>4, <2>2, <2>3 DEF Demanded
<1>10. ClosedIsTold'
  BY <1>1, <1>4 DEF ClosedIsTold, no_acceptor, WakingAcceptors
<1>. QED BY <1>7, <1>8, <1>9, <1>10

\* The context asks for a connection.
LEMMA AcceptAsked ==
    ASSUME ListenInv, NEW blocking \in BOOLEAN, accept(blocking)
    PROVE  ListenInv'
<1>. USE DEF ListenInv
<1>1. PICK tag : tag = IF blocking THEN "blocking" ELSE "nonblocking"
  OBVIOUS
<1>2. PICK count : count = m_blocking_accept_count + (IF blocking THEN 1 ELSE 0)
  OBVIOUS
<1>3. PICK noblocking : noblocking = (m_has_noblocking_accept \/ ~blocking)
  OBVIOUS
<1>4. /\ accept_requests # << >> /\ Head(accept_requests) = tag
      /\ accept_requests' = Tail(accept_requests)
      /\ try_accept(m_has_accept_event, noblocking, count, connections)
      /\ accept_sessions' = accept_sessions /\ accept_callback' = accept_callback
      /\ listen_closed' = listen_closed /\ accepts' = accepts
      /\ accept_callbacks' = accept_callbacks /\ accept_timer' = accept_timer
      /\ handed' = handed /\ accept_pc' = accept_pc /\ accept_back' = accept_back
      /\ accept_left' = accept_left /\ connections' = connections
      /\ listen_closing' = listen_closing /\ listen_errors' = listen_errors
  BY <1>1, <1>2, <1>3 DEF accept, AcceptRequest, acceptors, listen_calls, accept_handler
<1>5. /\ m_has_noblocking_accept \in BOOLEAN /\ m_blocking_accept_count \in Nat
      /\ connections \in 0 .. MAX_CONNECTIONS /\ MAX_CONNECTIONS \in Nat
      /\ Len(handed) \in Nat /\ Len(handed) <= Sent /\ Sent \in Int
      /\ Sent = IF m_has_accept_event THEN connections - 1 ELSE connections
      /\ accept_messages \in Seq(AcceptAnswer) /\ MAX_ACCEPTS \in Nat
      /\ accept_requests \in Seq(AcceptKind)
      /\ Ordered("socket", accept_messages, Len(handed), Sent)
      /\ m_has_accept_event \in BOOLEAN /\ accepts \in 0 .. MAX_ACCEPTS
      /\ Len(accept_sessions) \in Nat /\ Len(accept_requests) \in Nat
      /\ Times(accept_requests, "blocking") \in Nat
  BY ListenTypes DEF ListenTypeOK, AllInOrder
<1>6. /\ count \in Nat /\ noblocking \in BOOLEAN /\ Sent \in Nat
      /\ m_has_accept_event => connections = Sent + 1 /\ connections \in Connection
  BY <1>2, <1>3, <1>5 DEF Connection
<1>7. /\ accept_messages' \in Seq(AcceptAnswer)
      /\ m_has_accept_event' \in BOOLEAN
      /\ m_has_noblocking_accept' = noblocking
      /\ m_blocking_accept_count' \in Nat /\ m_blocking_accept_count' <= count
      /\ m_has_accept_event' =>
             m_has_accept_event /\ ~noblocking /\ m_blocking_accept_count' = 0
      /\ Contains(accept_messages, ListenClosing)
             => Contains(accept_messages', ListenClosing)
      /\ Ordered("socket", accept_messages', Len(handed),
                 Sent + (IF m_has_accept_event /\ ~m_has_accept_event' THEN 1 ELSE 0))
      /\ ~noblocking =>
             m_blocking_accept_count'
                 + (IF m_has_accept_event /\ ~m_has_accept_event' THEN 1 ELSE 0) = count
  <2>1. m_has_accept_event \in BOOLEAN /\ Len(handed) \in Nat /\ Sent \in Nat
        /\ Len(handed) <= Sent /\ accept_messages \in Seq(AcceptAnswer)
        /\ Ordered("socket", accept_messages, Len(handed), Sent)
    BY <1>5, <1>6
  <2>2. try_accept(m_has_accept_event, noblocking, count, connections)
    BY <1>4
  <2>. QED BY <1>6, <2>1, <2>2, TryAccept
<1>8. PICK n \in {0, 1} :
          n = IF m_has_accept_event /\ ~m_has_accept_event' THEN 1 ELSE 0
  OBVIOUS
<1>9. /\ accept_requests' \in Seq(AcceptKind) /\ accept_requests[1] = tag
      /\ Shorter(accept_requests, accept_requests')
  <2>1. accept_requests' \in Seq(AcceptKind) /\ Shorter(accept_requests, accept_requests')
    BY <1>4, <1>5, TakeFirst
  <2>. QED BY <1>4, <2>1 DEF Shorter
<1>10. /\ Len(accept_requests') = Len(accept_requests) - 1
       /\ \A e : Contains(accept_requests', e) => Contains(accept_requests, e)
       /\ \A e : Contains(accept_requests, e) => Contains(accept_requests', e) \/ e = tag
  BY <1>9 DEF Shorter
<1>11. Times(accept_requests, "blocking")
          = Times(accept_requests', "blocking") + (IF blocking THEN 1 ELSE 0)
  BY <1>1, <1>9, TimesShorter
<1>12. Times(accept_requests', "blocking") \in Nat
  <2>1. Len(accept_requests') \in Nat
    BY <1>9
  <2>. QED BY <2>1, PlacesFinite
<1>13. Sent' = Sent + n
  BY <1>4, <1>5, <1>7, <1>8 DEF Sent
<1>14. m_blocking_accept_count' + Times(accept_requests', "blocking") <= accepts
  BY <1>2, <1>5, <1>7, <1>11, <1>12 DEF Demanded
<1>15. ListenTypeOK'
  <2>1. m_blocking_accept_count' \in 0 .. MAX_ACCEPTS
    BY <1>5, <1>7, <1>12, <1>14
  <2>2. m_has_noblocking_accept' \in BOOLEAN
    BY <1>6, <1>7
  <2>. QED BY <1>4, <1>7, <1>9, <2>1, <2>2 DEF ListenTypeOK, AcceptAnswer, AcceptKind
<1>16. AllInOrder'
  BY <1>4, <1>5, <1>7, <1>8, <1>13 DEF AllInOrder
<1>17. Demanded'
  <2>1. accept_callback =>
            m_has_noblocking_accept' \/ Contains(accept_requests', "nonblocking")
    BY <1>1, <1>3, <1>7, <1>10 DEF Demanded
  <2>2. ASSUME ~listen_closed, ~noblocking
        PROVE  Len(accept_sessions) <=
                   Len(accept_requests') + m_blocking_accept_count' + (Sent' - Len(handed))
    <3>1. blocking /\ ~m_has_noblocking_accept /\ count = m_blocking_accept_count + 1
      BY <1>2, <1>3, <2>2
    <3>2. Len(accept_sessions) <=
              Len(accept_requests) + m_blocking_accept_count + (Sent - Len(handed))
      BY <2>2, <3>1 DEF Demanded
    <3>3. m_blocking_accept_count' + n = m_blocking_accept_count + 1
      BY <1>7, <1>8, <2>2, <3>1
    <3>4. Len(accept_requests') = Len(accept_requests) - 1 /\ Sent' = Sent + n
      BY <1>10, <1>13
    <3>5. m_blocking_accept_count' \in Nat
      BY <1>7
    <3>6. /\ Len(accept_sessions) \in Nat /\ Len(accept_requests) \in Nat
          /\ m_blocking_accept_count \in Nat /\ Sent \in Nat /\ Len(handed) \in Nat
      BY <1>5, <1>6
    <3>7. Len(accept_sessions) <=
              Len(accept_requests) - 1 + (m_blocking_accept_count' + n) + (Sent - Len(handed))
      BY <3>2, <3>3, <3>6
    <3>8. n \in Nat
      OBVIOUS
    <3>. QED BY <3>4, <3>5, <3>6, <3>7, <3>8
  <2>3. Len(accept_sessions) <= accepts
    BY DEF Demanded
  <2>. QED BY <1>4, <1>7, <1>14, <2>1, <2>2, <2>3 DEF Demanded
<1>18. ClosedIsTold'
  BY <1>4, <1>7, <1>10 DEF ClosedIsTold, no_acceptor, WakingAcceptors
<1>. QED BY <1>15, <1>16, <1>17, <1>18

\* An error of the listening socket, or the expiry of a timer: a message more.
LEMMA OtherAcceptMessage ==
    ASSUME ListenInv, NEW m \in AcceptAnswer, m[1] # "socket",
           accept_messages' = Append(accept_messages, m),
           accept_sessions' = accept_sessions, accept_callback' = accept_callback,
           accepts' = accepts, accept_callbacks' = accept_callbacks,
           accept_timer' \in [Accept -> {"none", "running", "expired", "closed"}],
           handed' = handed, accept_pc' = accept_pc, accept_back' = accept_back,
           accept_left' = accept_left, accept_demand' = accept_demand,
           m_has_accept_event' = m_has_accept_event, connections' = connections,
           listen_closing' = listen_closing, listen_errors' \in 0 .. MAX_ERRORS,
           \/ listen_closed' = listen_closed /\ accept_requests' = accept_requests
           \/ /\ m = ListenClosing /\ listen_closed' = TRUE
              /\ accept_requests' = Append(accept_requests, "close")
    PROVE  ListenInv'
<1>. USE DEF ListenInv
<1>1. /\ m_has_noblocking_accept' = m_has_noblocking_accept
      /\ m_blocking_accept_count' = m_blocking_accept_count
  BY DEF accept_demand
<1>2. /\ accept_messages \in Seq(AcceptAnswer) /\ accept_requests \in Seq(AcceptKind)
      /\ Len(accept_sessions) \in Nat /\ Len(accept_requests) \in Nat
      /\ Len(handed) \in Nat /\ Sent \in Int /\ m_blocking_accept_count \in Nat
      /\ Times(accept_requests, "blocking") \in Nat
  BY ListenTypes
<1>3. /\ accept_messages' \in Seq(AcceptAnswer)
      /\ Longer(accept_messages, accept_messages', m)
  BY <1>2, PutLast
<1>4. Sent' = Sent
  BY DEF Sent
<1>5. /\ accept_requests' \in Seq(AcceptKind)
      /\ Len(accept_requests') \in Nat /\ Len(accept_requests') >= Len(accept_requests)
      /\ Times(accept_requests', "blocking") = Times(accept_requests, "blocking")
      /\ Contains(accept_requests, "nonblocking") => Contains(accept_requests', "nonblocking")
      /\ Contains(accept_requests', "close") =>
             Contains(accept_requests, "close") \/ listen_closed'
      /\ listen_closed' \in BOOLEAN /\ (listen_closed => listen_closed')
      /\ listen_closed' => listen_closed \/ m = ListenClosing
  <2>1. CASE listen_closed' = listen_closed /\ accept_requests' = accept_requests
    BY <1>2, <2>1 DEF ListenTypeOK
  <2>2. CASE /\ m = ListenClosing /\ listen_closed' = TRUE
             /\ accept_requests' = Append(accept_requests, "close")
    <3>1. "close" \in AcceptKind
      BY DEF AcceptKind
    <3>2. /\ accept_requests' \in Seq(AcceptKind)
          /\ Longer(accept_requests, accept_requests', "close")
      BY <1>2, <2>2, <3>1, PutLast
    <3>3. Times(accept_requests', "blocking") = Times(accept_requests, "blocking") + 0
      BY <3>2, TimesLonger
    <3>4. /\ Len(accept_requests') = Len(accept_requests) + 1
          /\ Contains(accept_requests, "nonblocking")
                 => Contains(accept_requests', "nonblocking")
      BY <3>2 DEF Longer
    <3>. QED BY <1>2, <2>2, <3>2, <3>3, <3>4
  <2>. QED BY <2>1, <2>2
<1>6. ListenTypeOK'
  BY <1>1, <1>3, <1>5 DEF ListenTypeOK, AcceptAnswer, AcceptKind
<1>7. AllInOrder'
  <2>1. Sent \in Nat /\ Ordered("socket", accept_messages, Len(handed), Sent)
    BY <1>2 DEF AllInOrder
  <2>2. Ordered("socket", accept_messages', Len(handed), Sent)
    BY <1>2, <1>3, <2>1, OrderedOther
  <2>. QED BY <1>4, <2>2 DEF AllInOrder
<1>8. Demanded'
  <2>1. ~listen_closed' /\ ~m_has_noblocking_accept' =>
            Len(accept_sessions') <=
                Len(accept_requests') + m_blocking_accept_count' + (Sent' - Len(handed'))
    <3>1. ~listen_closed /\ ~m_has_noblocking_accept =>
              Len(accept_sessions) <=
                  Len(accept_requests) + m_blocking_accept_count + (Sent - Len(handed))
      BY DEF Demanded
    <3>. QED BY <1>1, <1>2, <1>4, <1>5, <3>1
  <2>. QED BY <1>1, <1>5, <2>1 DEF Demanded
<1>9. ClosedIsTold'
  <2>1. /\ Contains(accept_messages, ListenClosing) => Contains(accept_messages', ListenClosing)
        /\ m = ListenClosing => Contains(accept_messages', ListenClosing)
    BY <1>3 DEF Longer
  <2>2. no_acceptor' = no_acceptor /\ (WakingAcceptors => WakingAcceptors')
    BY DEF no_acceptor, WakingAcceptors
  <2>. QED BY <1>5, <2>1, <2>2 DEF ClosedIsTold
<1>. QED BY <1>6, <1>7, <1>8, <1>9

\* The network thread is asked to close the socket.
LEMMA CloseListenHandle ==
    ASSUME ListenInv, close_listen_handle
    PROVE  ListenInv'
<1>. USE DEF ListenInv
<1>1. /\ accept_requests # << >> /\ Head(accept_requests) = "close"
      /\ accept_requests' = Tail(accept_requests) /\ listen_closing' = TRUE
      /\ accept_messages' = accept_messages
      /\ accept_sessions' = accept_sessions /\ accept_callback' = accept_callback
      /\ listen_closed' = listen_closed /\ accepts' = accepts
      /\ accept_callbacks' = accept_callbacks /\ accept_timer' = accept_timer
      /\ handed' = handed /\ accept_pc' = accept_pc /\ accept_back' = accept_back
      /\ accept_left' = accept_left /\ connections' = connections
      /\ m_has_noblocking_accept' = m_has_noblocking_accept
      /\ m_blocking_accept_count' = m_blocking_accept_count
      /\ m_has_accept_event' = m_has_accept_event /\ listen_errors' = listen_errors
  BY DEF close_listen_handle, AcceptRequest, accept_lua, acceptors, listen_calls,
         accept_handler, accept_demand
<1>2. accept_requests \in Seq(AcceptKind)
  BY ListenTypes
<1>3. accept_requests' \in Seq(AcceptKind) /\ Shorter(accept_requests, accept_requests')
  BY <1>1, <1>2, TakeFirst
<1>4. accept_requests[1] = "close"
  BY <1>1, <1>3 DEF Shorter
<1>5. listen_closed
  <2>1. Contains(accept_requests, "close")
    BY <1>3, <1>4 DEF Shorter, Contains
  <2>. QED BY <2>1 DEF ClosedIsTold
<1>6. Times(accept_requests, "blocking") = Times(accept_requests', "blocking") + 0
  BY <1>3, <1>4, TimesShorter
<1>7. Times(accept_requests', "blocking") \in Nat
  <2>1. Len(accept_requests') \in Nat
    BY <1>3
  <2>. QED BY <2>1, PlacesFinite
<1>8. Contains(accept_requests, "nonblocking") => Contains(accept_requests', "nonblocking")
  BY <1>3, <1>4 DEF Shorter
<1>9. Sent' = Sent
  BY <1>1 DEF Sent
<1>10. ListenTypeOK'
  BY <1>1, <1>3 DEF ListenTypeOK, AcceptKind
<1>11. AllInOrder'
  BY <1>1, <1>9 DEF AllInOrder
<1>12. Demanded'
  BY <1>1, <1>5, <1>6, <1>7, <1>8 DEF Demanded
<1>13. ClosedIsTold'
  BY <1>1, <1>5 DEF ClosedIsTold, no_acceptor, WakingAcceptors
<1>. QED BY <1>10, <1>11, <1>12, <1>13

\* A coroutine asks for a connection and waits.
LEMMA AcceptBlocking ==
    ASSUME ListenInv, accept_blocking
    PROVE  ListenInv'
<1>. USE DEF ListenInv
<1>1. /\ accept_pc = "lua" /\ ~listen_closed /\ accepts < MAX_ACCEPTS
      /\ accepts' = accepts + 1
      /\ accept_sessions' = Append(accept_sessions, accepts + 1)
      /\ accept_requests' = Append(accept_requests, "blocking")
      /\ \E t \in {"none", "running"} :
             accept_timer' = [accept_timer EXCEPT ![accepts + 1] = t]
      /\ accept_pc' = accept_back
      /\ accept_messages' = accept_messages /\ accept_callback' = accept_callback
      /\ listen_closed' = listen_closed /\ accept_callbacks' = accept_callbacks
      /\ handed' = handed /\ accept_back' = accept_back
      /\ accept_left' = accept_left /\ connections' = connections
      /\ m_has_noblocking_accept' = m_has_noblocking_accept
      /\ m_blocking_accept_count' = m_blocking_accept_count
      /\ m_has_accept_event' = m_has_accept_event /\ listen_errors' = listen_errors
      /\ listen_closing' = listen_closing
  BY DEF accept_blocking, accept_net, accept_demand
<1>2. /\ accept_requests \in Seq(AcceptKind) /\ accept_sessions \in Seq(Accept)
      /\ accepts \in Nat /\ MAX_ACCEPTS \in Nat /\ "blocking" \in AcceptKind
      /\ Len(accept_sessions) \in Nat /\ Len(accept_requests) \in Nat
      /\ Len(handed) \in Nat /\ Sent \in Int /\ m_blocking_accept_count \in Nat
      /\ Times(accept_requests, "blocking") \in Nat
  BY ListenTypes DEF AcceptKind
<1>3. accepts + 1 \in Accept
  BY <1>1, <1>2 DEF Accept
<1>4. /\ accept_requests' \in Seq(AcceptKind)
      /\ Longer(accept_requests, accept_requests', "blocking")
  BY <1>1, <1>2, PutLast
<1>5. /\ accept_sessions' \in Seq(Accept) /\ Len(accept_sessions') = Len(accept_sessions) + 1
  BY <1>1, <1>2, <1>3
<1>6. Times(accept_requests', "blocking") = Times(accept_requests, "blocking") + 1
  BY <1>4, TimesLonger
<1>7. /\ Len(accept_requests') = Len(accept_requests) + 1
      /\ \A e : Contains(accept_requests', e) <=> Contains(accept_requests, e) \/ e = "blocking"
  BY <1>4 DEF Longer
<1>8. Sent' = Sent
  BY <1>1 DEF Sent
<1>9. ListenTypeOK'
  <2>1. accepts' \in 0 .. MAX_ACCEPTS
    BY <1>1, <1>2
  <2>2. accept_timer' \in [Accept -> {"none", "running", "expired", "closed"}]
    BY <1>1 DEF ListenTypeOK
  <2>3. accept_pc' \in {"lua", "idle", "wake_blocking"}
    BY <1>1 DEF ListenTypeOK
  <2>. QED BY <1>1, <1>4, <1>5, <2>1, <2>2, <2>3 DEF ListenTypeOK, AcceptKind
<1>10. AllInOrder'
  BY <1>1, <1>8 DEF AllInOrder
<1>11. Demanded'
  <2>1. ASSUME ~m_has_noblocking_accept
        PROVE  Len(accept_sessions') <=
                   Len(accept_requests') + m_blocking_accept_count + (Sent - Len(handed))
    <3>1. Len(accept_sessions) <=
              Len(accept_requests) + m_blocking_accept_count + (Sent - Len(handed))
      BY <1>1, <2>1 DEF Demanded
    <3>. QED BY <1>2, <1>5, <1>7, <3>1
  <2>2. /\ Len(accept_sessions') <= accepts'
        /\ m_blocking_accept_count + Times(accept_requests', "blocking") <= accepts'
    BY <1>1, <1>2, <1>5, <1>6 DEF Demanded
  <2>. QED BY <1>1, <1>7, <1>8, <2>1, <2>2 DEF Demanded
<1>12. ClosedIsTold'
  BY <1>1, <1>7 DEF ClosedIsTold
<1>. QED BY <1>9, <1>10, <1>11, <1>12

\* A callback is set.
LEMMA AcceptNonblocking ==
    ASSUME ListenInv, accept_nonblocking
    PROVE  ListenInv'
<1>. USE DEF ListenInv
<1>1. /\ accept_pc = "lua" /\ ~listen_closed /\ accept_callbacks < MAX_CALLBACKS
      /\ accept_callbacks' = accept_callbacks + 1 /\ accept_callback' = TRUE
      /\ accept_requests' = Append(accept_requests, "nonblocking")
      /\ accept_messages' = accept_messages /\ accept_sessions' = accept_sessions
      /\ listen_closed' = listen_closed /\ accepts' = accepts
      /\ accept_timer' = accept_timer /\ handed' = handed
      /\ accept_pc' = accept_pc /\ accept_back' = accept_back
      /\ accept_left' = accept_left /\ connections' = connections
      /\ m_has_noblocking_accept' = m_has_noblocking_accept
      /\ m_blocking_accept_count' = m_blocking_accept_count
      /\ m_has_accept_event' = m_has_accept_event /\ listen_errors' = listen_errors
      /\ listen_closing' = listen_closing
  BY DEF accept_nonblocking, accept_net, accept_demand, accept_handler
<1>2. /\ accept_requests \in Seq(AcceptKind) /\ "nonblocking" \in AcceptKind
      /\ MAX_CALLBACKS \in Nat
      /\ Len(accept_sessions) \in Nat /\ Len(accept_requests) \in Nat
      /\ Len(handed) \in Nat /\ Sent \in Int /\ m_blocking_accept_count \in Nat
      /\ Times(accept_requests, "blocking") \in Nat
  BY ListenTypes DEF AcceptKind
<1>3. /\ accept_requests' \in Seq(AcceptKind)
      /\ Longer(accept_requests, accept_requests', "nonblocking")
  BY <1>1, <1>2, PutLast
<1>4. Times(accept_requests', "blocking") = Times(accept_requests, "blocking") + 0
  BY <1>3, TimesLonger
<1>5. /\ Len(accept_requests') = Len(accept_requests) + 1
      /\ \A e : Contains(accept_requests', e)
                    <=> Contains(accept_requests, e) \/ e = "nonblocking"
  BY <1>3 DEF Longer
<1>6. Sent' = Sent
  BY <1>1 DEF Sent
<1>7. ListenTypeOK'
  <2>1. accept_callbacks' \in 0 .. MAX_CALLBACKS
    BY <1>1, <1>2 DEF ListenTypeOK
  <2>. QED BY <1>1, <1>3, <2>1 DEF ListenTypeOK, AcceptKind
<1>8. AllInOrder'
  BY <1>1, <1>6 DEF AllInOrder
<1>9. Demanded'
  <2>1. ASSUME ~m_has_noblocking_accept
        PROVE  Len(accept_sessions) <=
                   Len(accept_requests') + m_blocking_accept_count + (Sent - Len(handed))
    <3>1. Len(accept_sessions) <=
              Len(accept_requests) + m_blocking_accept_count + (Sent - Len(handed))
      BY <1>1, <2>1 DEF Demanded
    <3>. QED BY <1>2, <1>5, <3>1
  <2>2. m_blocking_accept_count + Times(accept_requests', "blocking") <= accepts
    BY <1>2, <1>4 DEF Demanded
  <2>. QED BY <1>1, <1>5, <1>6, <2>1, <2>2 DEF Demanded
<1>10. ClosedIsTold'
  BY <1>1, <1>5 DEF ClosedIsTold
<1>. QED BY <1>7, <1>8, <1>9, <1>10

\* Lua code comes and goes.
LEMMA AcceptorRuns ==
    ASSUME ListenInv, return_from_acceptor \/ other_accept_message \/ UNCHANGED listenVars
    PROVE  ListenInv'
<1>. USE DEF ListenInv
<1>1. /\ accept_messages' = accept_messages /\ accept_sessions' = accept_sessions
      /\ accept_callback' = accept_callback
      /\ listen_closed' = listen_closed /\ accepts' = accepts
      /\ accept_callbacks' = accept_callbacks
      /\ accept_timer' = accept_timer /\ handed' = handed
      /\ accept_left' = accept_left /\ accept_requests' = accept_requests
      /\ m_has_noblocking_accept' = m_has_noblocking_accept
      /\ m_blocking_accept_count' = m_blocking_accept_count
      /\ m_has_accept_event' = m_has_accept_event /\ listen_errors' = listen_errors
      /\ listen_closing' = listen_closing /\ connections' = connections
  BY DEF return_from_acceptor, other_accept_message, listenVars, accept_lua, acceptors,
         listen_calls, accept_handler, accept_net, accept_demand
<1>2. \/ accept_pc = "lua" /\ accept_pc' = accept_back /\ accept_back' = accept_back
      \/ accept_pc = "idle" /\ accept_pc' = "lua" /\ accept_back' = "idle"
      \/ accept_pc' = accept_pc /\ accept_back' = accept_back
  BY DEF return_from_acceptor, other_accept_message, listenVars, accept_lua, accept_handler
<1>3. Sent' = Sent
  BY <1>1 DEF Sent
<1>4. ListenTypeOK'
  BY <1>1, <1>2 DEF ListenTypeOK
<1>5. AllInOrder' /\ Demanded'
  BY <1>1, <1>3 DEF AllInOrder, Demanded
<1>6. WakingAcceptors => WakingAcceptors'
  BY <1>1, <1>2 DEF WakingAcceptors, ListenTypeOK
<1>7. ClosedIsTold'
  BY <1>1, <1>6 DEF ClosedIsTold, no_acceptor
<1>. QED BY <1>4, <1>5, <1>7

\* One who waits is woken.
LEMMA AcceptorWoken ==
    ASSUME ListenTypeOK, NEW label \in {"idle", "wake_blocking"}, WakeupAcceptor(label)
    PROVE  /\ accept_pc' = "lua" /\ accept_back' = label
           /\ accept_sessions' \in Seq(Accept)
           /\ accept_timer' \in [Accept -> {"none", "running", "expired", "closed"}]
           /\ Len(accept_sessions') =
                  IF Len(accept_sessions) = 0 THEN 0 ELSE Len(accept_sessions) - 1
<1>1. accept_pc' = "lua" /\ accept_back' = label
  BY DEF WakeupAcceptor, ResumeAcceptor
<1>2. accept_sessions \in Seq(Accept) /\ Len(accept_sessions) \in Nat
  BY DEF ListenTypeOK
<1>3. CASE accept_sessions = << >>
  <2>1. accept_sessions' = accept_sessions /\ accept_timer' = accept_timer
    BY <1>3 DEF WakeupAcceptor
  <2>. QED BY <1>1, <1>2, <1>3, <2>1 DEF ListenTypeOK
<1>4. CASE accept_sessions # << >>
  <2>1. /\ accept_sessions' = Tail(accept_sessions)
        /\ accept_timer' = [accept_timer EXCEPT ![Head(accept_sessions)] = "closed"]
    BY <1>4 DEF WakeupAcceptor
  <2>2. /\ Tail(accept_sessions) \in Seq(Accept) /\ Len(accept_sessions) > 0
        /\ Len(Tail(accept_sessions)) = Len(accept_sessions) - 1
    BY <1>2, <1>4
  <2>3. accept_timer' \in [Accept -> {"none", "running", "expired", "closed"}]
    BY <2>1 DEF ListenTypeOK
  <2>. QED BY <1>1, <2>1, <2>2, <2>3
<1>. QED BY <1>3, <1>4

\* A message about the socket, in the order of the connections.
LEMMA WakeupAccept ==
    ASSUME ListenInv, wakeup_accept
    PROVE  ListenInv'
<1>. USE DEF ListenInv
<1>1. PICK m : m = Head(accept_messages)
  OBVIOUS
<1>2. /\ accept_pc = "idle" /\ accept_messages # << >> /\ m[1] # "timeout"
      /\ accept_messages' = Tail(accept_messages)
      /\ handed' = IF m[1] = "socket"
                   THEN Append(handed, <<m[2], ~listen_closed /\ ~no_acceptor>>) ELSE handed
      /\ listen_closed' = listen_closed /\ accepts' = accepts
      /\ accept_callbacks' = accept_callbacks /\ accept_requests' = accept_requests
      /\ m_has_noblocking_accept' = m_has_noblocking_accept
      /\ m_blocking_accept_count' = m_blocking_accept_count
      /\ m_has_accept_event' = m_has_accept_event /\ listen_errors' = listen_errors
      /\ listen_closing' = listen_closing /\ connections' = connections
  BY <1>1 DEF wakeup_accept, listen_calls, accept_net, accept_demand
<1>3. /\ accept_messages \in Seq(AcceptAnswer) /\ handed \in Seq(Connection \X BOOLEAN)
      /\ accept_sessions \in Seq(Accept) /\ MAX_ACCEPTS \in Nat /\ accepts \in Nat
      /\ Len(accept_sessions) \in Nat /\ Len(accept_requests) \in Nat
      /\ Len(handed) \in Nat /\ Sent \in Int /\ m_blocking_accept_count \in Nat
  BY ListenTypes
<1>4. /\ accept_messages' \in Seq(AcceptAnswer) /\ m \in AcceptAnswer
      /\ m = accept_messages[1] /\ Shorter(accept_messages, accept_messages')
  <2>1. /\ accept_messages' \in Seq(AcceptAnswer) /\ accept_messages[1] \in AcceptAnswer
        /\ Shorter(accept_messages, accept_messages')
    BY <1>2, <1>3, TakeFirst
  <2>. QED BY <1>1, <2>1 DEF Shorter
<1>5. Sent' = Sent /\ Sent \in Nat /\ Len(handed) <= Sent
  BY <1>2, <1>3 DEF Sent, AllInOrder
\* The connection that is handed over is the next one.
<1>6. /\ AllInOrder' /\ handed' \in Seq(Connection \X BOOLEAN)
      /\ Len(handed') = Len(handed) + (IF m[1] = "socket" THEN 1 ELSE 0)
  <2>1. /\ Ordered("socket", accept_messages, Len(handed), Sent)
        /\ \A i \in 1 .. Len(handed) : handed[i][1] = i
    BY DEF AllInOrder
  <2>2. CASE m[1] = "socket"
    <3>1. /\ m[2] = Len(handed) + 1 /\ Len(handed) + 1 <= Sent
          /\ Ordered("socket", accept_messages', Len(handed) + 1, Sent)
      <4>1. /\ Len(handed) \in Nat /\ Sent \in Nat
            /\ Shorter(accept_messages, accept_messages')
            /\ accept_messages[1][1] = "socket" /\ m[2] = accept_messages[1][2]
        BY <1>3, <1>4, <1>5, <2>2
      <4>. QED BY <2>1, <4>1, OrderedFirst
    <3>2. PICK c : c = <<m[2], ~listen_closed /\ ~no_acceptor>>
      OBVIOUS
    <3>3. c \in Connection \X BOOLEAN /\ c[1] = Len(handed) + 1
      BY <1>4, <2>2, <3>1, <3>2, AcceptAnswers
    <3>4. handed' = Append(handed, c)
      BY <1>2, <2>2, <3>2
    <3>5. /\ handed' \in Seq(Connection \X BOOLEAN) /\ Len(handed') = Len(handed) + 1
          /\ \A i \in 1 .. Len(handed) : handed'[i] = handed[i]
          /\ handed'[Len(handed) + 1] = c
      BY <1>3, <3>3, <3>4
    <3>6. \A i \in 1 .. Len(handed') : handed'[i][1] = i
      <4>1. ASSUME NEW i \in 1 .. Len(handed') PROVE handed'[i][1] = i
        <5>1. CASE i \in 1 .. Len(handed)
          BY <2>1, <3>5, <5>1
        <5>2. CASE i = Len(handed) + 1
          BY <3>3, <3>5, <5>2
        <5>. QED BY <1>3, <3>5, <5>1, <5>2
      <4>. QED BY <4>1
    <3>. QED BY <1>5, <2>2, <3>1, <3>5, <3>6 DEF AllInOrder
  <2>3. CASE m[1] # "socket"
    <3>1. handed' = handed
      BY <1>2, <2>3
    <3>2. Ordered("socket", accept_messages', Len(handed), Sent)
      BY <1>3, <1>4, <1>5, <2>1, <2>3, OrderedRest
    <3>. QED BY <1>3, <1>5, <2>1, <2>3, <3>1, <3>2 DEF AllInOrder
  <2>. QED BY <2>2, <2>3
\* It goes to one who waits.
<1>7. /\ accept_sessions' \in Seq(Accept)
      /\ accept_callback' \in BOOLEAN /\ (accept_callback' => accept_callback)
      /\ accept_timer' \in [Accept -> {"none", "running", "expired", "closed"}]
      /\ accept_pc' \in {"lua", "idle", "wake_blocking"}
      /\ accept_back' \in {"idle", "wake_blocking"} /\ accept_left' \in 0 .. MAX_ACCEPTS
      /\ Len(accept_sessions') <= Len(accept_sessions)
      /\ ~listen_closed /\ m[1] = "socket" =>
             \/ Len(accept_sessions') = 0
             \/ Len(accept_sessions') = Len(accept_sessions) - 1
      /\ listen_closed => WakingAcceptors'
  <2>1. CASE m[1] = "socket" /\ ~listen_closed /\ ~no_acceptor
    <3>1. WakeupAcceptor("idle")
      BY <1>1, <2>1 DEF wakeup_accept
    <3>2. accept_callback' = accept_callback /\ accept_left' = accept_left
      BY <1>1, <2>1 DEF wakeup_accept
    <3>3. /\ accept_pc' = "lua" /\ accept_back' = "idle"
          /\ accept_sessions' \in Seq(Accept)
          /\ accept_timer' \in [Accept -> {"none", "running", "expired", "closed"}]
          /\ Len(accept_sessions') =
                 IF Len(accept_sessions) = 0 THEN 0 ELSE Len(accept_sessions) - 1
      BY <3>1, AcceptorWoken
    <3>. QED BY <1>3, <2>1, <3>2, <3>3 DEF ListenTypeOK
  <2>2. CASE m[1] = "socket" /\ ~listen_closed /\ no_acceptor
    <3>1. /\ accept_sessions' = accept_sessions /\ accept_timer' = accept_timer
          /\ accept_pc' = accept_pc /\ accept_back' = accept_back
          /\ accept_callback' = accept_callback /\ accept_left' = accept_left
      BY <1>1, <2>2 DEF wakeup_accept
    <3>2. Len(accept_sessions) = 0
      BY <2>2 DEF no_acceptor
    <3>. QED BY <1>3, <2>2, <3>1, <3>2 DEF ListenTypeOK
  <2>3. CASE ~(m[1] = "socket" /\ ~listen_closed)
    <3>1. /\ accept_callback' = (accept_callback /\ ~listen_closed)
          /\ accept_left' = Len(accept_sessions) /\ accept_pc' = "wake_blocking"
          /\ accept_sessions' = accept_sessions /\ accept_timer' = accept_timer
          /\ accept_back' = accept_back
      BY <1>1, <2>3 DEF wakeup_accept
    <3>2. Len(accept_sessions) <= accepts /\ accepts <= MAX_ACCEPTS
      BY DEF Demanded, ListenTypeOK
    <3>3. accept_left' \in 0 .. MAX_ACCEPTS
      BY <1>3, <3>1, <3>2
    <3>4. listen_closed => WakingAcceptors'
      <4>1. listen_closed => ~accept_callback'
        BY <3>1
      <4>2. Len(accept_sessions') <= accept_left'
        BY <1>3, <3>1
      <4>3. "wake_blocking" = IF accept_pc' = "lua" THEN accept_back' ELSE accept_pc'
        BY <3>1
      <4>. QED BY <4>1, <4>2, <4>3 DEF WakingAcceptors
    <3>. QED BY <1>3, <2>3, <3>1, <3>3, <3>4 DEF ListenTypeOK
  <2>. QED BY <2>1, <2>2, <2>3
<1>8. ListenTypeOK'
  BY <1>2, <1>4, <1>6, <1>7 DEF ListenTypeOK, AcceptAnswer
<1>9. Demanded'
  <2>1. ASSUME ~listen_closed, ~m_has_noblocking_accept
        PROVE  Len(accept_sessions') <=
                   Len(accept_requests) + m_blocking_accept_count + (Sent - Len(handed'))
    <3>1. Len(accept_sessions) <=
              Len(accept_requests) + m_blocking_accept_count + (Sent - Len(handed))
      BY <2>1 DEF Demanded
    <3>2. Len(handed') <= Sent /\ Len(handed') \in Nat /\ Len(accept_sessions') \in Nat
      BY <1>5, <1>6, <1>7 DEF AllInOrder
    <3>3. CASE m[1] = "socket"
      BY <1>3, <1>6, <1>7, <2>1, <3>1, <3>2, <3>3
    <3>4. CASE m[1] # "socket"
      BY <1>3, <1>6, <1>7, <3>1, <3>2, <3>4
    <3>. QED BY <3>3, <3>4
  <2>2. Len(accept_sessions') <= accepts
    <3>1. Len(accept_sessions) <= accepts /\ Len(accept_sessions') \in Nat
      BY <1>7 DEF Demanded
    <3>. QED BY <1>3, <1>7, <3>1
  <2>. QED BY <1>2, <1>5, <1>7, <2>1, <2>2 DEF Demanded
<1>10. ClosedIsTold'
  BY <1>2, <1>7 DEF ClosedIsTold
<1>. QED BY <1>6, <1>8, <1>9, <1>10

\* All who wait are woken, the coroutines one by one.
LEMMA WakeupAcceptors ==
    ASSUME ListenInv, wakeup_acceptors
    PROVE  ListenInv'
<1>. USE DEF ListenInv
<1>1. /\ accept_pc = "wake_blocking"
      /\ accept_messages' = accept_messages /\ accept_callback' = accept_callback
      /\ listen_closed' = listen_closed /\ accepts' = accepts
      /\ accept_callbacks' = accept_callbacks /\ handed' = handed
      /\ accept_requests' = accept_requests
      /\ m_has_noblocking_accept' = m_has_noblocking_accept
      /\ m_blocking_accept_count' = m_blocking_accept_count
      /\ m_has_accept_event' = m_has_accept_event /\ listen_errors' = listen_errors
      /\ listen_closing' = listen_closing /\ connections' = connections
  BY DEF wakeup_acceptors, listen_calls, accept_net, accept_demand
<1>2. /\ accept_sessions \in Seq(Accept) /\ MAX_ACCEPTS \in Nat /\ accepts \in Nat
      /\ Len(accept_sessions) \in Nat /\ Len(accept_requests) \in Nat
      /\ Len(handed) \in Nat /\ Sent \in Int /\ m_blocking_accept_count \in Nat
      /\ accept_left \in 0 .. MAX_ACCEPTS
  BY ListenTypes DEF ListenTypeOK
<1>3. Sent' = Sent
  BY <1>1 DEF Sent
<1>4. /\ accept_sessions' \in Seq(Accept)
      /\ accept_timer' \in [Accept -> {"none", "running", "expired", "closed"}]
      /\ accept_pc' \in {"lua", "idle", "wake_blocking"}
      /\ accept_back' \in {"idle", "wake_blocking"} /\ accept_left' \in 0 .. MAX_ACCEPTS
      /\ Len(accept_sessions') <= Len(accept_sessions)
      /\ WakingAcceptors => WakingAcceptors' \/ no_acceptor'
  <2>1. CASE accept_left > 0
    <3>1. accept_left' = accept_left - 1 /\ WakeupAcceptor("wake_blocking")
      BY <2>1 DEF wakeup_acceptors
    <3>2. /\ accept_pc' = "lua" /\ accept_back' = "wake_blocking"
          /\ accept_sessions' \in Seq(Accept)
          /\ accept_timer' \in [Accept -> {"none", "running", "expired", "closed"}]
          /\ Len(accept_sessions') =
                 IF Len(accept_sessions) = 0 THEN 0 ELSE Len(accept_sessions) - 1
      BY <3>1, AcceptorWoken
    <3>3. WakingAcceptors => WakingAcceptors'
      BY <1>1, <1>2, <2>1, <3>1, <3>2 DEF WakingAcceptors
    <3>. QED BY <1>2, <2>1, <3>1, <3>2, <3>3
  <2>2. CASE ~(accept_left > 0)
    <3>1. /\ accept_left' = accept_left /\ accept_sessions' = accept_sessions
          /\ accept_timer' = accept_timer
          /\ accept_pc' \in {"lua", "idle"}
          /\ accept_back' = "idle" \/ accept_back' = accept_back
      BY <2>2 DEF wakeup_acceptors, ResumeAcceptor
    <3>2. WakingAcceptors => no_acceptor'
      BY <1>1, <1>2, <2>2, <3>1 DEF WakingAcceptors, no_acceptor
    <3>. QED BY <1>2, <3>1, <3>2 DEF ListenTypeOK
  <2>. QED BY <2>1, <2>2
<1>5. ListenTypeOK'
  BY <1>1, <1>4 DEF ListenTypeOK
<1>6. AllInOrder'
  BY <1>1, <1>3 DEF AllInOrder
<1>7. Demanded'
  <2>1. Len(accept_sessions') \in Nat
    BY <1>4
  <2>2. ~listen_closed /\ ~m_has_noblocking_accept =>
            Len(accept_sessions') <=
                Len(accept_requests) + m_blocking_accept_count + (Sent - Len(handed))
    BY <1>2, <1>4, <2>1 DEF Demanded
  <2>3. Len(accept_sessions') <= accepts
    BY <1>2, <1>4, <2>1 DEF Demanded
  <2>. QED BY <1>1, <1>3, <2>2, <2>3 DEF Demanded
<1>8. ClosedIsTold'
  <2>1. no_acceptor => no_acceptor'
    BY <1>1, <1>2, <1>4 DEF no_acceptor
  <2>. QED BY <1>1, <1>4, <2>1 DEF ClosedIsTold
<1>. QED BY <1>5, <1>6, <1>7, <1>8

\* A coroutine gives up.
LEMMA AcceptTimeout ==
    ASSUME ListenInv, accept_timeout
    PROVE  ListenInv'
<1>. USE DEF ListenInv
<1>1. PICK m : m = Head(accept_messages)
  OBVIOUS
<1>2. /\ accept_pc = "idle" /\ accept_messages # << >> /\ m[1] = "timeout"
      /\ accept_messages' = Tail(accept_messages)
      /\ \/ /\ accept_sessions' = accept_sessions /\ accept_timer' = accept_timer
            /\ accept_pc' = accept_pc /\ accept_back' = accept_back
         \/ /\ accept_sessions' = RemoveFirst(accept_sessions, m[2])
            /\ accept_timer' = [accept_timer EXCEPT ![m[2]] = "closed"]
            /\ accept_pc' = "lua" /\ accept_back' = "idle"
      /\ accept_callback' = accept_callback
      /\ listen_closed' = listen_closed /\ accepts' = accepts
      /\ accept_callbacks' = accept_callbacks /\ handed' = handed
      /\ accept_left' = accept_left /\ accept_requests' = accept_requests
      /\ m_has_noblocking_accept' = m_has_noblocking_accept
      /\ m_blocking_accept_count' = m_blocking_accept_count
      /\ m_has_accept_event' = m_has_accept_event /\ listen_errors' = listen_errors
      /\ listen_closing' = listen_closing /\ connections' = connections
  BY <1>1 DEF accept_timeout, ResumeAcceptor, listen_calls, accept_net, accept_demand
<1>3. /\ accept_messages \in Seq(AcceptAnswer)
      /\ accept_sessions \in Seq(Accept) /\ accepts \in Nat
      /\ Len(accept_sessions) \in Nat /\ Len(accept_requests) \in Nat
      /\ Len(handed) \in Nat /\ Sent \in Int /\ m_blocking_accept_count \in Nat
  BY ListenTypes
<1>4. /\ accept_messages' \in Seq(AcceptAnswer) /\ m \in AcceptAnswer
      /\ m = accept_messages[1] /\ Shorter(accept_messages, accept_messages')
  <2>1. /\ accept_messages' \in Seq(AcceptAnswer) /\ accept_messages[1] \in AcceptAnswer
        /\ Shorter(accept_messages, accept_messages')
    BY <1>2, <1>3, TakeFirst
  <2>. QED BY <1>1, <2>1 DEF Shorter
<1>5. Sent' = Sent
  BY <1>2 DEF Sent
<1>6. /\ accept_sessions' \in Seq(Accept) /\ Len(accept_sessions') <= Len(accept_sessions)
      /\ Len(accept_sessions') \in Nat
      /\ accept_timer' \in [Accept -> {"none", "running", "expired", "closed"}]
      /\ accept_pc' \in {"lua", "idle", "wake_blocking"}
      /\ accept_back' \in {"idle", "wake_blocking"}
  <2>1. /\ RemoveFirst(accept_sessions, m[2]) \in Seq(Accept)
        /\ Len(RemoveFirst(accept_sessions, m[2])) =
               IF Contains(accept_sessions, m[2])
               THEN Len(accept_sessions) - 1 ELSE Len(accept_sessions)
    BY <1>3, FirstRemoved
  <2>2. /\ accept_sessions' \in Seq(Accept)
        /\ Len(accept_sessions') <= Len(accept_sessions)
    BY <1>2, <1>3, <2>1
  <2>3. Len(accept_sessions') \in Nat
    BY <2>2
  <2>4. accept_timer' \in [Accept -> {"none", "running", "expired", "closed"}]
    BY <1>2 DEF ListenTypeOK
  <2>5. /\ accept_pc' \in {"lua", "idle", "wake_blocking"}
        /\ accept_back' \in {"idle", "wake_blocking"}
    BY <1>2 DEF ListenTypeOK
  <2>. QED BY <2>2, <2>3, <2>4, <2>5
<1>7. ListenTypeOK'
  BY <1>2, <1>4, <1>6 DEF ListenTypeOK, AcceptAnswer
<1>8. AllInOrder'
  <2>1. Sent \in Nat /\ Ordered("socket", accept_messages, Len(handed), Sent)
    BY <1>3 DEF AllInOrder
  <2>2. m[1] # "socket"
    BY <1>2
  <2>3. Ordered("socket", accept_messages', Len(handed), Sent)
    BY <1>3, <1>4, <2>1, <2>2, OrderedRest
  <2>. QED BY <1>2, <1>5, <2>3 DEF AllInOrder
<1>9. Demanded'
  <2>1. ~listen_closed /\ ~m_has_noblocking_accept =>
            Len(accept_sessions') <=
                Len(accept_requests) + m_blocking_accept_count + (Sent - Len(handed))
    BY <1>3, <1>6 DEF Demanded
  <2>2. Len(accept_sessions') <= accepts
    BY <1>3, <1>6 DEF Demanded
  <2>. QED BY <1>2, <1>5, <2>1, <2>2 DEF Demanded
<1>10. ClosedIsTold'
  <2>1. m # ListenClosing
    BY <1>2, <1>4, AcceptAnswers
  <2>2. Contains(accept_messages, ListenClosing) => Contains(accept_messages', ListenClosing)
    BY <1>4, <2>1 DEF Shorter
  <2>3. no_acceptor => no_acceptor'
    BY <1>2, <1>3, <1>6 DEF no_acceptor
  <2>4. ~WakingAcceptors
    BY <1>2 DEF WakingAcceptors
  <2>. QED BY <1>2, <2>2, <2>3, <2>4 DEF ClosedIsTold
<1>. QED BY <1>7, <1>8, <1>9, <1>10

\* Every step.
LEMMA ListenStep == ListenInv /\ [ListenNext]_listenVars => ListenInv'
<1>. SUFFICES ASSUME ListenInv, [ListenNext]_listenVars PROVE ListenInv'
  OBVIOUS
<1>1. MAX_ERRORS \in Nat /\ ListenTypeOK
  BY TcpListenAssumption DEF ListenInv
<1>2. CASE on_accept_error
  <2>1. AcceptError \in AcceptAnswer /\ AcceptError[1] # "socket"
    BY DEF AcceptAnswer, AcceptError
  <2>2. /\ accept_messages' = Append(accept_messages, AcceptError)
        /\ accept_sessions' = accept_sessions /\ accept_callback' = accept_callback
        /\ accepts' = accepts /\ accept_callbacks' = accept_callbacks
        /\ accept_timer' = accept_timer /\ handed' = handed /\ accept_pc' = accept_pc
        /\ accept_back' = accept_back /\ accept_left' = accept_left
        /\ accept_demand' = accept_demand /\ m_has_accept_event' = m_has_accept_event
        /\ connections' = connections /\ listen_closing' = listen_closing
        /\ listen_errors < MAX_ERRORS /\ listen_errors' = listen_errors + 1
        /\ listen_closed' = listen_closed /\ accept_requests' = accept_requests
    BY <1>2 DEF on_accept_error, acceptors, listen_calls, accept_handler
  <2>3. listen_errors' \in 0 .. MAX_ERRORS
    BY <1>1, <2>2 DEF ListenTypeOK
  <2>4. accept_timer' \in [Accept -> {"none", "running", "expired", "closed"}]
    BY <1>1, <2>2 DEF ListenTypeOK
  <2>. QED BY <2>1, <2>2, <2>3, <2>4, OtherAcceptMessage
<1>3. ASSUME NEW a \in Accept, on_accept_timedout(a) PROVE ListenInv'
  <2>1. AcceptExpired(a) \in AcceptAnswer /\ AcceptExpired(a)[1] # "socket"
    BY DEF AcceptAnswer, AcceptExpired
  <2>2. /\ accept_messages' = Append(accept_messages, AcceptExpired(a))
        /\ accept_sessions' = accept_sessions /\ accept_callback' = accept_callback
        /\ accepts' = accepts /\ accept_callbacks' = accept_callbacks
        /\ accept_timer' = [accept_timer EXCEPT ![a] = "expired"]
        /\ handed' = handed /\ accept_pc' = accept_pc
        /\ accept_back' = accept_back /\ accept_left' = accept_left
        /\ accept_demand' = accept_demand /\ m_has_accept_event' = m_has_accept_event
        /\ connections' = connections /\ listen_closing' = listen_closing
        /\ listen_errors' = listen_errors
        /\ listen_closed' = listen_closed /\ accept_requests' = accept_requests
    BY <1>3 DEF on_accept_timedout, acceptors, listen_calls, accept_handler, accept_net
  <2>3. /\ listen_errors' \in 0 .. MAX_ERRORS
        /\ accept_timer' \in [Accept -> {"none", "running", "expired", "closed"}]
    BY <1>1, <2>2 DEF ListenTypeOK
  <2>. QED BY <2>1, <2>2, <2>3, OtherAcceptMessage
<1>4. CASE listen_close
  <2>1. ListenClosing \in AcceptAnswer /\ ListenClosing[1] # "socket"
    BY DEF AcceptAnswer, ListenClosing
  <2>2. /\ accept_messages' = Append(accept_messages, ListenClosing)
        /\ accept_sessions' = accept_sessions /\ accept_callback' = accept_callback
        /\ accepts' = accepts /\ accept_callbacks' = accept_callbacks
        /\ accept_timer' = accept_timer /\ handed' = handed /\ accept_pc' = accept_pc
        /\ accept_back' = accept_back /\ accept_left' = accept_left
        /\ accept_demand' = accept_demand /\ m_has_accept_event' = m_has_accept_event
        /\ connections' = connections /\ listen_closing' = listen_closing
        /\ listen_errors' = listen_errors
        /\ listen_closed' = TRUE /\ accept_requests' = Append(accept_requests, "close")
    BY <1>4 DEF listen_close, acceptors, accept_handler, accept_net
  <2>3. /\ listen_errors' \in 0 .. MAX_ERRORS
        /\ accept_timer' \in [Accept -> {"none", "running", "expired", "closed"}]
    BY <1>1, <2>2 DEF ListenTypeOK
  <2>. QED BY <2>1, <2>2, <2>3, OtherAcceptMessage
<1>5. ASSUME NEW blocking \in BOOLEAN, accept(blocking) PROVE ListenInv'
  BY <1>5, AcceptAsked
<1>6. CASE on_accept \/ close_listen_handle
  BY <1>6, OnAccept, CloseListenHandle
<1>7. CASE accept_blocking \/ accept_nonblocking
  BY <1>7, AcceptBlocking, AcceptNonblocking
<1>8. CASE return_from_acceptor \/ other_accept_message \/ UNCHANGED listenVars
  BY <1>8, AcceptorRuns
<1>9. CASE wakeup_accept \/ wakeup_acceptors \/ accept_timeout
  BY <1>9, WakeupAccept, WakeupAcceptors, AcceptTimeout
<1>. QED BY <1>2, <1>3, <1>4, <1>5, <1>6, <1>7, <1>8, <1>9 DEF ListenNext

\* What the invariant says when nothing is under way.
LEMMA ListenHolds == ListenInv => AcceptsExact
<1>. SUFFICES ASSUME ListenInv PROVE AcceptsExact
  OBVIOUS
<1>. USE DEF ListenInv
<1>1. /\ accept_messages \in Seq(AcceptAnswer) /\ handed \in Seq(Connection \X BOOLEAN)
      /\ accept_sessions \in Seq(Accept) /\ accept_requests \in Seq(AcceptKind)
      /\ Len(accept_messages) \in Nat /\ Len(accept_sessions) \in Nat
      /\ Len(accept_requests) \in Nat /\ Len(handed) \in Nat
      /\ Sent \in Int /\ m_blocking_accept_count \in Nat
  BY ListenTypes
<1>2. ConnectionsInOrder
  <2>1. /\ DOMAIN accept_messages = 1 .. Len(accept_messages)
        /\ DOMAIN handed = 1 .. Len(handed)
    BY <1>1
  <2>2. {accept_messages[i][2] : i \in SocketsIn(accept_messages)} = Len(handed) + 1 .. Sent
    <3>1. ASSUME NEW i \in SocketsIn(accept_messages)
          PROVE  accept_messages[i][2] \in Len(handed) + 1 .. Sent
      BY <2>1 DEF SocketsIn, AllInOrder, Ordered
    <3>2. ASSUME NEW n \in Len(handed) + 1 .. Sent
          PROVE  \E i \in SocketsIn(accept_messages) : accept_messages[i][2] = n
      <4>1. PICK i \in 1 .. Len(accept_messages) :
                accept_messages[i][1] = "socket" /\ accept_messages[i][2] = n
        BY DEF AllInOrder, Ordered
      <4>2. i \in SocketsIn(accept_messages)
        BY <2>1, <4>1 DEF SocketsIn
      <4>. QED BY <4>1, <4>2
    <3>. QED BY <3>1, <3>2
  <2>3. \A i, j \in SocketsIn(accept_messages) :
            i < j => accept_messages[i][2] < accept_messages[j][2]
    BY <2>1 DEF SocketsIn, AllInOrder, Ordered
  <2>. QED BY <2>1, <2>2, <2>3 DEF ConnectionsInOrder, AllInOrder
<1>3. ASSUME ListenQuiet, ~no_acceptor PROVE ~listen_closed /\ ~m_has_accept_event
  <2>1. /\ accept_pc = "idle" /\ Len(accept_messages) = 0 /\ Len(accept_requests) = 0
    BY <1>1, <1>3 DEF ListenQuiet
  <2>2. /\ \A e : ~Contains(accept_messages, e) /\ ~Contains(accept_requests, e)
    BY <2>1 DEF Contains
  <2>3. ~listen_closed
    BY <1>3, <2>1, <2>2 DEF ClosedIsTold, WakingAcceptors
  <2>4. ASSUME m_has_accept_event PROVE FALSE
    <3>1. ~m_has_noblocking_accept /\ m_blocking_accept_count = 0 /\ ~accept_callback
      BY <2>2, <2>4 DEF Demanded
    <3>2. Len(handed) = Sent
      <4>1. \A n \in Len(handed) + 1 .. Sent : FALSE
        BY <2>1 DEF AllInOrder, Ordered
      <4>2. Sent < Len(handed) + 1
        <5>. SUFFICES ASSUME Len(handed) + 1 <= Sent PROVE FALSE
          BY <1>1
        <5>1. Sent \in Len(handed) + 1 .. Sent
          BY <1>1
        <5>. QED BY <4>1, <5>1
      <4>. QED BY <1>1, <4>2 DEF AllInOrder
    <3>3. Len(accept_sessions) <= 0
      BY <1>1, <2>1, <2>3, <3>1, <3>2 DEF Demanded
    <3>. QED BY <1>1, <1>3, <3>1, <3>3 DEF no_acceptor
  <2>. QED BY <2>3, <2>4
<1>. QED BY <1>2, <1>3 DEF AcceptsExact, AcceptorServed

\* For any number of connections, calls, callbacks and errors, whenever the socket is
\* closed and whoever gives up: every connection is handed over or closed once, in the
\* order of arrival, and when nothing is under way nobody waits for one that is there or
\* at a socket that is closed (uv_tcp_handle.cpp:17-109, lua_tcp_handle.cpp:211-353).
THEOREM AcceptorsAreServed == ListenSpec => []AcceptsExact
<1>1. ListenInit => ListenInv
  <2>. SUFFICES ASSUME ListenInit PROVE ListenInv
    OBVIOUS
  <2>1. /\ accept_messages = << >> /\ accept_sessions = << >> /\ accept_callback = FALSE
        /\ listen_closed = FALSE /\ accept_timer = [a \in Accept |-> "none"]
        /\ accepts = 0 /\ accept_callbacks = 0 /\ handed = << >> /\ accept_pc = "lua"
        /\ accept_back = "idle" /\ accept_left = 0 /\ accept_requests = << >>
        /\ m_has_accept_event = FALSE /\ m_has_noblocking_accept = FALSE
        /\ m_blocking_accept_count = 0 /\ listen_closing = FALSE /\ connections = 0
        /\ listen_errors = 0
    BY DEF ListenInit
  <2>2. Len(accept_messages) = 0 /\ Len(accept_sessions) = 0 /\ Len(handed) = 0
        /\ Len(accept_requests) = 0
    BY <2>1
  <2>3. ListenTypeOK
    <3>1. /\ 0 \in 0 .. MAX_ACCEPTS /\ 0 \in 0 .. MAX_CALLBACKS
          /\ 0 \in 0 .. MAX_CONNECTIONS /\ 0 \in 0 .. MAX_ERRORS
      BY TcpListenAssumption
    <3>2. accept_timer \in [Accept -> {"none", "running", "expired", "closed"}]
      BY <2>1
    <3>3. /\ accept_messages \in Seq(({"socket"} \X Connection) \cup ({"timeout"} \X Accept)
                                     \cup {AcceptError, ListenClosing})
          /\ accept_sessions \in Seq(Accept) /\ handed \in Seq(Connection \X BOOLEAN)
          /\ accept_requests \in Seq({"blocking", "nonblocking", "close"})
      BY <2>1
    <3>. QED BY <2>1, <3>1, <3>2, <3>3 DEF ListenTypeOK
  <2>4. Sent = 0
    <3>1. m_has_accept_event = FALSE /\ connections = 0
      BY <2>1
    <3>2. ~m_has_accept_event
      BY <3>1
    <3>3. Sent = connections - 0
      BY <3>2 DEF Sent
    <3>4. 0 - 0 = 0
      OBVIOUS
    <3>. QED BY <3>1, <3>3, <3>4
  <2>5. AllInOrder
    <3>1. \A n \in 0 + 1 .. 0 : FALSE
      OBVIOUS
    <3>. QED BY <2>2, <2>4, <3>1 DEF AllInOrder, Ordered
  <2>6. Times(accept_requests, "blocking") = 0
    <3>1. {i \in 1 .. Len(accept_requests) : accept_requests[i] = "blocking"} = {}
      BY <2>2
    <3>. QED BY <3>1, FS_EmptySet DEF Times
  <2>7. Demanded
    BY <2>1, <2>2, <2>4, <2>6 DEF Demanded
  <2>8. ClosedIsTold
    BY <2>1, <2>2 DEF ClosedIsTold, Contains
  <2>. QED BY <2>3, <2>5, <2>7, <2>8 DEF ListenInv
<1>. QED BY <1>1, ListenStep, ListenHolds, PTL DEF ListenSpec

-----------------------------------------------------------------------------
(* Reading packets.                                                          *)

ReadKind == {"blocking", "nonblocking", "close"}

\* Where the handler of the context is, or will go on when Lua code returns.
ReadingAt(label) == label = IF read_pc = "lua" THEN read_back ELSE read_pc

\* The read that has timed out and is not counted yet.
TimingOut == IF ReadingAt("timed_out") THEN 1 ELSE 0

\* The network thread wants packets; it has met an error.
Wanted == read_start_state(m_has_noblocking_read, m_blocking_read_count)
Failed == failing \/ m_read_error

\* The packets that Lua code has got or that have overflowed.
Kept == Len(delivered) + Len(m_read_overflow_buffers)

\* Every packet is in its place; closing the socket throws packets away.
PacketsPlaced ==
    ~read_closed =>
        /\ Kept <= ReadSent
        /\ \A i \in 1 .. Len(delivered) : delivered[i] = i
        /\ \A i \in 1 .. Len(m_read_overflow_buffers) :
               m_read_overflow_buffers[i] = Len(delivered) + i
        /\ Ordered("buffer", read_messages, Kept, ReadSent)
        /\ \A i \in 1 .. Len(m_read_cached_buffers) :
               m_read_cached_buffers[i] = ReadSent + i

\* No packet comes after an error.
ErrorIsLast ==
    \A i, j \in 1 .. Len(read_messages) :
        read_messages[i] = ReadError /\ read_messages[j][1] = "buffer" => j < i

\* The network thread reads the socket as long as it wants packets and can have them,
\* and keeps packets only while it wants none.  As long as no callback has, those who
\* wait or have given up are as many as the packets wanted, asked for and on their way.
ReadDemand ==
    /\ reading => Wanted /\ ~Failed
    /\ Wanted => m_read_cached_buffers = << >>
    /\ Wanted /\ ~Failed /\ ~read_closing => reading
    /\ read_callback /\ ~m_read_error =>
           m_has_noblocking_read \/ Contains(read_requests, "nonblocking")
    /\ m_has_noblocking_read \/ Contains(read_requests, "nonblocking") =>
           read_callback \/ read_closed
    /\ ~read_closed /\ ~read_callback /\ ~Failed =>
           Len(read_requests) + m_blocking_read_count + (ReadSent - Len(delivered))
               = Len(read_sessions) + m_read_timeout_session_count + TimingOut

\* The context hears of an error when there is one.
ReadErrors ==
    /\ Contains(read_messages, ReadError) \/ read_current = ReadError => Failed
    /\ ReadingAt("wake_blocking") => read_closed \/ Failed

\* Who waits, has given up, or asks is a read; whose timer runs, waits.
ReadBounds ==
    /\ Len(read_sessions) + m_read_timeout_session_count + TimingOut <= reads
    /\ m_blocking_read_count + Times(read_requests, "blocking") <= reads
    /\ \A r \in Read :
        /\ read_timer[r] = "running" => r <= reads
        /\ Contains(read_messages, ReadExpired(r)) =>
               r <= reads /\ read_timer[r] \in {"expired", "closed"}
        /\ read_timer[r] \in {"running", "expired"} => Contains(read_sessions, r)

\* The handler wakes all who wait, the coroutines one by one.
WakingReaders ==
    /\ ReadingAt("wake_blocking")
    /\ ~read_callback
    /\ Len(read_sessions) <= read_left

\* Those who wait at a socket that is closed, or while packets have overflowed, will
\* hear of it.
ReadersTold ==
    /\ read_closing \/ Contains(read_requests, "close") => read_closed
    /\ read_closed => no_reader \/ Contains(read_messages, ReadClosing) \/ WakingReaders
    /\ ~read_closed /\ ~no_reader /\ m_read_overflow_buffers # << >> =>
           Contains(read_messages, ReadOverflow) \/ ReadingAt("overflow")

ReadInv ==
    /\ ReadTypeOK
    /\ PacketsPlaced
    /\ ErrorIsLast
    /\ ReadDemand
    /\ ReadErrors
    /\ ReadBounds
    /\ ReadersTold

\* What the types say of a message about the socket.
LEMMA ReadAnswers ==
    ASSUME NEW m \in ReadAnswer
    PROVE  /\ m[1] = "buffer" => m[2] \in Packet
           /\ m[1] = "timeout" => m[2] \in Read /\ m = ReadExpired(m[2])
           /\ m[1] \in {"buffer", "timeout"} =>
                  m \notin {ReadError, ReadOverflow, ReadClosing}
<1>1. CASE m \in {"buffer"} \X Packet
  BY <1>1 DEF ReadError, ReadOverflow, ReadClosing
<1>2. CASE m \in {"timeout"} \X Read
  BY <1>2 DEF ReadExpired, ReadError, ReadOverflow, ReadClosing
<1>3. CASE m \in {ReadError, ReadOverflow, ReadClosing}
  BY <1>3 DEF ReadError, ReadOverflow, ReadClosing
<1>. QED BY <1>1, <1>2, <1>3 DEF ReadAnswer

\* The messages that are no packets are told apart by their first component.
LEMMA ReadMessages ==
    /\ ReadError \in ReadAnswer /\ ReadOverflow \in ReadAnswer
    /\ ReadClosing \in ReadAnswer /\ \A r \in Read : ReadExpired(r) \in ReadAnswer
    /\ ReadError[1] = "error" /\ ReadOverflow[1] = "overflow"
    /\ ReadClosing[1] = "closing" /\ \A r : ReadExpired(r)[1] = "timeout"
    /\ \A r, s : ReadExpired(r) = ReadExpired(s) => r = s
    /\ {"buffer"} \X Packet \subseteq ReadAnswer
<1>1. /\ ReadError[1] = "error" /\ ReadOverflow[1] = "overflow"
      /\ ReadClosing[1] = "closing" /\ \A r : ReadExpired(r)[1] = "timeout"
  BY DEF ReadError, ReadOverflow, ReadClosing, ReadExpired
<1>2. \A r, s : ReadExpired(r) = ReadExpired(s) => r = s
  BY DEF ReadExpired
<1>3. /\ ReadError \in ReadAnswer /\ ReadOverflow \in ReadAnswer
      /\ ReadClosing \in ReadAnswer /\ \A r \in Read : ReadExpired(r) \in ReadAnswer
      /\ {"buffer"} \X Packet \subseteq ReadAnswer
  BY DEF ReadAnswer, ReadExpired
<1>. QED BY <1>1, <1>2, <1>3

\* The types, with the numbers they imply.
LEMMA ReadTypes ==
    ASSUME ReadTypeOK
    PROVE  /\ read_messages \in Seq(ReadAnswer) /\ read_sessions \in Seq(Read)
           /\ read_requests \in Seq(ReadKind) /\ delivered \in Seq(Packet)
           /\ m_read_overflow_buffers \in Seq(Packet)
           /\ m_read_cached_buffers \in Seq(Packet)
           /\ Len(read_messages) \in Nat /\ Len(read_sessions) \in Nat
           /\ Len(read_requests) \in Nat /\ Len(delivered) \in Nat
           /\ Len(m_read_overflow_buffers) \in Nat /\ Len(m_read_cached_buffers) \in Nat
           /\ MAX_READS \in Nat /\ MAX_PACKETS \in Nat
           /\ reads \in Nat /\ reads <= MAX_READS /\ m_blocking_read_count \in Nat
           /\ arrived \in Nat /\ read_left \in Nat /\ m_read_timeout_session_count \in Nat
           /\ TimingOut \in Nat /\ ReadSent \in Int /\ Kept \in Nat
           /\ \A m : Times(read_requests, m) \in Nat
<1>1. /\ read_messages \in Seq(ReadAnswer) /\ read_sessions \in Seq(Read)
      /\ read_requests \in Seq(ReadKind) /\ delivered \in Seq(Packet)
      /\ m_read_overflow_buffers \in Seq(Packet)
      /\ m_read_cached_buffers \in Seq(Packet)
      /\ Len(read_messages) \in Nat /\ Len(read_sessions) \in Nat
      /\ Len(read_requests) \in Nat /\ Len(delivered) \in Nat
      /\ Len(m_read_overflow_buffers) \in Nat /\ Len(m_read_cached_buffers) \in Nat
  BY DEF ReadTypeOK, ReadKind
<1>2. MAX_READS \in Nat /\ MAX_PACKETS \in Nat
  BY TcpReadAssumption
<1>3. /\ reads \in Nat /\ reads <= MAX_READS /\ m_blocking_read_count \in Nat
      /\ arrived \in Nat /\ read_left \in Nat /\ m_read_timeout_session_count \in Nat
  BY <1>2 DEF ReadTypeOK
<1>4. TimingOut \in Nat /\ ReadSent \in Int /\ Kept \in Nat
  BY <1>1, <1>3 DEF TimingOut, ReadSent, Kept
<1>5. \A m : Times(read_requests, m) \in Nat
  BY <1>1, PlacesFinite
<1>. QED BY <1>1, <1>2, <1>3, <1>4, <1>5

-----------------------------------------------------------------------------
(* The network thread.                                                       *)

\* The packets of a sequence as messages.
LEMMA AsBuffers ==
    ASSUME NEW packets \in Seq(Packet)
    PROVE  /\ BuffersOf(packets) \in Seq({"buffer"} \X Packet)
           /\ Len(BuffersOf(packets)) = Len(packets)
           /\ \A i \in 1 .. Len(packets) : BuffersOf(packets)[i] = Buffer(packets[i])
<1>1. Len(packets) \in Nat /\ \A i \in 1 .. Len(packets) : packets[i] \in Packet
  OBVIOUS
<1>2. \A i \in 1 .. Len(packets) : Buffer(packets[i]) \in {"buffer"} \X Packet
  BY <1>1 DEF Buffer
<1>3. BuffersOf(packets) \in [1 .. Len(packets) -> {"buffer"} \X Packet]
  BY <1>2 DEF BuffersOf
<1>4. BuffersOf(packets) \in Seq({"buffer"} \X Packet)
  BY <1>1, <1>3
<1>5. Len(BuffersOf(packets)) = Len(packets)
  BY <1>1, <1>3, <1>4
<1>. QED BY <1>4, <1>5 DEF BuffersOf

\* h holds the packets from the first on, as many as there is demand for, the rest and
\* the demand that is left.
HandsOver(packets, noblocking, count, h) ==
    /\ h.sent \in Seq({"buffer"} \X Packet) /\ h.rest \in Seq(Packet)
    /\ Len(h.sent) \in Nat /\ Len(h.rest) \in Nat
    /\ Len(h.sent) + Len(h.rest) = Len(packets)
    /\ \A i \in 1 .. Len(h.sent) : h.sent[i] = Buffer(packets[i])
    /\ \A i \in 1 .. Len(h.rest) : h.rest[i] = packets[Len(h.sent) + i]
    /\ h.count \in Nat /\ h.count <= count
    /\ ~noblocking => h.count + Len(h.sent) = count
    /\ noblocking \/ h.count > 0 => h.rest = << >>
    /\ packets = << >> => h.count = count

\* HandOver.
LEMMA HandedOver ==
    ASSUME NEW packets \in Seq(Packet), NEW noblocking \in BOOLEAN, NEW count \in Nat,
           NEW h, h = HandOver(packets, noblocking, count)
    PROVE  HandsOver(packets, noblocking, count, h)
<1>1. PICK n : n = IF noblocking THEN Len(packets) ELSE MinOf(Len(packets), count)
  OBVIOUS
<1>2. Len(packets) \in Nat
  OBVIOUS
<1>3. n \in 0 .. Len(packets) /\ (~noblocking => n <= count)
  BY <1>1, <1>2 DEF MinOf
<1>4. /\ h.sent = BuffersOf(SubSeq(packets, 1, n))
      /\ h.rest = SubSeq(packets, n + 1, Len(packets))
      /\ h.count = count - MinOf(n, count)
  BY <1>1 DEF HandOver
<1>5. PICK s : s = SubSeq(packets, 1, n)
  OBVIOUS
<1>6. s \in Seq(Packet) /\ Len(s) = n /\ \A i \in 1 .. n : s[i] = packets[i]
  BY <1>2, <1>3, <1>5
<1>7. /\ h.rest \in Seq(Packet) /\ Len(h.rest) = Len(packets) - n
      /\ \A i \in 1 .. Len(packets) - n : h.rest[i] = packets[n + i]
  <2>1. PICK r : r = SubSeq(packets, n + 1, Len(packets))
    OBVIOUS
  <2>2. r \in Seq(Packet) /\ Len(r) = Len(packets) - n
    BY <1>2, <1>3, <2>1
  <2>3. ASSUME NEW i \in 1 .. Len(packets) - n PROVE r[i] = packets[n + i]
    <3>1. n + 1 + i - 1 = n + i
      BY <1>2, <1>3, <2>3
    <3>. QED BY <1>2, <1>3, <2>1, <2>2, <2>3, <3>1
  <2>. QED BY <1>4, <2>1, <2>2, <2>3
<1>8. /\ h.sent \in Seq({"buffer"} \X Packet) /\ Len(h.sent) = n
      /\ \A i \in 1 .. n : h.sent[i] = Buffer(packets[i])
  BY <1>4, <1>5, <1>6, AsBuffers
<1>9. /\ h.count \in Nat /\ h.count <= count
      /\ ~noblocking => h.count + n = count
      /\ n = 0 => h.count = count
  BY <1>3, <1>4 DEF MinOf
<1>10. ASSUME noblocking \/ h.count > 0 PROVE h.rest = << >>
  <2>1. n = Len(packets)
    BY <1>1, <1>2, <1>4, <1>10 DEF MinOf
  <2>. QED BY <1>2, <1>7, <2>1
<1>11. packets = << >> => n = 0
  BY <1>3
<1>. QED BY <1>2, <1>3, <1>7, <1>8, <1>9, <1>10, <1>11 DEF HandsOver

\* t holds the packets as messages.
Announces(t, packets) ==
    /\ t \in Seq({"buffer"} \X Packet) /\ Len(t) = Len(packets)
    /\ \A i \in 1 .. Len(t) : t[i] = Buffer(packets[i])

\* What was handed over and then the rest, as messages.
LEMMA AllHandedOver ==
    ASSUME NEW packets \in Seq(Packet), NEW noblocking \in BOOLEAN, NEW count \in Nat,
           NEW h, h = HandOver(packets, noblocking, count),
           NEW t, t = h.sent \o BuffersOf(h.rest)
    PROVE  Announces(t, packets)
<1>1. PICK s : s = h.sent
  OBVIOUS
<1>2. PICK r : r = h.rest
  OBVIOUS
<1>3. /\ s \in Seq({"buffer"} \X Packet) /\ r \in Seq(Packet)
      /\ Len(s) \in Nat /\ Len(r) \in Nat /\ Len(s) + Len(r) = Len(packets)
      /\ \A i \in 1 .. Len(s) : s[i] = Buffer(packets[i])
      /\ \A i \in 1 .. Len(r) : r[i] = packets[Len(s) + i]
  <2>1. HandsOver(packets, noblocking, count, h)
    BY HandedOver
  <2>. QED BY <1>1, <1>2, <2>1 DEF HandsOver
<1>4. PICK b : b = BuffersOf(r)
  OBVIOUS
<1>5. /\ b \in Seq({"buffer"} \X Packet) /\ Len(b) = Len(r)
      /\ \A i \in 1 .. Len(r) : b[i] = Buffer(r[i])
  BY <1>3, <1>4, AsBuffers
<1>6. t = s \o b
  BY <1>1, <1>2, <1>4
<1>9. PICK S : S = {"buffer"} \X Packet
  OBVIOUS
<1>10. s \in Seq(S) /\ b \in Seq(S)
  BY <1>3, <1>5, <1>9
<1>11. /\ t \in Seq(S) /\ Len(t) = Len(s) + Len(b)
      /\ \A i \in 1 .. Len(s) + Len(b) : t[i] = IF i <= Len(s) THEN s[i] ELSE b[i - Len(s)]
  BY <1>6, <1>10, ConcatProperties
<1>7. /\ t \in Seq({"buffer"} \X Packet) /\ Len(t) = Len(s) + Len(b)
      /\ \A i \in 1 .. Len(s) + Len(b) : t[i] = IF i <= Len(s) THEN s[i] ELSE b[i - Len(s)]
  BY <1>9, <1>11
<1>8. ASSUME NEW i \in 1 .. Len(t) PROVE t[i] = Buffer(packets[i])
  <2>1. CASE i <= Len(s)
    <3>1. i \in 1 .. Len(s) /\ i \in 1 .. Len(s) + Len(b)
      BY <1>3, <1>5, <1>7, <1>8, <2>1
    <3>. QED BY <1>3, <1>7, <2>1, <3>1
  <2>2. CASE ~(i <= Len(s))
    <3>1. i - Len(s) \in 1 .. Len(r) /\ i \in 1 .. Len(s) + Len(b) /\ Len(s) + (i - Len(s)) = i
      BY <1>3, <1>5, <1>7, <1>8, <2>2
    <3>2. t[i] = b[i - Len(s)]
      BY <1>7, <2>2, <3>1
    <3>3. b[i - Len(s)] = Buffer(r[i - Len(s)])
      BY <1>5, <3>1
    <3>4. r[i - Len(s)] = packets[i]
      BY <1>3, <3>1
    <3>. QED BY <3>2, <3>3, <3>4
  <2>. QED BY <2>1, <2>2
<1>. QED BY <1>3, <1>5, <1>7, <1>8 DEF Announces

\* Packets are sent, and perhaps an error after them.
LEMMA PacketsSent ==
    ASSUME ReadTypeOK, PacketsPlaced, ErrorIsLast, ~Contains(read_messages, ReadError),
           NEW t \in Seq({"buffer"} \X Packet),
           ~read_closed => \A i \in 1 .. Len(t) : t[i][2] = ReadSent + i,
           \/ read_messages' = read_messages \o t
           \/ read_messages' = Append(read_messages \o t, ReadError),
           ReadSent' = ReadSent + Len(t),
           read_closed' = read_closed, delivered' = delivered,
           m_read_overflow_buffers' = m_read_overflow_buffers,
           ~read_closed => \A i \in 1 .. Len(m_read_cached_buffers') :
                               m_read_cached_buffers'[i] = ReadSent' + i
    PROVE  /\ read_messages' \in Seq(ReadAnswer)
           /\ PacketsPlaced' /\ ErrorIsLast'
           /\ \A e : Contains(read_messages, e) => Contains(read_messages', e)
           /\ \A r : Contains(read_messages', ReadExpired(r)) =>
                         Contains(read_messages, ReadExpired(r))
           /\ read_messages' = read_messages \o t => ~Contains(read_messages', ReadError)
<1>1. /\ read_messages \in Seq(ReadAnswer) /\ Len(read_messages) \in Nat
      /\ Len(t) \in Nat /\ Kept \in Nat /\ ReadSent \in Int
  BY ReadTypes
<1>2. t \in Seq(ReadAnswer) /\ \A i \in 1 .. Len(t) : t[i][1] = "buffer"
  <2>1. t \in Seq(ReadAnswer)
    BY ReadMessages
  <2>. QED BY <2>1
<1>3. PICK q : q = read_messages \o t
  OBVIOUS
<1>4. /\ q \in Seq(ReadAnswer) /\ Len(q) = Len(read_messages) + Len(t)
      /\ \A i \in 1 .. Len(read_messages) + Len(t) :
             q[i] = IF i <= Len(read_messages) THEN read_messages[i]
                    ELSE t[i - Len(read_messages)]
  BY <1>1, <1>2, <1>3, ConcatProperties
<1>5. ASSUME NEW i \in 1 .. Len(read_messages)
      PROVE  i \in 1 .. Len(q) /\ q[i] = read_messages[i]
  <2>1. i \in 1 .. Len(read_messages) + Len(t) /\ i <= Len(read_messages)
    BY <1>1, <1>5
  <2>. QED BY <1>4, <2>1
<1>6. ASSUME NEW i \in 1 .. Len(q), i \notin 1 .. Len(read_messages)
      PROVE  q[i][1] = "buffer"
  <2>1. /\ i \in 1 .. Len(read_messages) + Len(t) /\ ~(i <= Len(read_messages))
        /\ i - Len(read_messages) \in 1 .. Len(t)
    BY <1>1, <1>4, <1>6
  <2>. QED BY <1>2, <1>4, <2>1
<1>7. \A e : Contains(read_messages, e) => Contains(q, e)
  BY <1>5 DEF Contains
<1>8. \A e : Contains(q, e) /\ e[1] # "buffer" => Contains(read_messages, e)
  BY <1>5, <1>6 DEF Contains
<1>9. ~Contains(q, ReadError)
  BY <1>8, ReadMessages
<1>10. ~read_closed => Ordered("buffer", q, Kept, ReadSent + Len(t))
  <2>. SUFFICES ASSUME ~read_closed PROVE Ordered("buffer", q, Kept, ReadSent + Len(t))
    OBVIOUS
  <2>1. Kept <= ReadSent /\ Ordered("buffer", read_messages, Kept, ReadSent)
    BY DEF PacketsPlaced
  <2>2. ReadSent \in Nat
    BY <1>1, <2>1
  <2>3. \A i \in 1 .. Len(t) : t[i][1] = "buffer" /\ t[i][2] = ReadSent + i
    BY <1>2
  <2>. QED BY <1>1, <1>2, <1>3, <2>1, <2>2, <2>3, OrderedConcat
<1>11. /\ read_messages' \in Seq(ReadAnswer)
       /\ ErrorIsLast'
       /\ \A e : Contains(read_messages, e) => Contains(read_messages', e)
       /\ \A r : Contains(read_messages', ReadExpired(r)) =>
                     Contains(read_messages, ReadExpired(r))
       /\ ~read_closed => Ordered("buffer", read_messages', Kept, ReadSent + Len(t))
  <2>1. CASE read_messages' = q
    <3>1. ErrorIsLast'
      BY <1>9, <2>1 DEF ErrorIsLast, Contains
    <3>. QED BY <1>4, <1>7, <1>8, <1>10, <2>1, <3>1, ReadMessages
  <2>2. CASE read_messages' = Append(q, ReadError)
    <3>1. /\ read_messages' \in Seq(ReadAnswer)
          /\ Longer(q, read_messages', ReadError)
      BY <1>4, <2>2, ReadMessages, PutLast
    <3>2. /\ Len(q) \in Nat /\ Len(read_messages') = Len(q) + 1
          /\ \A i \in 1 .. Len(q) : read_messages'[i] = q[i]
          /\ read_messages'[Len(q) + 1] = ReadError
          /\ \A i \in 1 .. Len(read_messages') : i \in 1 .. Len(q) \/ i = Len(q) + 1
          /\ \A e : Contains(read_messages', e) <=> Contains(q, e) \/ e = ReadError
      BY <3>1 DEF Longer
    <3>3. ErrorIsLast'
      <4>1. ASSUME NEW i \in 1 .. Len(read_messages'), NEW j \in 1 .. Len(read_messages'),
                   read_messages'[i] = ReadError, read_messages'[j][1] = "buffer"
            PROVE  j < i
        <5>1. i = Len(q) + 1
          BY <1>9, <3>2, <4>1 DEF Contains
        <5>2. j # Len(q) + 1
          BY <3>2, <4>1, ReadMessages
        <5>. QED BY <3>2, <4>1, <5>1, <5>2
      <4>. QED BY <4>1 DEF ErrorIsLast
    <3>4. \A r : Contains(read_messages', ReadExpired(r)) =>
                     Contains(read_messages, ReadExpired(r))
      BY <1>8, <3>2, ReadMessages
    <3>5. ~read_closed => Ordered("buffer", read_messages', Kept, ReadSent + Len(t))
      <4>. SUFFICES ASSUME ~read_closed
           PROVE  Ordered("buffer", read_messages', Kept, ReadSent + Len(t))
        OBVIOUS
      <4>1. ReadSent + Len(t) \in Nat /\ Kept \in Nat
        BY <1>1 DEF PacketsPlaced
      <4>2. ReadError[1] # "buffer"
        BY ReadMessages
      <4>3. Ordered("buffer", q, Kept, ReadSent + Len(t))
        BY <1>10
      <4>. QED BY <3>1, <4>1, <4>2, <4>3, OrderedOther
    <3>. QED BY <1>7, <3>1, <3>2, <3>3, <3>4, <3>5
  <2>. QED BY <1>3, <2>1, <2>2
<1>12. PacketsPlaced'
  <2>. SUFFICES ASSUME ~read_closed PROVE PacketsPlaced'
    BY DEF PacketsPlaced
  <2>1. Kept' = Kept
    BY DEF Kept
  <2>2. Kept <= ReadSent'
    BY <1>1 DEF PacketsPlaced
  <2>3. Ordered("buffer", read_messages', Kept', ReadSent')
    BY <1>11, <2>1
  <2>4. \A i \in 1 .. Len(m_read_cached_buffers') : m_read_cached_buffers'[i] = ReadSent' + i
    OBVIOUS
  <2>. QED BY <2>1, <2>2, <2>3, <2>4 DEF PacketsPlaced
<1>. QED BY <1>3, <1>9, <1>11, <1>12

\* What the network thread does leaves the context as it is, but for its messages.
LEMMA ContextKept ==
    ASSUME ReadInv,
           UNCHANGED <<readers, read_socket, read_timer, reads, delivered, read_handler>>,
           \A e : Contains(read_messages, e) => Contains(read_messages', e),
           \A r : Contains(read_messages', ReadExpired(r)) =>
                     Contains(read_messages, ReadExpired(r)),
           Contains(read_messages', ReadError) => Failed', Failed => Failed',
           m_blocking_read_count' + Times(read_requests', "blocking") <= reads,
           read_closing' \/ Contains(read_requests', "close") => read_closed
    PROVE  ReadErrors' /\ ReadBounds' /\ ReadersTold'
<1>1. /\ read_sessions' = read_sessions /\ read_callback' = read_callback
      /\ m_read_timeout_session_count' = m_read_timeout_session_count
      /\ m_read_overflow_buffers' = m_read_overflow_buffers
      /\ read_closed' = read_closed /\ read_timer' = read_timer /\ reads' = reads
      /\ read_pc' = read_pc /\ read_back' = read_back /\ read_current' = read_current
      /\ read_left' = read_left
  BY DEF readers, read_socket, read_handler
<1>2. ASSUME NEW label PROVE ReadingAt(label)' = ReadingAt(label)
  BY <1>1 DEF ReadingAt
<1>3. TimingOut' = TimingOut
  BY <1>1 DEF TimingOut, ReadingAt
<1>4. ReadErrors'
  <2>1. ReadErrors
    BY DEF ReadInv
  <2>. QED BY <1>1, <1>2, <2>1 DEF ReadErrors
<1>5. ReadBounds'
  <2>1. ReadBounds
    BY DEF ReadInv
  <2>. QED BY <1>1, <1>3, <2>1 DEF ReadBounds
<1>6. ReadersTold'
  <2>1. ReadersTold
    BY DEF ReadInv
  <2>2. no_reader' = no_reader /\ WakingReaders' = WakingReaders
    BY <1>1 DEF no_reader, WakingReaders, ReadingAt
  <2>. QED BY <1>1, <1>2, <2>1, <2>2 DEF ReadersTold
<1>. QED BY <1>4, <1>5, <1>6

\* A chunk or an error is read from the socket.
LEMMA OnTcpRead ==
    ASSUME ReadInv, on_tcp_read
    PROVE  ReadInv'
<1>. USE DEF ReadInv
<1>1. PICK n \in 0 .. 2, error \in BOOLEAN :
        LET h == HandOver([i \in 1 .. n |-> arrived + i], m_has_noblocking_read,
                          m_blocking_read_count)
            messages == read_messages \o h.sent
            leftovers == m_read_cached_buffers \o h.rest
        IN /\ arrived + n <= MAX_PACKETS
           /\ arrived' = arrived + n
           /\ m_blocking_read_count' = h.count
           /\ IF error
              THEN SendReadError(messages, leftovers) /\ reading' = FALSE
              ELSE /\ read_messages' = messages
                   /\ m_read_cached_buffers' = leftovers
                   /\ reading' = read_start_state(m_has_noblocking_read, h.count)
                   /\ UNCHANGED failing
  BY DEF on_tcp_read
<1>2. PICK packets : packets = [i \in 1 .. n |-> arrived + i]
  OBVIOUS
<1>3. PICK h : h = HandOver(packets, m_has_noblocking_read, m_blocking_read_count)
  OBVIOUS
<1>4. /\ reading /\ ~failing
      /\ UNCHANGED <<readers, read_socket, read_timer, reads, delivered, read_handler>>
      /\ read_requests' = read_requests /\ m_has_noblocking_read' = m_has_noblocking_read
      /\ m_read_error' = m_read_error /\ read_closing' = read_closing
  BY DEF on_tcp_read
<1>5. /\ read_messages \in Seq(ReadAnswer) /\ Len(read_messages) \in Nat
      /\ arrived \in Nat /\ m_has_noblocking_read \in BOOLEAN
      /\ m_blocking_read_count \in Nat /\ MAX_PACKETS \in Nat /\ MAX_READS \in Nat
      /\ m_blocking_read_count <= MAX_READS
      /\ \A m : Times(read_requests, m) \in Nat
  BY ReadTypes DEF ReadTypeOK
<1>6. Wanted /\ ~Failed /\ m_read_cached_buffers = << >> /\ ReadSent = arrived
  <2>1. Wanted /\ ~Failed /\ m_read_cached_buffers = << >>
    BY <1>4 DEF ReadDemand
  <2>2. Len(m_read_cached_buffers) = 0
    BY <2>1
  <2>. QED BY <1>5, <2>1, <2>2 DEF ReadSent
<1>7. /\ packets \in Seq(Packet) /\ Len(packets) = n
      /\ \A i \in 1 .. n : packets[i] = arrived + i
  <2>1. ASSUME NEW i \in 1 .. n PROVE arrived + i \in Packet
    BY <1>1, <1>5, <2>1 DEF Packet
  <2>2. packets \in [1 .. n -> Packet] /\ n \in Nat
    BY <1>1, <1>2, <2>1
  <2>3. packets \in Seq(Packet)
    BY <2>2
  <2>. QED BY <1>2, <2>2, <2>3
<1>8. HandsOver(packets, m_has_noblocking_read, m_blocking_read_count, h)
  BY <1>3, <1>5, <1>7, HandedOver
<1>9. m_read_cached_buffers \o h.rest = h.rest
  <2>1. h.rest \in Seq(Packet) /\ m_read_cached_buffers = << >>
    BY <1>6, <1>8 DEF HandsOver
  <2>2. << >> \o h.rest = h.rest
    BY <2>1, ConcatEmptySeq
  <2>. QED BY <2>1, <2>2
<1>10. /\ arrived' = arrived + n /\ m_blocking_read_count' = h.count
       /\ IF error
          THEN /\ SendReadError(read_messages \o h.sent, h.rest)
               /\ reading' = FALSE
          ELSE /\ read_messages' = read_messages \o h.sent
               /\ m_read_cached_buffers' = h.rest
               /\ reading' = read_start_state(m_has_noblocking_read, h.count)
               /\ failing' = failing
  BY <1>1, <1>2, <1>3, <1>9
\* What is sent: all the packets before an error, else those that are wanted.
<1>11. PICK t : t = IF error THEN h.sent \o BuffersOf(h.rest) ELSE h.sent
  OBVIOUS
<1>12. /\ t \in Seq({"buffer"} \X Packet) /\ Len(t) \in Nat
       /\ m_read_cached_buffers' \in Seq(Packet)
       /\ Len(t) + Len(m_read_cached_buffers') = n
       /\ \A i \in 1 .. Len(t) : t[i] = Buffer(packets[i])
       /\ m_read_cached_buffers' = (IF error THEN << >> ELSE h.rest)
       /\ read_messages' =
              IF error THEN Append(read_messages \o t, ReadError) ELSE read_messages \o t
       /\ failing' = error
  <2>1. CASE error
    <3>1. /\ t \in Seq({"buffer"} \X Packet) /\ Len(t) = Len(packets)
          /\ \A i \in 1 .. Len(t) : t[i] = Buffer(packets[i])
      <4>1. t = h.sent \o BuffersOf(h.rest) /\ packets \in Seq(Packet)
        BY <1>7, <1>11, <2>1
      <4>2. Announces(t, packets)
        BY <1>3, <1>5, <4>1, AllHandedOver
      <4>. QED BY <4>2 DEF Announces
    <3>2. (read_messages \o h.sent) \o BuffersOf(h.rest) = read_messages \o t
      <4>1. PICK b : b = BuffersOf(h.rest)
        OBVIOUS
      <4>2. PICK s : s = h.sent
        OBVIOUS
      <4>3. s \in Seq(ReadAnswer) /\ b \in Seq(ReadAnswer)
        <5>1. h.rest \in Seq(Packet) /\ s \in Seq({"buffer"} \X Packet)
          BY <1>8, <4>2 DEF HandsOver
        <5>2. b \in Seq({"buffer"} \X Packet)
          BY <4>1, <5>1, AsBuffers
        <5>. QED BY <5>1, <5>2, ReadMessages
      <4>4. (read_messages \o s) \o b = read_messages \o (s \o b)
        BY <1>5, <4>3, ConcatAssociative
      <4>. QED BY <1>11, <2>1, <4>1, <4>2, <4>4
    <3>3. /\ read_messages' = Append(read_messages \o t, ReadError)
          /\ m_read_cached_buffers' = << >> /\ failing' = TRUE
      BY <1>10, <2>1, <3>2 DEF SendReadError
    <3>4. Len(m_read_cached_buffers') = 0 /\ m_read_cached_buffers' \in Seq(Packet)
      BY <3>3
    <3>. QED BY <1>1, <1>7, <2>1, <3>1, <3>3, <3>4
  <2>2. CASE ~error
    <3>1. /\ t = h.sent /\ m_read_cached_buffers' = h.rest
          /\ read_messages' = read_messages \o t /\ failing' = failing
      BY <1>10, <1>11, <2>2
    <3>2. /\ t \in Seq({"buffer"} \X Packet) /\ Len(t) \in Nat
          /\ h.rest \in Seq(Packet) /\ Len(t) + Len(h.rest) = n
          /\ \A i \in 1 .. Len(t) : t[i] = Buffer(packets[i])
      BY <1>7, <1>8, <3>1 DEF HandsOver
    <3>3. failing' = error
      BY <1>4, <2>2, <3>1 DEF ReadTypeOK
    <3>. QED BY <2>2, <3>1, <3>2, <3>3
  <2>. QED BY <2>1, <2>2
<1>13. ReadSent' = ReadSent + Len(t) /\ Len(m_read_cached_buffers') \in Nat
  <2>1. Len(m_read_cached_buffers') \in Nat
    BY <1>12
  <2>2. ReadSent' = arrived' - Len(m_read_cached_buffers')
    BY DEF ReadSent
  <2>3. /\ n \in Nat /\ Len(t) + Len(m_read_cached_buffers') = n /\ Len(t) \in Nat
        /\ arrived' = arrived + n /\ ReadSent = arrived
    BY <1>1, <1>6, <1>10, <1>12
  <2>. QED BY <1>5, <2>1, <2>2, <2>3
<1>14. /\ read_messages' \in Seq(ReadAnswer) /\ PacketsPlaced' /\ ErrorIsLast'
       /\ \A e : Contains(read_messages, e) => Contains(read_messages', e)
       /\ \A r : Contains(read_messages', ReadExpired(r)) =>
                     Contains(read_messages, ReadExpired(r))
       /\ read_messages' = read_messages \o t => ~Contains(read_messages', ReadError)
  <2>1. ~Contains(read_messages, ReadError)
    BY <1>6 DEF ReadErrors
  <2>2. ASSUME NEW i \in 1 .. Len(t) PROVE t[i][2] = ReadSent + i
    <3>1. i \in 1 .. n
      BY <1>1, <1>12, <1>13, <2>2
    <3>2. t[i] = Buffer(packets[i]) /\ packets[i] = arrived + i
      BY <1>7, <1>12, <3>1
    <3>. QED BY <1>6, <3>2 DEF Buffer
  <2>3. \A i \in 1 .. Len(m_read_cached_buffers') :
            m_read_cached_buffers'[i] = ReadSent' + i
    <3>1. CASE error
      <4>1. Len(m_read_cached_buffers') = 0
        BY <1>12, <3>1
      <4>. QED BY <4>1
    <3>2. CASE ~error
      <4>1. ASSUME NEW i \in 1 .. Len(h.rest) PROVE h.rest[i] = ReadSent' + i
        <5>1. /\ h.rest[i] = packets[Len(t) + i]
              /\ Len(t) + Len(h.rest) = n /\ Len(h.rest) \in Nat
          BY <1>8, <1>11, <1>12, <3>2, <4>1 DEF HandsOver
        <5>2. Len(t) + i \in 1 .. n
          BY <1>1, <1>12, <4>1, <5>1
        <5>3. packets[Len(t) + i] = arrived + (Len(t) + i)
          BY <1>7, <5>2
        <5>. QED BY <1>5, <1>6, <1>12, <1>13, <4>1, <5>1, <5>3
      <4>. QED BY <1>12, <3>2, <4>1
    <3>. QED BY <3>1, <3>2
  <2>4. /\ read_closed' = read_closed /\ delivered' = delivered
        /\ m_read_overflow_buffers' = m_read_overflow_buffers
    BY <1>4 DEF read_socket
  <2>5. \/ read_messages' = read_messages \o t
        \/ read_messages' = Append(read_messages \o t, ReadError)
    BY <1>12
  <2>. QED BY <1>12, <1>13, <2>1, <2>2, <2>3, <2>4, <2>5, PacketsSent
<1>15. /\ m_blocking_read_count' \in Nat /\ m_blocking_read_count' <= m_blocking_read_count
       /\ ~m_has_noblocking_read /\ ~error =>
              m_blocking_read_count' + Len(t) = m_blocking_read_count
       /\ m_has_noblocking_read \/ m_blocking_read_count' > 0 =>
              m_read_cached_buffers' = << >>
  BY <1>8, <1>10, <1>11, <1>12 DEF HandsOver
<1>16. ReadTypeOK'
  <2>1. /\ read_sessions' = read_sessions /\ read_callback' = read_callback
        /\ m_read_timeout_session_count' = m_read_timeout_session_count
        /\ m_read_overflow_buffers' = m_read_overflow_buffers
        /\ read_closed' = read_closed /\ read_timer' = read_timer /\ reads' = reads
        /\ delivered' = delivered
        /\ read_pc' = read_pc /\ read_back' = read_back /\ read_current' = read_current
        /\ read_left' = read_left
    BY <1>4 DEF readers, read_socket, read_handler
  <2>2. arrived' \in 0 .. MAX_PACKETS
    BY <1>1, <1>5, <1>10
  <2>3. m_blocking_read_count' \in 0 .. MAX_READS
    BY <1>5, <1>15
  <2>4. reading' \in BOOLEAN /\ failing' \in BOOLEAN
    BY <1>10, <1>12 DEF read_start_state
  <2>. QED BY <1>4, <1>12, <1>14, <2>1, <2>2, <2>3, <2>4 DEF ReadTypeOK
<1>17. ReadDemand'
  <2>1. /\ read_closed' = read_closed /\ read_callback' = read_callback
        /\ m_read_timeout_session_count' = m_read_timeout_session_count
        /\ read_sessions' = read_sessions /\ delivered' = delivered
        /\ TimingOut' = TimingOut
    BY <1>4 DEF readers, read_socket, read_handler, TimingOut, ReadingAt
  <2>2. ASSUME error PROVE ReadDemand'
    <3>1. /\ Failed' /\ ~reading' /\ m_read_cached_buffers' = << >>
      BY <1>10, <1>12, <2>2 DEF Failed
    <3>. QED BY <1>4, <2>1, <3>1 DEF ReadDemand
  <2>3. ASSUME ~error PROVE ReadDemand'
    <3>1. /\ Failed' = Failed /\ reading' = Wanted'
          /\ Wanted' => m_read_cached_buffers' = << >>
      BY <1>4, <1>10, <1>12, <1>15, <2>3 DEF Failed, Wanted, read_start_state
    <3>2. ASSUME ~read_closed, ~read_callback
          PROVE  Len(read_requests) + m_blocking_read_count' + (ReadSent' - Len(delivered))
                     = Len(read_sessions) + m_read_timeout_session_count + TimingOut
      <4>1. Len(read_requests) + m_blocking_read_count + (ReadSent - Len(delivered))
                = Len(read_sessions) + m_read_timeout_session_count + TimingOut
        BY <1>6, <3>2 DEF ReadDemand
      <4>2. m_blocking_read_count' + Len(t) = m_blocking_read_count
        BY <1>15, <2>3, <3>2 DEF ReadDemand
      <4>3. /\ Len(read_requests) \in Nat /\ ReadSent \in Int /\ Len(delivered) \in Nat
            /\ Len(t) \in Nat /\ m_blocking_read_count' \in Nat
        BY <1>12, <1>15, ReadTypes
      <4>. QED BY <1>13, <4>1, <4>2, <4>3
    <3>. QED BY <1>4, <1>6, <2>1, <3>1, <3>2 DEF ReadDemand
  <2>. QED BY <2>2, <2>3
<1>18. ReadErrors' /\ ReadBounds' /\ ReadersTold'
  <2>1. Contains(read_messages', ReadError) => Failed'
    BY <1>12, <1>14 DEF Failed
  <2>2. m_blocking_read_count' + Times(read_requests', "blocking") <= reads
    <3>1. reads \in Nat /\ m_blocking_read_count + Times(read_requests, "blocking") <= reads
      BY ReadTypes DEF ReadBounds
    <3>. QED BY <1>4, <1>5, <1>15, <3>1
  <2>3. read_closing' \/ Contains(read_requests', "close") => read_closed
    BY <1>4 DEF ReadersTold
  <2>4. Failed => Failed'
    BY <1>6
  <2>. QED BY <1>4, <1>14, <2>1, <2>2, <2>3, <2>4, ContextKept
<1>. QED BY <1>14, <1>16, <1>17, <1>18

\* The context asks for packets.
LEMMA TcpReadAsked ==
    ASSUME ReadInv, NEW blocking \in BOOLEAN, tcp_read(blocking)
    PROVE  ReadInv'
<1>. USE DEF ReadInv
<1>1. PICK tag : tag = IF blocking THEN "blocking" ELSE "nonblocking"
  OBVIOUS
<1>2. PICK noblocking : noblocking = (m_has_noblocking_read \/ ~blocking)
  OBVIOUS
<1>3. PICK count : count = m_blocking_read_count + (IF blocking THEN 1 ELSE 0)
  OBVIOUS
<1>4. PICK h : h = HandOver(m_read_cached_buffers, noblocking, count)
  OBVIOUS
<1>5. /\ read_requests # << >> /\ Head(read_requests) = tag
      /\ read_requests' = Tail(read_requests) /\ ~failing
      /\ UNCHANGED <<readers, read_socket, read_timer, reads, delivered, read_handler>>
  BY <1>1 DEF tcp_read, ReadRequest
<1>6. /\ read_messages \in Seq(ReadAnswer) /\ Len(read_messages) \in Nat
      /\ m_has_noblocking_read \in BOOLEAN /\ m_blocking_read_count \in Nat
      /\ MAX_READS \in Nat /\ reads \in Nat /\ reads <= MAX_READS
      /\ m_read_cached_buffers \in Seq(Packet) /\ read_requests \in Seq(ReadKind)
      /\ Len(m_read_cached_buffers) \in Nat /\ Len(read_requests) \in Nat
      /\ Times(read_requests, "blocking") \in Nat
  BY ReadTypes DEF ReadTypeOK
<1>7. /\ read_requests' \in Seq(ReadKind) /\ read_requests[1] = tag
      /\ Shorter(read_requests, read_requests')
  <2>1. read_requests' \in Seq(ReadKind) /\ Shorter(read_requests, read_requests')
    BY <1>5, <1>6, TakeFirst
  <2>. QED BY <1>5, <2>1 DEF Shorter
<1>8. /\ Len(read_requests') = Len(read_requests) - 1
      /\ \A e : Contains(read_requests', e) => Contains(read_requests, e)
      /\ \A e : Contains(read_requests, e) => Contains(read_requests', e) \/ e = tag
      /\ Contains(read_requests, tag)
  <2>1. Contains(read_requests, tag)
    BY <1>7 DEF Shorter, Contains
  <2>. QED BY <1>7, <2>1 DEF Shorter
<1>9. Times(read_requests, "blocking")
          = Times(read_requests', "blocking") + (IF blocking THEN 1 ELSE 0)
  BY <1>1, <1>7, TimesShorter
<1>10. Times(read_requests', "blocking") \in Nat
  <2>1. Len(read_requests') \in Nat
    BY <1>7
  <2>. QED BY <2>1, PlacesFinite
<1>11. /\ read_sessions' = read_sessions /\ read_callback' = read_callback
       /\ m_read_timeout_session_count' = m_read_timeout_session_count
       /\ m_read_overflow_buffers' = m_read_overflow_buffers
       /\ read_closed' = read_closed /\ read_timer' = read_timer /\ reads' = reads
       /\ delivered' = delivered
       /\ read_pc' = read_pc /\ read_back' = read_back /\ read_current' = read_current
       /\ read_left' = read_left /\ TimingOut' = TimingOut
  BY <1>5 DEF readers, read_socket, read_handler, TimingOut, ReadingAt
<1>12. CASE m_read_error
  <2>1. /\ read_messages' = read_messages
        /\ m_blocking_read_count' = m_blocking_read_count
        /\ m_has_noblocking_read' = m_has_noblocking_read
        /\ m_read_cached_buffers' = m_read_cached_buffers /\ reading' = reading
        /\ arrived' = arrived /\ read_closing' = read_closing /\ failing' = failing
        /\ m_read_error' = m_read_error
    BY <1>12 DEF tcp_read, read_net, read_demand, read_stream
  <2>2. ReadTypeOK'
    BY <1>7, <1>11, <2>1 DEF ReadTypeOK, ReadKind
  <2>3. ReadSent' = ReadSent /\ Kept' = Kept /\ Failed' = Failed /\ Wanted' = Wanted
    BY <1>11, <2>1 DEF ReadSent, Kept, Failed, Wanted
  <2>4. PacketsPlaced' /\ ErrorIsLast'
    BY <1>11, <2>1, <2>3 DEF PacketsPlaced, ErrorIsLast
  <2>5. ReadDemand'
    BY <1>8, <1>11, <1>12, <2>1, <2>3 DEF ReadDemand, Failed
  <2>6. ReadErrors' /\ ReadBounds' /\ ReadersTold'
    <3>1. m_blocking_read_count' + Times(read_requests', "blocking") <= reads
      BY <1>6, <1>9, <1>10, <2>1 DEF ReadBounds
    <3>2. read_closing' \/ Contains(read_requests', "close") => read_closed
      BY <1>8, <2>1 DEF ReadersTold
    <3>3. Contains(read_messages', ReadError) => Failed'
      BY <2>1, <2>3 DEF ReadErrors
    <3>. QED BY <1>5, <2>1, <2>3, <3>1, <3>2, <3>3, ContextKept
  <2>. QED BY <2>2, <2>4, <2>5, <2>6
<1>13. CASE ~m_read_error
  <2>1. PICK error \in BOOLEAN :
           /\ m_has_noblocking_read' = noblocking /\ m_blocking_read_count' = h.count
           /\ IF error
              THEN /\ ~Wanted /\ reading' = reading
                   /\ SendReadError(read_messages \o h.sent, h.rest)
              ELSE /\ read_messages' = read_messages \o h.sent
                   /\ m_read_cached_buffers' = h.rest /\ failing' = failing
                   /\ reading' = (reading \/ (~Wanted /\ (noblocking \/ h.count > 0)))
           /\ arrived' = arrived /\ m_read_error' = m_read_error
           /\ read_closing' = read_closing
    <3>1. \/ /\ read_messages' = read_messages \o h.sent
             /\ m_read_cached_buffers' = h.rest /\ failing' = failing
             /\ reading' = (reading \/ StartAfter(Wanted, h, noblocking))
          \/ /\ StartAfter(Wanted, h, noblocking)
             /\ SendReadError(read_messages \o h.sent, h.rest)
             /\ reading' = reading
      BY <1>2, <1>3, <1>4, <1>13 DEF tcp_read, Wanted
    <3>2. StartAfter(Wanted, h, noblocking) = (~Wanted /\ (noblocking \/ h.count > 0))
      BY DEF StartAfter, read_start_state
    <3>3. /\ m_has_noblocking_read' = noblocking /\ m_blocking_read_count' = h.count
          /\ arrived' = arrived /\ m_read_error' = m_read_error
          /\ read_closing' = read_closing
      BY <1>2, <1>3, <1>4, <1>13 DEF tcp_read
    <3>4. CASE StartAfter(Wanted, h, noblocking) /\ reading' = reading
               /\ SendReadError(read_messages \o h.sent, h.rest)
      BY <3>2, <3>3, <3>4
    <3>5. CASE /\ read_messages' = read_messages \o h.sent
               /\ m_read_cached_buffers' = h.rest /\ failing' = failing
               /\ reading' = (reading \/ StartAfter(Wanted, h, noblocking))
      BY <3>2, <3>3, <3>5
    <3>. QED BY <3>1, <3>4, <3>5
  <2>2. ~Failed /\ count \in Nat /\ noblocking \in BOOLEAN
    BY <1>2, <1>3, <1>5, <1>6, <1>13 DEF Failed
  <2>3. HandsOver(m_read_cached_buffers, noblocking, count, h)
    BY <1>4, <1>6, <2>2, HandedOver
\* What is sent: all the packets before an error, else those that are wanted.
  <2>4. PICK t : t = IF error THEN h.sent \o BuffersOf(h.rest) ELSE h.sent
    OBVIOUS
  <2>5. /\ t \in Seq({"buffer"} \X Packet) /\ Len(t) \in Nat
        /\ m_read_cached_buffers' \in Seq(Packet)
        /\ Len(m_read_cached_buffers') \in Nat
        /\ Len(t) + Len(m_read_cached_buffers') = Len(m_read_cached_buffers)
        /\ \A i \in 1 .. Len(t) : t[i] = Buffer(m_read_cached_buffers[i])
        /\ m_read_cached_buffers' = (IF error THEN << >> ELSE h.rest)
        /\ read_messages' =
               IF error THEN Append(read_messages \o t, ReadError) ELSE read_messages \o t
        /\ failing' = error
    <3>1. CASE error
      <4>1. /\ t \in Seq({"buffer"} \X Packet) /\ Len(t) = Len(m_read_cached_buffers)
            /\ \A i \in 1 .. Len(t) : t[i] = Buffer(m_read_cached_buffers[i])
        <5>1. t = h.sent \o BuffersOf(h.rest)
          BY <2>4, <3>1
        <5>2. Announces(t, m_read_cached_buffers)
          BY <1>4, <1>6, <2>2, <5>1, AllHandedOver
        <5>. QED BY <5>2 DEF Announces
      <4>2. (read_messages \o h.sent) \o BuffersOf(h.rest) = read_messages \o t
        <5>1. PICK b : b = BuffersOf(h.rest)
          OBVIOUS
        <5>2. PICK s : s = h.sent
          OBVIOUS
        <5>3. s \in Seq(ReadAnswer) /\ b \in Seq(ReadAnswer)
          <6>1. h.rest \in Seq(Packet) /\ s \in Seq({"buffer"} \X Packet)
            BY <2>3, <5>2 DEF HandsOver
          <6>2. b \in Seq({"buffer"} \X Packet)
            BY <5>1, <6>1, AsBuffers
          <6>. QED BY <6>1, <6>2, ReadMessages
        <5>4. (read_messages \o s) \o b = read_messages \o (s \o b)
          <6>1. read_messages \in Seq(ReadAnswer)
            BY <1>6
          <6>. QED BY <5>3, <6>1, ConcatAssociative
        <5>5. t = s \o b
          BY <2>4, <3>1, <5>1, <5>2
        <5>. QED BY <5>1, <5>2, <5>4, <5>5
      <4>3. /\ read_messages' = Append(read_messages \o t, ReadError)
            /\ m_read_cached_buffers' = << >> /\ failing' = TRUE
        BY <2>1, <3>1, <4>2 DEF SendReadError
      <4>4. Len(m_read_cached_buffers') = 0 /\ m_read_cached_buffers' \in Seq(Packet)
        BY <4>3
      <4>. QED BY <1>6, <3>1, <4>1, <4>3, <4>4
    <3>2. CASE ~error
      <4>1. /\ t = h.sent /\ m_read_cached_buffers' = h.rest
            /\ read_messages' = read_messages \o t /\ failing' = failing
        BY <2>1, <2>4, <3>2
      <4>2. /\ t \in Seq({"buffer"} \X Packet) /\ Len(t) \in Nat
            /\ h.rest \in Seq(Packet) /\ Len(h.rest) \in Nat
            /\ Len(t) + Len(h.rest) = Len(m_read_cached_buffers)
            /\ \A i \in 1 .. Len(t) : t[i] = Buffer(m_read_cached_buffers[i])
        BY <2>3, <4>1 DEF HandsOver
      <4>3. failing' = error
        BY <1>5, <3>2, <4>1 DEF ReadTypeOK
      <4>. QED BY <3>2, <4>1, <4>2, <4>3
    <3>. QED BY <3>1, <3>2
  <2>6. ReadSent' = ReadSent + Len(t)
    <3>1. /\ ReadSent' = arrived' - Len(m_read_cached_buffers')
          /\ ReadSent = arrived - Len(m_read_cached_buffers)
      BY DEF ReadSent
    <3>2. arrived \in Nat /\ arrived' = arrived
      BY <2>1, ReadTypes
    <3>3. /\ Len(t) \in Nat /\ Len(m_read_cached_buffers') \in Nat
          /\ Len(m_read_cached_buffers) \in Nat
          /\ Len(t) + Len(m_read_cached_buffers') = Len(m_read_cached_buffers)
      BY <1>6, <2>5
    <3>. QED BY <3>1, <3>2, <3>3
  <2>7. /\ read_messages' \in Seq(ReadAnswer) /\ PacketsPlaced' /\ ErrorIsLast'
        /\ \A e : Contains(read_messages, e) => Contains(read_messages', e)
        /\ \A r : Contains(read_messages', ReadExpired(r)) =>
                      Contains(read_messages, ReadExpired(r))
        /\ read_messages' = read_messages \o t => ~Contains(read_messages', ReadError)
    <3>1. ~Contains(read_messages, ReadError)
      BY <2>2 DEF ReadErrors
    <3>2. ~read_closed => \A i \in 1 .. Len(t) : t[i][2] = ReadSent + i
      <4>1. ASSUME ~read_closed, NEW i \in 1 .. Len(t) PROVE t[i][2] = ReadSent + i
        <5>1. i \in 1 .. Len(m_read_cached_buffers)
          BY <1>6, <2>5, <4>1
        <5>. QED BY <2>5, <4>1, <5>1 DEF Buffer, PacketsPlaced
      <4>. QED BY <4>1
    <3>3. ~read_closed => \A i \in 1 .. Len(m_read_cached_buffers') :
                              m_read_cached_buffers'[i] = ReadSent' + i
      <4>1. CASE error
        <5>1. Len(m_read_cached_buffers') = 0
          BY <2>5, <4>1
        <5>. QED BY <5>1
      <4>2. CASE ~error
        <5>1. ASSUME ~read_closed, NEW i \in 1 .. Len(h.rest)
              PROVE  h.rest[i] = ReadSent' + i
          <6>1. /\ h.rest[i] = m_read_cached_buffers[Len(t) + i]
                /\ Len(t) + Len(h.rest) = Len(m_read_cached_buffers)
                /\ Len(h.rest) \in Nat
            BY <2>3, <2>4, <4>2, <5>1 DEF HandsOver
          <6>2. Len(t) + i \in 1 .. Len(m_read_cached_buffers)
            BY <1>6, <2>5, <5>1, <6>1
          <6>3. m_read_cached_buffers[Len(t) + i] = ReadSent + (Len(t) + i)
            BY <5>1, <6>2 DEF PacketsPlaced
          <6>4. ReadSent \in Int
            BY ReadTypes
          <6>. QED BY <2>5, <2>6, <5>1, <6>1, <6>3, <6>4
        <5>. QED BY <2>5, <4>2, <5>1
      <4>. QED BY <4>1, <4>2
    <3>4. \/ read_messages' = read_messages \o t
          \/ read_messages' = Append(read_messages \o t, ReadError)
      BY <2>5
    <3>. QED BY <1>11, <2>5, <2>6, <3>1, <3>2, <3>3, <3>4, PacketsSent
  <2>8. /\ m_blocking_read_count' \in Nat /\ m_blocking_read_count' <= count
        /\ ~noblocking /\ ~error => m_blocking_read_count' + Len(t) = count
        /\ noblocking \/ m_blocking_read_count' > 0 => m_read_cached_buffers' = << >>
        /\ m_read_cached_buffers = << >> => m_blocking_read_count' = count
    BY <2>1, <2>3, <2>4, <2>5 DEF HandsOver
  <2>9. m_blocking_read_count' + Times(read_requests', "blocking") <= reads
    BY <1>3, <1>6, <1>9, <1>10, <2>8 DEF ReadBounds
  <2>10. ReadTypeOK'
    <3>1. m_blocking_read_count' \in 0 .. MAX_READS
      BY <1>6, <1>10, <2>8, <2>9
    <3>2. reading' \in BOOLEAN /\ failing' \in BOOLEAN /\ m_has_noblocking_read' \in BOOLEAN
      BY <2>1, <2>2, <2>5 DEF ReadTypeOK
    <3>. QED BY <1>7, <1>11, <2>1, <2>5, <2>7, <3>1, <3>2 DEF ReadTypeOK, ReadKind
  <2>11. ReadDemand'
    <3>1. /\ Wanted' = (noblocking \/ m_blocking_read_count' > 0)
          /\ Wanted = (m_has_noblocking_read \/ m_blocking_read_count > 0)
      BY <2>1 DEF Wanted, read_start_state
    <3>2. Wanted => Wanted'
      <4>1. ASSUME Wanted PROVE m_blocking_read_count' = count
        BY <2>8, <4>1 DEF ReadDemand
      <4>. QED BY <1>2, <1>3, <1>6, <3>1, <4>1
    <3>3. /\ reading' => Wanted' /\ ~Failed'
          /\ Wanted' => m_read_cached_buffers' = << >>
          /\ Wanted' /\ ~Failed' /\ ~read_closing' => reading'
      <4>1. CASE error
        <5>1. ~reading' /\ Failed'
          BY <2>1, <2>5, <4>1 DEF ReadDemand, Failed
        <5>. QED BY <2>5, <4>1, <5>1
      <4>2. CASE ~error
        <5>1. /\ reading' = (reading \/ (~Wanted /\ Wanted')) /\ ~Failed'
          BY <1>13, <2>1, <2>2, <2>5, <3>1, <4>2 DEF Failed
        <5>2. Wanted /\ ~read_closing => reading
          BY <2>2 DEF ReadDemand
        <5>3. reading => Wanted
          BY DEF ReadDemand
        <5>. QED BY <2>1, <2>8, <3>1, <3>2, <5>1, <5>2, <5>3
      <4>. QED BY <4>1, <4>2
    <3>4. read_callback => noblocking \/ Contains(read_requests', "nonblocking")
      BY <1>1, <1>2, <1>8, <1>13 DEF ReadDemand
    <3>5. noblocking \/ Contains(read_requests', "nonblocking") =>
              read_callback \/ read_closed
      BY <1>1, <1>2, <1>8 DEF ReadDemand
    <3>6. ASSUME ~read_closed, ~read_callback, ~error
          PROVE  Len(read_requests') + m_blocking_read_count' + (ReadSent' - Len(delivered))
                     = Len(read_sessions) + m_read_timeout_session_count + TimingOut
      <4>1. Len(read_requests) + m_blocking_read_count + (ReadSent - Len(delivered))
                = Len(read_sessions) + m_read_timeout_session_count + TimingOut
        BY <2>2, <3>6 DEF ReadDemand
      <4>2. ~noblocking /\ count = m_blocking_read_count + 1
        BY <1>2, <1>3, <3>5, <3>6
      <4>3. PICK less, lessNow :
                less = m_blocking_read_count /\ lessNow = m_blocking_read_count'
        OBVIOUS
      <4>4. /\ ReadSent \in Int /\ Len(delivered) \in Nat
            /\ Len(read_requests) \in Nat /\ less \in Nat
            /\ Len(t) \in Nat /\ lessNow \in Nat
        BY <1>6, <2>5, <2>8, <4>3, ReadTypes
      <4>5. /\ Len(read_requests) + less + (ReadSent - Len(delivered))
                   = Len(read_sessions) + m_read_timeout_session_count + TimingOut
            /\ lessNow + Len(t) = less + 1
            /\ Len(read_requests') = Len(read_requests) - 1
            /\ ReadSent' = ReadSent + Len(t)
        BY <1>8, <2>6, <2>8, <3>6, <4>1, <4>2, <4>3
      <4>6. Len(read_requests') + lessNow + (ReadSent' - Len(delivered))
                = Len(read_requests) + less + (ReadSent - Len(delivered))
        BY <4>4, <4>5
      <4>. QED BY <4>3, <4>5, <4>6
    <3>7. ~Failed' => ~error
      BY <2>5 DEF Failed
    <3>. QED BY <1>11, <2>1, <3>3, <3>4, <3>5, <3>6, <3>7 DEF ReadDemand
  <2>12. ReadErrors' /\ ReadBounds' /\ ReadersTold'
    <3>1. Contains(read_messages', ReadError) => Failed'
      BY <2>5, <2>7 DEF Failed
    <3>2. read_closing' \/ Contains(read_requests', "close") => read_closed
      BY <1>8, <2>1 DEF ReadersTold
    <3>3. Failed => Failed'
      BY <2>2
    <3>. QED BY <1>5, <2>7, <2>9, <3>1, <3>2, <3>3, ContextKept
  <2>. QED BY <2>7, <2>10, <2>11, <2>12
<1>. QED BY <1>12, <1>13

\* The error is published; the network thread closes the socket.
LEMMA PublishOrClose ==
    ASSUME ReadInv, publish_read_error \/ close_read_handle
    PROVE  ReadInv'
<1>. USE DEF ReadInv
<1>1. CASE publish_read_error
  <2>1. /\ UNCHANGED <<readers, read_socket, read_timer, reads, delivered, read_handler>>
        /\ failing /\ failing' = FALSE /\ m_read_error' = TRUE
        /\ read_messages' = read_messages /\ read_requests' = read_requests
        /\ m_blocking_read_count' = m_blocking_read_count
        /\ m_has_noblocking_read' = m_has_noblocking_read
        /\ m_read_cached_buffers' = m_read_cached_buffers /\ reading' = reading
        /\ arrived' = arrived /\ read_closing' = read_closing
        /\ read_sessions' = read_sessions /\ read_callback' = read_callback
        /\ m_read_timeout_session_count' = m_read_timeout_session_count
        /\ m_read_overflow_buffers' = m_read_overflow_buffers
        /\ read_closed' = read_closed /\ read_timer' = read_timer /\ reads' = reads
        /\ delivered' = delivered
        /\ read_pc' = read_pc /\ read_back' = read_back /\ read_current' = read_current
        /\ read_left' = read_left
    BY <1>1 DEF publish_read_error, read_lua, readers, read_socket, read_handler,
                read_demand, read_stream
  <2>2. ReadTypeOK'
    BY <2>1 DEF ReadTypeOK
  <2>3. ReadSent' = ReadSent /\ Kept' = Kept /\ Failed' /\ Failed /\ Wanted' = Wanted
    BY <2>1 DEF ReadSent, Kept, Failed, Wanted
  <2>4. PacketsPlaced' /\ ErrorIsLast'
    BY <2>1, <2>3 DEF PacketsPlaced, ErrorIsLast
  <2>5. ReadDemand'
    BY <2>1, <2>3 DEF ReadDemand
  <2>6. ReadErrors' /\ ReadBounds' /\ ReadersTold'
    <3>1. m_blocking_read_count' + Times(read_requests', "blocking") <= reads
      BY <2>1 DEF ReadBounds
    <3>2. read_closing' \/ Contains(read_requests', "close") => read_closed
      BY <2>1 DEF ReadersTold
    <3>. QED BY <2>1, <2>3, <3>1, <3>2, ContextKept
  <2>. QED BY <2>2, <2>4, <2>5, <2>6
<1>2. CASE close_read_handle
  <2>1. /\ UNCHANGED <<readers, read_socket, read_timer, reads, delivered, read_handler>>
        /\ read_requests # << >> /\ Head(read_requests) = "close"
        /\ read_requests' = Tail(read_requests)
        /\ failing' = failing /\ m_read_error' = m_read_error
        /\ read_messages' = read_messages
        /\ m_blocking_read_count' = m_blocking_read_count
        /\ m_has_noblocking_read' = m_has_noblocking_read
        /\ m_read_cached_buffers' = m_read_cached_buffers /\ reading' = FALSE
        /\ arrived' = arrived /\ read_closing' = TRUE
        /\ read_sessions' = read_sessions /\ read_callback' = read_callback
        /\ m_read_timeout_session_count' = m_read_timeout_session_count
        /\ m_read_overflow_buffers' = m_read_overflow_buffers
        /\ read_closed' = read_closed /\ read_timer' = read_timer /\ reads' = reads
        /\ delivered' = delivered
        /\ read_pc' = read_pc /\ read_back' = read_back /\ read_current' = read_current
        /\ read_left' = read_left
    BY <1>2 DEF close_read_handle, ReadRequest, read_lua, readers, read_socket,
                read_handler, read_demand
  <2>2. read_requests \in Seq(ReadKind)
    BY ReadTypes
  <2>3. read_requests' \in Seq(ReadKind) /\ Shorter(read_requests, read_requests')
    BY <2>1, <2>2, TakeFirst
  <2>4. read_requests[1] = "close"
    BY <2>1, <2>3 DEF Shorter
  <2>5. read_closed
    <3>1. Contains(read_requests, "close")
      BY <2>3, <2>4 DEF Shorter, Contains
    <3>. QED BY <3>1 DEF ReadersTold
  <2>6. Times(read_requests, "blocking") = Times(read_requests', "blocking") + 0
    BY <2>3, <2>4, TimesShorter
  <2>7. Times(read_requests', "blocking") \in Nat
    <3>1. Len(read_requests') \in Nat
      BY <2>3
    <3>. QED BY <3>1, PlacesFinite
  <2>8. /\ Contains(read_requests, "nonblocking") => Contains(read_requests', "nonblocking")
        /\ \A e : Contains(read_requests', e) => Contains(read_requests, e)
    BY <2>3, <2>4 DEF Shorter
  <2>9. ReadTypeOK'
    BY <2>1, <2>3 DEF ReadTypeOK, ReadKind
  <2>10. ReadSent' = ReadSent /\ Kept' = Kept /\ Failed' = Failed /\ Wanted' = Wanted
    BY <2>1 DEF ReadSent, Kept, Failed, Wanted
  <2>11. PacketsPlaced' /\ ErrorIsLast'
    BY <2>1, <2>10 DEF PacketsPlaced, ErrorIsLast
  <2>12. ReadDemand'
    BY <2>1, <2>5, <2>8, <2>10 DEF ReadDemand
  <2>13. ReadErrors' /\ ReadBounds' /\ ReadersTold'
    <3>1. m_blocking_read_count' + Times(read_requests', "blocking") <= reads
      BY <2>1, <2>6, <2>7 DEF ReadBounds
    <3>2. Contains(read_messages', ReadError) => Failed'
      BY <2>1, <2>10 DEF ReadErrors
    <3>. QED BY <2>1, <2>5, <2>10, <3>1, <3>2, ContextKept
  <2>. QED BY <2>9, <2>11, <2>12, <2>13
<1>. QED BY <1>1, <1>2

-----------------------------------------------------------------------------
(* The context.                                                              *)

\* A message that is neither a packet nor an error.
LEMMA OtherReadMessage ==
    ASSUME ReadTypeOK, PacketsPlaced, ErrorIsLast,
           NEW m \in ReadAnswer, m[1] # "buffer", m # ReadError,
           read_messages' = Append(read_messages, m)
    PROVE  /\ read_messages' \in Seq(ReadAnswer) /\ ErrorIsLast'
           /\ ~read_closed => Ordered("buffer", read_messages', Kept, ReadSent)
           /\ \A e : Contains(read_messages', e) <=> Contains(read_messages, e) \/ e = m
<1>1. /\ read_messages \in Seq(ReadAnswer) /\ Kept \in Nat /\ ReadSent \in Int
  BY ReadTypes
<1>2. /\ read_messages' \in Seq(ReadAnswer) /\ Longer(read_messages, read_messages', m)
  BY <1>1, PutLast
<1>3. /\ Len(read_messages) \in Nat
      /\ \A i \in 1 .. Len(read_messages) : read_messages'[i] = read_messages[i]
      /\ read_messages'[Len(read_messages) + 1] = m
      /\ \A i \in 1 .. Len(read_messages') :
             i \in 1 .. Len(read_messages) \/ i = Len(read_messages) + 1
      /\ \A e : Contains(read_messages', e) <=> Contains(read_messages, e) \/ e = m
  BY <1>2 DEF Longer
<1>4. ErrorIsLast'
  <2>1. ASSUME NEW i \in 1 .. Len(read_messages'), NEW j \in 1 .. Len(read_messages'),
               read_messages'[i] = ReadError, read_messages'[j][1] = "buffer"
        PROVE  j < i
    <3>1. i \in 1 .. Len(read_messages) /\ read_messages[i] = ReadError
      BY <1>3, <2>1
    <3>2. j \in 1 .. Len(read_messages) /\ read_messages[j][1] = "buffer"
      BY <1>3, <2>1
    <3>. QED BY <3>1, <3>2 DEF ErrorIsLast
  <2>. QED BY <2>1 DEF ErrorIsLast
<1>5. ~read_closed => Ordered("buffer", read_messages', Kept, ReadSent)
  <2>. SUFFICES ASSUME ~read_closed PROVE Ordered("buffer", read_messages', Kept, ReadSent)
    OBVIOUS
  <2>1. ReadSent \in Nat /\ Ordered("buffer", read_messages, Kept, ReadSent)
    BY <1>1 DEF PacketsPlaced
  <2>. QED BY <1>1, <1>2, <2>1, OrderedOther
<1>. QED BY <1>2, <1>3, <1>4, <1>5

\* A timer expires.
LEMMA OnReadTimedout ==
    ASSUME ReadInv, NEW r \in Read, on_read_timedout(r)
    PROVE  ReadInv'
<1>. USE DEF ReadInv
<1>1. /\ read_timer[r] = "running" /\ read_timer' = [read_timer EXCEPT ![r] = "expired"]
      /\ read_messages' = Append(read_messages, ReadExpired(r))
      /\ read_requests' = read_requests
      /\ failing' = failing /\ m_read_error' = m_read_error
      /\ m_blocking_read_count' = m_blocking_read_count
      /\ m_has_noblocking_read' = m_has_noblocking_read
      /\ m_read_cached_buffers' = m_read_cached_buffers /\ reading' = reading
      /\ arrived' = arrived /\ read_closing' = read_closing
      /\ read_sessions' = read_sessions /\ read_callback' = read_callback
      /\ m_read_timeout_session_count' = m_read_timeout_session_count
      /\ m_read_overflow_buffers' = m_read_overflow_buffers
      /\ read_closed' = read_closed /\ reads' = reads
      /\ delivered' = delivered
      /\ read_pc' = read_pc /\ read_back' = read_back /\ read_current' = read_current
      /\ read_left' = read_left
  BY DEF on_read_timedout, readers, read_socket, read_handler, read_net, read_demand,
         read_stream
<1>2. /\ ReadExpired(r) \in ReadAnswer /\ ReadExpired(r)[1] # "buffer"
      /\ ReadExpired(r) # ReadError
  BY ReadMessages
<1>3. /\ read_messages' \in Seq(ReadAnswer) /\ ErrorIsLast'
      /\ ~read_closed => Ordered("buffer", read_messages', Kept, ReadSent)
      /\ \A e : Contains(read_messages', e)
                    <=> Contains(read_messages, e) \/ e = ReadExpired(r)
  BY <1>1, <1>2, OtherReadMessage
<1>4. ReadTypeOK'
  <2>1. read_timer' \in [Read -> {"none", "running", "expired", "closed"}]
    BY <1>1 DEF ReadTypeOK
  <2>. QED BY <1>1, <1>3, <2>1 DEF ReadTypeOK
<1>5. /\ ReadSent' = ReadSent /\ Kept' = Kept /\ Failed' = Failed /\ Wanted' = Wanted
      /\ TimingOut' = TimingOut /\ no_reader' = no_reader
      /\ WakingReaders' = WakingReaders
      /\ \A label : ReadingAt(label)' = ReadingAt(label)
  BY <1>1 DEF ReadSent, Kept, Failed, Wanted, TimingOut, ReadingAt, no_reader,
              WakingReaders
<1>6. PacketsPlaced'
  BY <1>1, <1>3, <1>5 DEF PacketsPlaced
<1>7. ReadDemand'
  BY <1>1, <1>5 DEF ReadDemand
<1>8. ReadErrors'
  <2>1. Contains(read_messages', ReadError) => Contains(read_messages, ReadError)
    BY <1>2, <1>3
  <2>. QED BY <1>1, <1>5, <2>1 DEF ReadErrors
<1>9. ReadBounds'
  <2>1. ASSUME NEW s \in Read
        PROVE  /\ read_timer'[s] = "running" => s <= reads
               /\ Contains(read_messages', ReadExpired(s)) =>
                      s <= reads /\ read_timer'[s] \in {"expired", "closed"}
               /\ read_timer'[s] \in {"running", "expired"} => Contains(read_sessions, s)
    <3>1. read_timer'[s] = IF s = r THEN "expired" ELSE read_timer[s]
      BY <1>1 DEF ReadTypeOK
    <3>2. s # r => ReadExpired(s) # ReadExpired(r)
      BY ReadMessages
    <3>. QED BY <1>1, <1>3, <3>1, <3>2 DEF ReadBounds
  <2>. QED BY <1>1, <1>5, <2>1 DEF ReadBounds
<1>10. ReadersTold'
  <2>1. /\ Contains(read_messages, ReadClosing) => Contains(read_messages', ReadClosing)
        /\ Contains(read_messages, ReadOverflow) => Contains(read_messages', ReadOverflow)
    BY <1>3
  <2>. QED BY <1>1, <1>5, <2>1 DEF ReadersTold
<1>. QED BY <1>3, <1>4, <1>6, <1>7, <1>8, <1>9, <1>10

\* Lua code comes and goes.
LEMMA ReaderRuns ==
    ASSUME ReadInv, return_from_reader \/ other_read_message \/ UNCHANGED readVars
    PROVE  ReadInv'
<1>. USE DEF ReadInv
<1>1. /\ read_messages' = read_messages /\ read_requests' = read_requests
      /\ failing' = failing /\ m_read_error' = m_read_error
      /\ m_blocking_read_count' = m_blocking_read_count
      /\ m_has_noblocking_read' = m_has_noblocking_read
      /\ m_read_cached_buffers' = m_read_cached_buffers /\ reading' = reading
      /\ arrived' = arrived /\ read_closing' = read_closing
      /\ read_sessions' = read_sessions /\ read_callback' = read_callback
      /\ m_read_timeout_session_count' = m_read_timeout_session_count
      /\ m_read_overflow_buffers' = m_read_overflow_buffers
      /\ read_closed' = read_closed /\ reads' = reads /\ read_timer' = read_timer
      /\ delivered' = delivered /\ read_current' = read_current
      /\ read_left' = read_left
  BY DEF return_from_reader, other_read_message, readVars, read_lua, readers,
         read_socket, read_handler, read_net, read_demand, read_stream
<1>2. \/ read_pc = "lua" /\ read_pc' = read_back /\ read_back' = read_back
      \/ read_pc = "idle" /\ read_pc' = "lua" /\ read_back' = "idle"
      \/ read_pc' = read_pc /\ read_back' = read_back
  BY DEF return_from_reader, other_read_message, readVars, read_lua, read_handler
<1>3. ReadTypeOK'
  BY <1>1, <1>2 DEF ReadTypeOK
<1>4. \A label : ReadingAt(label)' = ReadingAt(label)
  BY <1>2 DEF ReadingAt, ReadTypeOK
<1>5. /\ ReadSent' = ReadSent /\ Kept' = Kept /\ Failed' = Failed /\ Wanted' = Wanted
      /\ TimingOut' = TimingOut /\ no_reader' = no_reader
      /\ WakingReaders' = WakingReaders
  <2>1. ReadingAt("timed_out")' = ReadingAt("timed_out")
        /\ ReadingAt("wake_blocking")' = ReadingAt("wake_blocking")
    BY <1>4
  <2>. QED BY <1>1, <2>1 DEF ReadSent, Kept, Failed, Wanted, TimingOut, no_reader,
                             WakingReaders
<1>6. PacketsPlaced' /\ ErrorIsLast' /\ ReadDemand' /\ ReadBounds'
  BY <1>1, <1>5 DEF PacketsPlaced, ErrorIsLast, ReadDemand, ReadBounds
<1>7. ReadErrors' /\ ReadersTold'
  BY <1>1, <1>4, <1>5 DEF ReadErrors, ReadersTold
<1>. QED BY <1>3, <1>6, <1>7

\* What has overflowed, or an error, is announced to who begins to read.
LEMMA OverflowAnnounced ==
    ASSUME ReadTypeOK, PacketsPlaced, ErrorIsLast, NEW told \in BOOLEAN,
           read_messages' = IF told THEN Append(read_messages, ReadOverflow)
                            ELSE read_messages
    PROVE  /\ read_messages' \in Seq(ReadAnswer) /\ ErrorIsLast'
           /\ ~read_closed => Ordered("buffer", read_messages', Kept, ReadSent)
           /\ \A e : Contains(read_messages', e)
                         <=> Contains(read_messages, e) \/ (told /\ e = ReadOverflow)
<1>1. CASE told
  <2>1. /\ ReadOverflow \in ReadAnswer /\ ReadOverflow[1] # "buffer"
        /\ ReadOverflow # ReadError
    BY ReadMessages
  <2>2. read_messages' = Append(read_messages, ReadOverflow)
    BY <1>1
  <2>. QED BY <1>1, <2>1, <2>2, OtherReadMessage
<1>2. CASE ~told
  <2>1. read_messages' = read_messages
    BY <1>2
  <2>2. read_messages \in Seq(ReadAnswer)
    BY ReadTypes
  <2>. QED BY <1>2, <2>1, <2>2 DEF ErrorIsLast, PacketsPlaced
<1>. QED BY <1>1, <1>2

\* A coroutine asks for a packet and waits.
LEMMA ReadBlocking ==
    ASSUME ReadInv, read_blocking
    PROVE  ReadInv'
<1>. USE DEF ReadInv
<1>1. /\ read_pc = "lua" /\ ~read_closed /\ reads < MAX_READS /\ reads' = reads + 1
      /\ read_sessions' = Append(read_sessions, reads + 1)
      /\ read_pc' = read_back /\ read_back' = read_back
      /\ read_callback' = read_callback
      /\ m_read_overflow_buffers' = m_read_overflow_buffers
      /\ read_closed' = read_closed /\ delivered' = delivered
      /\ read_current' = read_current /\ read_left' = read_left
      /\ failing' = failing /\ m_read_error' = m_read_error
      /\ m_blocking_read_count' = m_blocking_read_count
      /\ m_has_noblocking_read' = m_has_noblocking_read
      /\ m_read_cached_buffers' = m_read_cached_buffers /\ reading' = reading
      /\ arrived' = arrived /\ read_closing' = read_closing
  BY DEF read_blocking, read_net, read_demand, read_stream
<1>2. PICK told \in BOOLEAN :
          /\ told <=> m_read_error \/ m_read_overflow_buffers # << >>
          /\ read_messages' = IF told THEN Append(read_messages, ReadOverflow)
                              ELSE read_messages
  <2>1. read_messages' = IF m_read_error \/ m_read_overflow_buffers # << >>
                         THEN Append(read_messages, ReadOverflow) ELSE read_messages
    BY DEF read_blocking
  <2>. QED BY <2>1
<1>3. /\ read_messages' \in Seq(ReadAnswer) /\ ErrorIsLast'
      /\ ~read_closed => Ordered("buffer", read_messages', Kept, ReadSent)
      /\ \A e : Contains(read_messages', e)
                    <=> Contains(read_messages, e) \/ (told /\ e = ReadOverflow)
  BY <1>2, OverflowAnnounced
<1>4. /\ read_requests \in Seq(ReadKind) /\ read_sessions \in Seq(Read)
      /\ reads \in Nat /\ MAX_READS \in Nat /\ m_blocking_read_count \in Nat
      /\ Len(read_requests) \in Nat /\ Len(read_sessions) \in Nat
      /\ Len(delivered) \in Nat /\ ReadSent \in Int /\ TimingOut \in Nat
      /\ m_read_timeout_session_count \in 0 .. MAX_READS
      /\ Times(read_requests, "blocking") \in Nat /\ "blocking" \in ReadKind
  BY ReadTypes DEF ReadTypeOK, ReadKind
<1>5. reads + 1 \in Read
  BY <1>1, <1>4 DEF Read
<1>6. /\ read_sessions' \in Seq(Read) /\ Len(read_sessions') = Len(read_sessions) + 1
      /\ \A e : Contains(read_sessions', e) <=> Contains(read_sessions, e) \/ e = reads + 1
  <2>1. read_sessions' \in Seq(Read) /\ Longer(read_sessions, read_sessions', reads + 1)
    BY <1>1, <1>4, <1>5, PutLast
  <2>. QED BY <2>1 DEF Longer
\* It asks, or takes over the demand of one that has given up, or there is an error.
<1>7. /\ read_requests' \in Seq(ReadKind)
      /\ m_read_timeout_session_count' \in 0 .. MAX_READS
      /\ m_read_timeout_session_count' <= m_read_timeout_session_count
      /\ ~m_read_error =>
             Len(read_requests') + m_read_timeout_session_count
                 = Len(read_requests) + m_read_timeout_session_count' + 1
      /\ Times(read_requests', "blocking") \in Nat
      /\ Times(read_requests', "blocking") <= Times(read_requests, "blocking") + 1
      /\ \A e : e # "blocking" =>
                    (Contains(read_requests', e) <=> Contains(read_requests, e))
      /\ Len(read_requests') \in Nat
  <2>1. CASE m_read_error \/ m_read_timeout_session_count # 0
    <3>1. /\ read_requests' = read_requests
          /\ m_read_error =>
                 m_read_timeout_session_count' = m_read_timeout_session_count
          /\ ~m_read_error =>
                 m_read_timeout_session_count' = m_read_timeout_session_count - 1
      BY <2>1 DEF read_blocking
    <3>. QED BY <1>4, <2>1, <3>1
  <2>2. CASE ~m_read_error /\ m_read_timeout_session_count = 0
    <3>1. /\ read_requests' = Append(read_requests, "blocking")
          /\ m_read_timeout_session_count' = m_read_timeout_session_count
      BY <2>2 DEF read_blocking
    <3>2. /\ read_requests' \in Seq(ReadKind)
          /\ Longer(read_requests, read_requests', "blocking")
      BY <1>4, <3>1, PutLast
    <3>3. Times(read_requests', "blocking") = Times(read_requests, "blocking") + 1
      BY <3>2, TimesLonger
    <3>4. /\ Len(read_requests') = Len(read_requests) + 1
          /\ \A e : Contains(read_requests', e)
                        <=> Contains(read_requests, e) \/ e = "blocking"
      BY <3>2 DEF Longer
    <3>. QED BY <1>4, <3>1, <3>2, <3>3, <3>4
  <2>. QED BY <2>1, <2>2
<1>8. /\ read_timer' \in [Read -> {"none", "running", "expired", "closed"}]
      /\ \A r \in Read : r # reads + 1 => read_timer'[r] = read_timer[r]
      /\ read_timer'[reads + 1] # "expired" \/ read_timer' = read_timer
  <2>1. CASE m_read_error
    <3>1. read_timer' = read_timer
      BY <2>1 DEF read_blocking
    <3>. QED BY <3>1 DEF ReadTypeOK
  <2>2. CASE ~m_read_error
    <3>1. PICK t \in {"none", "running"} :
              read_timer' = [read_timer EXCEPT ![reads + 1] = t]
      BY <2>2 DEF read_blocking
    <3>2. /\ read_timer \in [Read -> {"none", "running", "expired", "closed"}]
          /\ t \in {"none", "running", "expired", "closed"} /\ t # "expired"
      BY <3>1 DEF ReadTypeOK
    <3>3. read_timer' \in [Read -> {"none", "running", "expired", "closed"}]
      BY <3>1, <3>2
    <3>4. read_timer'[reads + 1] = t
      BY <1>5, <3>1, <3>2
    <3>5. \A r \in Read : r # reads + 1 => read_timer'[r] = read_timer[r]
      BY <3>1, <3>2
    <3>. QED BY <3>2, <3>3, <3>4, <3>5
  <2>. QED BY <2>1, <2>2
<1>9. /\ ReadSent' = ReadSent /\ Kept' = Kept /\ Failed' = Failed /\ Wanted' = Wanted
  BY <1>1 DEF ReadSent, Kept, Failed, Wanted
<1>10. /\ \A label : ReadingAt(label)' = ReadingAt(label)
       /\ TimingOut' = TimingOut
  <2>1. \A label : ReadingAt(label)' = ReadingAt(label)
    BY <1>1 DEF ReadingAt, ReadTypeOK
  <2>2. ReadingAt("timed_out")' = ReadingAt("timed_out")
    BY <2>1
  <2>. QED BY <2>1, <2>2 DEF TimingOut
<1>11. ReadTypeOK'
  <2>1. reads' \in 0 .. MAX_READS
    BY <1>1, <1>4
  <2>2. read_pc' \in {"lua", "idle", "overflow", "wake_blocking", "timed_out", "crashed"}
    BY <1>1 DEF ReadTypeOK
  <2>. QED BY <1>1, <1>3, <1>6, <1>7, <1>8, <2>1, <2>2 DEF ReadTypeOK, ReadKind
<1>12. PacketsPlaced'
  BY <1>1, <1>3, <1>9 DEF PacketsPlaced
<1>13. ReadDemand'
  <2>1. ASSUME ~read_callback, ~Failed
        PROVE  Len(read_requests') + m_blocking_read_count + (ReadSent - Len(delivered))
                   = Len(read_sessions') + m_read_timeout_session_count' + TimingOut
    <3>1. Len(read_requests) + m_blocking_read_count + (ReadSent - Len(delivered))
              = Len(read_sessions) + m_read_timeout_session_count + TimingOut
      BY <1>1, <2>1 DEF ReadDemand
    <3>2. Len(read_requests') + m_read_timeout_session_count
              = Len(read_requests) + m_read_timeout_session_count' + 1
      BY <1>7, <2>1 DEF Failed
    <3>3. PICK left, leftNow :
              /\ left = m_read_timeout_session_count
              /\ leftNow = m_read_timeout_session_count'
      OBVIOUS
    <3>4. /\ Len(read_requests') \in Nat /\ left \in Nat /\ leftNow \in Nat
          /\ Len(read_requests) \in Nat /\ Len(read_sessions) \in Nat
          /\ Len(delivered) \in Nat /\ ReadSent \in Int /\ TimingOut \in Nat
          /\ m_blocking_read_count \in Nat
          /\ Len(read_sessions') = Len(read_sessions) + 1
      BY <1>4, <1>6, <1>7, <3>3
    <3>5. /\ Len(read_requests) + m_blocking_read_count + (ReadSent - Len(delivered))
                 = Len(read_sessions) + left + TimingOut
          /\ Len(read_requests') + left = Len(read_requests) + leftNow + 1
      BY <3>1, <3>2, <3>3
    <3>6. Len(read_requests') + m_blocking_read_count + (ReadSent - Len(delivered))
              = Len(read_sessions') + leftNow + TimingOut
      BY <3>4, <3>5
    <3>. QED BY <3>3, <3>6
  <2>2. /\ Contains(read_requests', "nonblocking") <=> Contains(read_requests, "nonblocking")
    BY <1>7
  <2>. QED BY <1>1, <1>9, <1>10, <2>1, <2>2 DEF ReadDemand
<1>14. ReadErrors'
  <2>1. Contains(read_messages', ReadError) => Contains(read_messages, ReadError)
    BY <1>3, ReadMessages
  <2>. QED BY <1>1, <1>9, <1>10, <2>1 DEF ReadErrors
<1>15. ReadBounds'
  <2>1. Len(read_sessions') + m_read_timeout_session_count' + TimingOut <= reads + 1
    <3>1. /\ Len(read_sessions) + m_read_timeout_session_count + TimingOut <= reads
          /\ m_read_timeout_session_count' \in Nat /\ m_read_timeout_session_count \in Nat
      BY <1>4, <1>7 DEF ReadBounds
    <3>. QED BY <1>4, <1>6, <1>7, <3>1
  <2>2. m_blocking_read_count + Times(read_requests', "blocking") <= reads + 1
    <3>1. m_blocking_read_count + Times(read_requests, "blocking") <= reads
      BY DEF ReadBounds
    <3>. QED BY <1>4, <1>7, <3>1
  <2>3. ASSUME NEW r \in Read
        PROVE  /\ read_timer'[r] = "running" => r <= reads + 1
               /\ Contains(read_messages', ReadExpired(r)) =>
                      r <= reads + 1 /\ read_timer'[r] \in {"expired", "closed"}
               /\ read_timer'[r] \in {"running", "expired"} => Contains(read_sessions', r)
    <3>1. Contains(read_messages', ReadExpired(r)) <=> Contains(read_messages, ReadExpired(r))
      BY <1>3, ReadMessages
    <3>2. /\ read_timer[r] = "running" => r <= reads
          /\ Contains(read_messages, ReadExpired(r)) =>
                 r <= reads /\ read_timer[r] \in {"expired", "closed"}
          /\ read_timer[r] \in {"running", "expired"} => Contains(read_sessions, r)
      BY <2>3 DEF ReadBounds
    <3>3. r \in Nat
      BY <2>3 DEF Read
    <3>4. CASE r = reads + 1
      <4>1. ~Contains(read_messages, ReadExpired(r)) /\ Contains(read_sessions', r)
        BY <1>4, <1>6, <3>2, <3>4
      <4>. QED BY <1>4, <3>1, <3>4, <4>1
    <3>5. CASE r # reads + 1
      <4>1. read_timer'[r] = read_timer[r] /\ (r <= reads => r <= reads + 1)
        BY <1>4, <1>8, <3>3, <3>5
      <4>. QED BY <1>6, <3>1, <3>2, <4>1
    <3>. QED BY <3>4, <3>5
  <2>. QED BY <1>1, <1>10, <2>1, <2>2, <2>3 DEF ReadBounds
<1>16. ReadersTold'
  <2>1. Contains(read_requests', "close") <=> Contains(read_requests, "close")
    BY <1>7
  <2>2. m_read_overflow_buffers # << >> => Contains(read_messages', ReadOverflow)
    BY <1>2, <1>3
  <2>. QED BY <1>1, <2>1, <2>2 DEF ReadersTold
<1>. QED BY <1>3, <1>11, <1>12, <1>13, <1>14, <1>15, <1>16
\* A callback reads.
LEMMA ReadNonblocking ==
    ASSUME ReadInv, read_nonblocking
    PROVE  ReadInv'
<1>. USE DEF ReadInv
<1>1. /\ read_pc = "lua" /\ ~read_closed /\ ~read_callback /\ read_callback' = TRUE
      /\ read_sessions' = read_sessions /\ read_timer' = read_timer /\ reads' = reads
      /\ m_read_timeout_session_count' = m_read_timeout_session_count
      /\ m_read_overflow_buffers' = m_read_overflow_buffers
      /\ read_closed' = read_closed /\ delivered' = delivered
      /\ read_pc' = read_pc /\ read_back' = read_back
      /\ read_current' = read_current /\ read_left' = read_left
      /\ failing' = failing /\ m_read_error' = m_read_error
      /\ m_blocking_read_count' = m_blocking_read_count
      /\ m_has_noblocking_read' = m_has_noblocking_read
      /\ m_read_cached_buffers' = m_read_cached_buffers /\ reading' = reading
      /\ arrived' = arrived /\ read_closing' = read_closing
  BY DEF read_nonblocking, read_socket, read_handler, read_net, read_demand, read_stream
<1>2. PICK told \in BOOLEAN :
          /\ told <=> m_read_overflow_buffers # << >>
          /\ read_messages' = IF told THEN Append(read_messages, ReadOverflow)
                              ELSE read_messages
  <2>1. read_messages' = IF m_read_overflow_buffers # << >>
                         THEN Append(read_messages, ReadOverflow) ELSE read_messages
    BY DEF read_nonblocking
  <2>. QED BY <2>1
<1>3. /\ read_messages' \in Seq(ReadAnswer) /\ ErrorIsLast'
      /\ ~read_closed => Ordered("buffer", read_messages', Kept, ReadSent)
      /\ \A e : Contains(read_messages', e)
                    <=> Contains(read_messages, e) \/ (told /\ e = ReadOverflow)
  BY <1>2, OverflowAnnounced
<1>4. /\ read_requests' \in Seq(ReadKind)
      /\ ~m_read_error => Contains(read_requests', "nonblocking")
      /\ Times(read_requests', "blocking") = Times(read_requests, "blocking")
      /\ Contains(read_requests', "close") => Contains(read_requests, "close")
  <2>1. read_requests \in Seq(ReadKind) /\ "nonblocking" \in ReadKind
    BY ReadTypes DEF ReadKind
  <2>2. CASE m_read_error
    <3>1. read_requests' = read_requests
      BY <2>2 DEF read_nonblocking
    <3>. QED BY <2>1, <2>2, <3>1
  <2>3. CASE ~m_read_error
    <3>1. read_requests' = Append(read_requests, "nonblocking")
      BY <2>3 DEF read_nonblocking
    <3>2. /\ read_requests' \in Seq(ReadKind)
          /\ Longer(read_requests, read_requests', "nonblocking")
      BY <2>1, <3>1, PutLast
    <3>3. Times(read_requests', "blocking") = Times(read_requests, "blocking") + 0
      BY <3>2, TimesLonger
    <3>4. Times(read_requests, "blocking") \in Nat
      BY ReadTypes
    <3>5. \A e : Contains(read_requests', e)
                     <=> Contains(read_requests, e) \/ e = "nonblocking"
      BY <3>2 DEF Longer
    <3>. QED BY <3>2, <3>3, <3>4, <3>5
  <2>. QED BY <2>2, <2>3
<1>5. ReadTypeOK'
  BY <1>1, <1>3, <1>4 DEF ReadTypeOK, ReadKind
<1>6. /\ ReadSent' = ReadSent /\ Kept' = Kept /\ Failed' = Failed /\ Wanted' = Wanted
      /\ TimingOut' = TimingOut
      /\ \A label : ReadingAt(label)' = ReadingAt(label)
  BY <1>1 DEF ReadSent, Kept, Failed, Wanted, TimingOut, ReadingAt
<1>7. PacketsPlaced'
  BY <1>1, <1>3, <1>6 DEF PacketsPlaced
<1>8. ReadDemand'
  BY <1>1, <1>4, <1>6 DEF ReadDemand
<1>9. ReadErrors'
  <2>1. Contains(read_messages', ReadError) => Contains(read_messages, ReadError)
    BY <1>3, ReadMessages
  <2>. QED BY <1>1, <1>6, <2>1 DEF ReadErrors
<1>10. ReadBounds'
  <2>1. \A r \in Read : Contains(read_messages', ReadExpired(r)) =>
                            Contains(read_messages, ReadExpired(r))
    BY <1>3, ReadMessages
  <2>. QED BY <1>1, <1>4, <1>6, <2>1 DEF ReadBounds
<1>11. ReadersTold'
  <2>1. m_read_overflow_buffers # << >> => Contains(read_messages', ReadOverflow)
    BY <1>2, <1>3
  <2>. QED BY <1>1, <1>4, <1>6, <2>1 DEF ReadersTold
<1>. QED BY <1>3, <1>5, <1>7, <1>8, <1>9, <1>10, <1>11

\* Lua code closes the socket.
LEMMA ReadClose ==
    ASSUME ReadInv, read_close
    PROVE  ReadInv'
<1>. USE DEF ReadInv
<1>1. /\ read_pc = "lua" /\ ~read_closed /\ read_closed' = TRUE
      /\ read_messages' = Append(read_messages, ReadClosing)
      /\ read_requests' = Append(read_requests, "close")
      /\ m_read_overflow_buffers' = << >>
      /\ read_callback' = read_callback
      /\ read_sessions' = read_sessions /\ read_timer' = read_timer /\ reads' = reads
      /\ m_read_timeout_session_count' = m_read_timeout_session_count
      /\ delivered' = delivered
      /\ read_pc' = read_pc /\ read_back' = read_back
      /\ read_current' = read_current /\ read_left' = read_left
      /\ failing' = failing /\ m_read_error' = m_read_error
      /\ m_blocking_read_count' = m_blocking_read_count
      /\ m_has_noblocking_read' = m_has_noblocking_read
      /\ m_read_cached_buffers' = m_read_cached_buffers /\ reading' = reading
      /\ arrived' = arrived /\ read_closing' = read_closing
  BY DEF read_close, send_read_closing, readers, read_handler, read_net, read_demand,
         read_stream
<1>2. /\ read_messages' \in Seq(ReadAnswer) /\ ErrorIsLast'
      /\ \A e : Contains(read_messages', e)
                    <=> Contains(read_messages, e) \/ e = ReadClosing
  <2>1. ReadClosing \in ReadAnswer /\ ReadClosing[1] # "buffer" /\ ReadClosing # ReadError
    BY ReadMessages
  <2>. QED BY <1>1, <2>1, OtherReadMessage
<1>3. /\ read_requests' \in Seq(ReadKind)
      /\ Contains(read_requests', "nonblocking") <=> Contains(read_requests, "nonblocking")
      /\ Times(read_requests', "blocking") = Times(read_requests, "blocking")
  <2>1. read_requests \in Seq(ReadKind) /\ "close" \in ReadKind
    BY ReadTypes DEF ReadKind
  <2>2. /\ read_requests' \in Seq(ReadKind)
        /\ Longer(read_requests, read_requests', "close")
    BY <1>1, <2>1, PutLast
  <2>3. Times(read_requests', "blocking") = Times(read_requests, "blocking") + 0
    BY <2>2, TimesLonger
  <2>4. Times(read_requests, "blocking") \in Nat
    BY ReadTypes
  <2>5. \A e : Contains(read_requests', e) <=> Contains(read_requests, e) \/ e = "close"
    BY <2>2 DEF Longer
  <2>. QED BY <2>2, <2>3, <2>4, <2>5
<1>4. ReadTypeOK'
  <2>1. m_read_overflow_buffers' \in Seq(Packet)
    BY <1>1
  <2>. QED BY <1>1, <1>2, <1>3, <2>1 DEF ReadTypeOK, ReadKind
<1>5. /\ Failed' = Failed /\ Wanted' = Wanted /\ TimingOut' = TimingOut
      /\ \A label : ReadingAt(label)' = ReadingAt(label)
  BY <1>1 DEF Failed, Wanted, TimingOut, ReadingAt
<1>6. PacketsPlaced'
  BY <1>1 DEF PacketsPlaced
<1>7. ReadDemand'
  BY <1>1, <1>3, <1>5 DEF ReadDemand
<1>8. ReadErrors'
  <2>1. Contains(read_messages', ReadError) => Contains(read_messages, ReadError)
    BY <1>2, ReadMessages
  <2>. QED BY <1>1, <1>5, <2>1 DEF ReadErrors
<1>9. ReadBounds'
  <2>1. \A r \in Read : Contains(read_messages', ReadExpired(r)) =>
                            Contains(read_messages, ReadExpired(r))
    BY <1>2, ReadMessages
  <2>. QED BY <1>1, <1>3, <1>5, <2>1 DEF ReadBounds
<1>10. ReadersTold'
  BY <1>1, <1>2 DEF ReadersTold
<1>. QED BY <1>2, <1>4, <1>6, <1>7, <1>8, <1>9, <1>10
\* The context takes its first message.
LEMMA ReadMessageTaken ==
    ASSUME ReadTypeOK, ErrorIsLast, read_messages # << >>,
           read_messages' = Tail(read_messages), NEW m, m = Head(read_messages)
    PROVE  /\ read_messages' \in Seq(ReadAnswer) /\ m \in ReadAnswer
           /\ m = read_messages[1] /\ Shorter(read_messages, read_messages')
           /\ Contains(read_messages, m)
           /\ \A e : Contains(read_messages', e) => Contains(read_messages, e)
           /\ \A e : Contains(read_messages, e) => Contains(read_messages', e) \/ e = m
           /\ ErrorIsLast'
<1>1. read_messages \in Seq(ReadAnswer)
  BY ReadTypes
<1>2. /\ read_messages' \in Seq(ReadAnswer) /\ read_messages[1] \in ReadAnswer
      /\ Shorter(read_messages, read_messages')
  BY <1>1, TakeFirst
<1>3. /\ m = read_messages[1] /\ 1 \in 1 .. Len(read_messages)
      /\ Len(read_messages) \in Nat /\ Len(read_messages') = Len(read_messages) - 1
      /\ \A i \in 1 .. Len(read_messages') :
             i + 1 \in 1 .. Len(read_messages) /\ read_messages'[i] = read_messages[i + 1]
      /\ \A e : Contains(read_messages', e) => Contains(read_messages, e)
      /\ \A e : Contains(read_messages, e) => Contains(read_messages', e) \/ e = m
  BY <1>2 DEF Shorter
<1>4. Contains(read_messages, m)
  BY <1>3 DEF Contains
<1>5. ErrorIsLast'
  <2>1. ASSUME NEW i \in 1 .. Len(read_messages'), NEW j \in 1 .. Len(read_messages'),
               read_messages'[i] = ReadError, read_messages'[j][1] = "buffer"
        PROVE  j < i
    <3>1. /\ i + 1 \in 1 .. Len(read_messages) /\ read_messages[i + 1] = ReadError
          /\ j + 1 \in 1 .. Len(read_messages) /\ read_messages[j + 1][1] = "buffer"
      BY <1>3, <2>1
    <3>2. j + 1 < i + 1
      BY <3>1 DEF ErrorIsLast
    <3>. QED BY <1>3, <2>1, <3>2
  <2>. QED BY <2>1 DEF ErrorIsLast
<1>. QED BY <1>2, <1>3, <1>4, <1>5

\* The first who waits is resumed.
LEMMA ReaderWoken ==
    ASSUME ReadInv, NEW label \in {"idle", "overflow", "wake_blocking"},
           WakeupReader(label), reads' = reads, read_requests' = read_requests,
           m_read_timeout_session_count' = m_read_timeout_session_count,
           m_blocking_read_count' = m_blocking_read_count,
           \A r : Contains(read_messages', ReadExpired(r)) =>
                      Contains(read_messages, ReadExpired(r))
    PROVE  /\ read_pc' = "lua" /\ read_back' = label
           /\ read_sessions' \in Seq(Read)
           /\ read_timer' \in [Read -> {"none", "running", "expired", "closed"}]
           /\ Len(read_sessions') =
                  IF Len(read_sessions) = 0 THEN 0 ELSE Len(read_sessions) - 1
           /\ TimingOut' = 0 /\ \A l : ReadingAt(l)' <=> l = label
           /\ ReadBounds'
<1>1. read_pc' = "lua" /\ read_back' = label
  BY DEF WakeupReader, ResumeReader
<1>2. /\ read_sessions \in Seq(Read) /\ Len(read_sessions) \in Nat
      /\ m_read_timeout_session_count \in Nat /\ reads \in Nat /\ TimingOut \in Nat
      /\ read_timer \in [Read -> {"none", "running", "expired", "closed"}]
  BY ReadTypes DEF ReadInv, ReadTypeOK
<1>3. TimingOut' = 0 /\ \A l : ReadingAt(l)' <=> l = label
  BY <1>1 DEF TimingOut, ReadingAt
<1>4. ReadBounds
  BY DEF ReadInv
<1>5. /\ read_sessions' \in Seq(Read)
      /\ read_timer' \in [Read -> {"none", "running", "expired", "closed"}]
      /\ Len(read_sessions') =
             IF Len(read_sessions) = 0 THEN 0 ELSE Len(read_sessions) - 1
      /\ \A r \in Read : read_timer'[r] # read_timer[r] => read_timer'[r] = "closed"
      /\ \A r \in Read : read_timer'[r] \in {"running", "expired"} =>
                             Contains(read_sessions', r)
  <2>1. CASE read_sessions = << >>
    <3>1. read_sessions' = read_sessions /\ read_timer' = read_timer
      BY <2>1 DEF WakeupReader
    <3>. QED BY <1>2, <1>4, <2>1, <3>1 DEF ReadBounds
  <2>2. CASE read_sessions # << >>
    <3>1. /\ read_sessions' = Tail(read_sessions)
          /\ read_timer' = [read_timer EXCEPT ![Head(read_sessions)] = "closed"]
      BY <2>2 DEF WakeupReader
    <3>2. read_sessions' \in Seq(Read) /\ Shorter(read_sessions, read_sessions')
      BY <1>2, <2>2, <3>1, TakeFirst
    <3>3. /\ Len(read_sessions) > 0 /\ Len(read_sessions') = Len(read_sessions) - 1
          /\ Head(read_sessions) = read_sessions[1]
          /\ \A e : Contains(read_sessions, e) =>
                        Contains(read_sessions', e) \/ e = read_sessions[1]
      BY <3>2 DEF Shorter
    <3>4. read_timer' \in [Read -> {"none", "running", "expired", "closed"}]
      BY <1>2, <3>1
    <3>5. \A r \in Read : read_timer'[r] = IF r = read_sessions[1] THEN "closed"
                                           ELSE read_timer[r]
      BY <1>2, <3>1, <3>3
    <3>6. ASSUME NEW r \in Read, read_timer'[r] \in {"running", "expired"}
          PROVE  Contains(read_sessions', r)
      <4>1. r # read_sessions[1] /\ read_timer[r] \in {"running", "expired"}
        BY <3>5, <3>6
      <4>. QED BY <1>4, <3>3, <3>6, <4>1 DEF ReadBounds
    <3>. QED BY <1>2, <3>2, <3>3, <3>4, <3>5, <3>6
  <2>. QED BY <2>1, <2>2
<1>6. ReadBounds'
  <2>1. Len(read_sessions') + m_read_timeout_session_count + 0 <= reads
    <3>1. Len(read_sessions) + m_read_timeout_session_count + TimingOut <= reads
      BY <1>4 DEF ReadBounds
    <3>. QED BY <1>2, <1>5, <3>1
  <2>2. ASSUME NEW r \in Read
        PROVE  /\ read_timer'[r] = "running" => r <= reads
               /\ Contains(read_messages', ReadExpired(r)) =>
                      r <= reads /\ read_timer'[r] \in {"expired", "closed"}
    <3>1. read_timer'[r] = read_timer[r] \/ read_timer'[r] = "closed"
      BY <1>5, <2>2
    <3>2. /\ read_timer[r] = "running" => r <= reads
          /\ Contains(read_messages, ReadExpired(r)) =>
                 r <= reads /\ read_timer[r] \in {"expired", "closed"}
      BY <1>4, <2>2 DEF ReadBounds
    <3>. QED BY <3>1, <3>2
  <2>. QED BY <1>3, <1>4, <1>5, <2>1, <2>2 DEF ReadBounds
<1>. QED BY <1>1, <1>3, <1>5, <1>6
\* A message about a socket that is closed wakes all who wait.
LEMMA WakeupClosed ==
    ASSUME ReadInv, wakeup_tcp_read, read_closed
    PROVE  ReadInv'
<1>. USE DEF ReadInv
<1>1. PICK m : m = Head(read_messages)
  OBVIOUS
<1>2. /\ read_pc = "idle" /\ read_messages # << >> /\ read_messages' = Tail(read_messages)
      /\ read_current' = m /\ read_callback' = FALSE
      /\ read_left' = Len(read_sessions) /\ read_pc' = "wake_blocking"
      /\ read_sessions' = read_sessions /\ read_timer' = read_timer /\ reads' = reads
      /\ m_read_timeout_session_count' = m_read_timeout_session_count
      /\ m_read_overflow_buffers' = m_read_overflow_buffers
      /\ read_closed' = read_closed /\ delivered' = delivered /\ read_back' = read_back
      /\ read_requests' = read_requests
      /\ failing' = failing /\ m_read_error' = m_read_error
      /\ m_blocking_read_count' = m_blocking_read_count
      /\ m_has_noblocking_read' = m_has_noblocking_read
      /\ m_read_cached_buffers' = m_read_cached_buffers /\ reading' = reading
      /\ arrived' = arrived /\ read_closing' = read_closing
  BY <1>1 DEF wakeup_tcp_read, read_net, read_demand, read_stream
<1>3. /\ read_messages' \in Seq(ReadAnswer) /\ m \in ReadAnswer /\ ErrorIsLast'
      /\ Contains(read_messages, m)
      /\ \A e : Contains(read_messages', e) => Contains(read_messages, e)
  BY <1>1, <1>2, ReadMessageTaken
<1>4. /\ Len(read_sessions) \in Nat /\ Len(read_sessions) <= MAX_READS
  <2>1. /\ Len(read_sessions) + m_read_timeout_session_count + TimingOut <= reads
        /\ Len(read_sessions) \in Nat /\ m_read_timeout_session_count \in Nat
        /\ TimingOut \in Nat /\ reads \in Nat /\ reads <= MAX_READS /\ MAX_READS \in Nat
    BY ReadTypes DEF ReadBounds
  <2>. QED BY <2>1
<1>5. ReadTypeOK'
  <2>1. read_left' \in 0 .. MAX_READS
    BY <1>2, <1>4, TcpReadAssumption
  <2>. QED BY <1>2, <1>3, <2>1 DEF ReadTypeOK
<1>6. /\ Failed' = Failed /\ Wanted' = Wanted /\ TimingOut' = TimingOut
      /\ ReadingAt("wake_blocking")'
  BY <1>2 DEF Failed, Wanted, TimingOut, ReadingAt
<1>7. PacketsPlaced'
  BY <1>2 DEF PacketsPlaced
<1>8. ReadDemand'
  BY <1>2, <1>6 DEF ReadDemand
<1>9. ReadErrors'
  <2>1. Contains(read_messages', ReadError) \/ read_current' = ReadError => Failed
    BY <1>2, <1>3 DEF ReadErrors
  <2>. QED BY <1>2, <1>6, <2>1 DEF ReadErrors
<1>10. ReadBounds'
  BY <1>2, <1>3, <1>6 DEF ReadBounds
<1>11. ReadersTold'
  <2>1. WakingReaders'
    BY <1>2, <1>4, <1>6 DEF WakingReaders
  <2>. QED BY <1>2, <2>1 DEF ReadersTold
<1>. QED BY <1>3, <1>5, <1>7, <1>8, <1>9, <1>10, <1>11

\* A packet goes to who waits for it.
LEMMA PacketDelivered ==
    ASSUME ReadInv, wakeup_tcp_read, ~read_closed, Head(read_messages)[1] = "buffer",
           m_read_overflow_buffers = << >>, ~no_reader
    PROVE  ReadInv'
<1>. USE DEF ReadInv
<1>1. PICK m : m = Head(read_messages)
  OBVIOUS
<1>2. /\ read_pc = "idle" /\ read_messages # << >> /\ read_messages' = Tail(read_messages)
      /\ read_current' = m /\ read_callback' = read_callback
      /\ read_left' = read_left /\ WakeupReader("idle")
      /\ delivered' = Append(delivered, m[2]) /\ reads' = reads
      /\ m_read_timeout_session_count' = m_read_timeout_session_count
      /\ m_read_overflow_buffers' = m_read_overflow_buffers
      /\ read_closed' = read_closed /\ read_requests' = read_requests
      /\ failing' = failing /\ m_read_error' = m_read_error
      /\ m_blocking_read_count' = m_blocking_read_count
      /\ m_has_noblocking_read' = m_has_noblocking_read
      /\ m_read_cached_buffers' = m_read_cached_buffers /\ reading' = reading
      /\ arrived' = arrived /\ read_closing' = read_closing
  BY <1>1 DEF wakeup_tcp_read, read_net, read_demand, read_stream
<1>3. /\ read_messages' \in Seq(ReadAnswer) /\ m \in ReadAnswer /\ ErrorIsLast'
      /\ m = read_messages[1] /\ Shorter(read_messages, read_messages')
      /\ Contains(read_messages, m)
      /\ \A e : Contains(read_messages', e) => Contains(read_messages, e)
  BY <1>1, <1>2, ReadMessageTaken
<1>4. /\ delivered \in Seq(Packet) /\ Len(delivered) \in Nat /\ ReadSent \in Int
      /\ Len(read_sessions) \in Nat /\ Kept = Len(delivered)
  <2>1. Len(m_read_overflow_buffers) = 0
    OBVIOUS
  <2>2. /\ delivered \in Seq(Packet) /\ Len(delivered) \in Nat /\ ReadSent \in Int
        /\ Len(read_sessions) \in Nat
    BY ReadTypes
  <2>. QED BY <2>1, <2>2 DEF Kept
<1>5. /\ m[2] = Len(delivered) + 1 /\ Len(delivered) + 1 <= ReadSent
      /\ Ordered("buffer", read_messages', Len(delivered) + 1, ReadSent)
  <2>1. Ordered("buffer", read_messages, Len(delivered), ReadSent) /\ ReadSent \in Nat
    BY <1>4 DEF PacketsPlaced
  <2>2. read_messages[1][1] = "buffer" /\ m[2] = read_messages[1][2]
    BY <1>1, <1>3
  <2>. QED BY <1>3, <1>4, <2>1, <2>2, OrderedFirst
<1>6. /\ delivered' \in Seq(Packet) /\ Len(delivered') = Len(delivered) + 1
      /\ \A i \in 1 .. Len(delivered) : delivered'[i] = delivered[i]
      /\ delivered'[Len(delivered) + 1] = m[2]
  <2>1. m[2] \in Packet
    BY <1>1, <1>3, ReadAnswers
  <2>. QED BY <1>2, <1>4, <2>1
<1>7. /\ read_pc' = "lua" /\ read_back' = "idle" /\ read_sessions' \in Seq(Read)
      /\ read_timer' \in [Read -> {"none", "running", "expired", "closed"}]
      /\ Len(read_sessions') =
             IF Len(read_sessions) = 0 THEN 0 ELSE Len(read_sessions) - 1
      /\ TimingOut' = 0 /\ \A l : ReadingAt(l)' <=> l = "idle"
      /\ ReadBounds'
  BY <1>2, <1>3, ReaderWoken
<1>8. ReadTypeOK'
  BY <1>2, <1>3, <1>6, <1>7 DEF ReadTypeOK
<1>9. /\ Failed' = Failed /\ Wanted' = Wanted /\ ReadSent' = ReadSent /\ TimingOut = 0
      /\ Len(m_read_overflow_buffers') = 0 /\ Kept' = Len(delivered) + 1
  <2>1. Len(m_read_overflow_buffers') = 0
    BY <1>2
  <2>2. Failed' = Failed /\ Wanted' = Wanted /\ ReadSent' = ReadSent /\ TimingOut = 0
    BY <1>2 DEF Failed, Wanted, ReadSent, TimingOut, ReadingAt
  <2>. QED BY <1>4, <1>6, <2>1, <2>2 DEF Kept
<1>10. PacketsPlaced'
  <2>1. ASSUME NEW i \in 1 .. Len(delivered') PROVE delivered'[i] = i
    <3>1. CASE i \in 1 .. Len(delivered)
      BY <1>6, <3>1 DEF PacketsPlaced
    <3>2. CASE i = Len(delivered) + 1
      BY <1>5, <1>6, <3>2
    <3>. QED BY <1>4, <1>6, <2>1, <3>1, <3>2
  <2>2. \A i \in 1 .. Len(m_read_overflow_buffers') :
            m_read_overflow_buffers'[i] = Len(delivered') + i
    BY <1>9
  <2>3. \A i \in 1 .. Len(m_read_cached_buffers) : m_read_cached_buffers[i] = ReadSent + i
    BY DEF PacketsPlaced
  <2>. QED BY <1>2, <1>5, <1>9, <2>1, <2>2, <2>3 DEF PacketsPlaced
<1>11. ReadDemand'
  <2>1. ASSUME ~read_callback, ~Failed
        PROVE  Len(read_requests) + m_blocking_read_count + (ReadSent - Len(delivered'))
                   = Len(read_sessions') + m_read_timeout_session_count + 0
    <3>1. Len(read_requests) + m_blocking_read_count + (ReadSent - Len(delivered))
              = Len(read_sessions) + m_read_timeout_session_count + 0
      BY <1>9, <2>1 DEF ReadDemand
    <3>2. Len(read_sessions) # 0
      BY <2>1, ReadTypes DEF no_reader
    <3>3. Len(read_requests) \in Nat /\ m_blocking_read_count \in Nat
          /\ m_read_timeout_session_count \in Nat
      BY ReadTypes
    <3>4. /\ Len(read_sessions') = Len(read_sessions) - 1
          /\ Len(delivered') = Len(delivered) + 1
          /\ Len(delivered) \in Nat /\ ReadSent \in Int /\ Len(read_sessions) \in Nat
      BY <1>4, <1>6, <1>7, <3>2
    <3>. QED BY <3>1, <3>3, <3>4
  <2>. QED BY <1>2, <1>7, <1>9, <2>1 DEF ReadDemand
<1>12. ReadErrors'
  <2>1. Contains(read_messages', ReadError) \/ read_current' = ReadError => Failed
    BY <1>2, <1>3 DEF ReadErrors
  <2>. QED BY <1>2, <1>7, <1>9, <2>1 DEF ReadErrors
<1>13. ReadersTold'
  BY <1>2 DEF ReadersTold
<1>. QED BY <1>3, <1>7, <1>8, <1>10, <1>11, <1>12, <1>13

\* A packet overflows, or another message is looked at.
LEMMA MessageHandled ==
    ASSUME ReadInv, wakeup_tcp_read, ~read_closed,
           ~(/\ Head(read_messages)[1] = "buffer"
             /\ m_read_overflow_buffers = << >> /\ ~no_reader)
    PROVE  ReadInv'
<1>. USE DEF ReadInv
<1>1. PICK m : m = Head(read_messages)
  OBVIOUS
<1>2. /\ read_pc = "idle" /\ read_messages # << >> /\ read_messages' = Tail(read_messages)
      /\ read_current' = m /\ read_callback' = read_callback
      /\ read_left' = read_left /\ read_sessions' = read_sessions
      /\ read_timer' = read_timer /\ read_back' = read_back
      /\ m_read_overflow_buffers' = (IF m[1] = "buffer"
                                     THEN Append(m_read_overflow_buffers, m[2])
                                     ELSE m_read_overflow_buffers)
      /\ read_pc' = (IF m[1] = "buffer" /\ m_read_overflow_buffers = << >>
                     THEN "idle" ELSE "overflow")
      /\ delivered' = delivered /\ reads' = reads
      /\ m_read_timeout_session_count' = m_read_timeout_session_count
      /\ read_closed' = read_closed /\ read_requests' = read_requests
      /\ failing' = failing /\ m_read_error' = m_read_error
      /\ m_blocking_read_count' = m_blocking_read_count
      /\ m_has_noblocking_read' = m_has_noblocking_read
      /\ m_read_cached_buffers' = m_read_cached_buffers /\ reading' = reading
      /\ arrived' = arrived /\ read_closing' = read_closing
  BY <1>1 DEF wakeup_tcp_read, read_net, read_demand, read_stream
<1>3. /\ read_messages' \in Seq(ReadAnswer) /\ m \in ReadAnswer /\ ErrorIsLast'
      /\ m = read_messages[1] /\ Shorter(read_messages, read_messages')
      /\ Contains(read_messages, m)
      /\ \A e : Contains(read_messages', e) => Contains(read_messages, e)
  BY <1>1, <1>2, ReadMessageTaken
<1>4. /\ m_read_overflow_buffers \in Seq(Packet) /\ Len(m_read_overflow_buffers) \in Nat
      /\ Len(delivered) \in Nat /\ ReadSent \in Nat /\ Kept \in Nat
      /\ Kept <= ReadSent /\ Kept = Len(delivered) + Len(m_read_overflow_buffers)
      /\ Ordered("buffer", read_messages, Kept, ReadSent)
  BY ReadTypes DEF PacketsPlaced, Kept
\* The packet is the next one.
<1>5. /\ m_read_overflow_buffers' \in Seq(Packet)
      /\ Kept' <= ReadSent
      /\ Ordered("buffer", read_messages', Kept', ReadSent)
      /\ \A i \in 1 .. Len(m_read_overflow_buffers') :
             m_read_overflow_buffers'[i] = Len(delivered) + i
  <2>1. CASE m[1] = "buffer"
    <3>1. /\ m[2] = Kept + 1 /\ Kept + 1 <= ReadSent
          /\ Ordered("buffer", read_messages', Kept + 1, ReadSent)
      <4>1. read_messages[1][1] = "buffer" /\ m[2] = read_messages[1][2]
        BY <1>3, <2>1
      <4>. QED BY <1>3, <1>4, <4>1, OrderedFirst
    <3>2. /\ m_read_overflow_buffers' \in Seq(Packet)
          /\ Len(m_read_overflow_buffers') = Len(m_read_overflow_buffers) + 1
          /\ \A i \in 1 .. Len(m_read_overflow_buffers) :
                 m_read_overflow_buffers'[i] = m_read_overflow_buffers[i]
          /\ m_read_overflow_buffers'[Len(m_read_overflow_buffers) + 1] = m[2]
      <4>1. m[2] \in Packet
        BY <1>3, <2>1, ReadAnswers
      <4>. QED BY <1>2, <1>4, <2>1, <4>1
    <3>3. Kept' = Kept + 1
      BY <1>2, <1>4, <3>2 DEF Kept
    <3>4. ASSUME NEW i \in 1 .. Len(m_read_overflow_buffers')
          PROVE  m_read_overflow_buffers'[i] = Len(delivered) + i
      <4>1. CASE i \in 1 .. Len(m_read_overflow_buffers)
        BY <3>2, <4>1 DEF PacketsPlaced
      <4>2. CASE i = Len(m_read_overflow_buffers) + 1
        BY <1>4, <3>1, <3>2, <4>2
      <4>. QED BY <1>4, <3>2, <3>4, <4>1, <4>2
    <3>. QED BY <3>1, <3>2, <3>3, <3>4
  <2>2. CASE m[1] # "buffer"
    <3>1. m_read_overflow_buffers' = m_read_overflow_buffers /\ Kept' = Kept
      BY <1>2, <2>2 DEF Kept
    <3>2. Ordered("buffer", read_messages', Kept, ReadSent)
      BY <1>3, <1>4, <2>2, OrderedRest
    <3>. QED BY <1>4, <3>1, <3>2 DEF PacketsPlaced
  <2>. QED BY <2>1, <2>2
<1>6. /\ Failed' = Failed /\ Wanted' = Wanted /\ ReadSent' = ReadSent
      /\ TimingOut = 0 /\ TimingOut' = 0 /\ no_reader' = no_reader
      /\ ~ReadingAt("wake_blocking")'
      /\ read_pc' = "overflow" => ReadingAt("overflow")'
  BY <1>2 DEF Failed, Wanted, ReadSent, TimingOut, ReadingAt, no_reader
<1>7. ReadTypeOK'
  BY <1>2, <1>3, <1>5 DEF ReadTypeOK
<1>8. PacketsPlaced'
  BY <1>2, <1>5, <1>6 DEF PacketsPlaced
<1>9. ReadDemand'
  BY <1>2, <1>6 DEF ReadDemand
<1>10. ReadErrors'
  <2>1. Contains(read_messages', ReadError) \/ read_current' = ReadError => Failed
    BY <1>2, <1>3 DEF ReadErrors
  <2>. QED BY <1>2, <1>6, <2>1 DEF ReadErrors
<1>11. ReadBounds'
  BY <1>2, <1>3, <1>6 DEF ReadBounds
<1>12. ReadersTold'
  <2>1. read_pc' = "overflow" \/ no_reader
    BY <1>1, <1>2
  <2>. QED BY <1>2, <1>6, <2>1 DEF ReadersTold
<1>. QED BY <1>3, <1>7, <1>8, <1>9, <1>10, <1>11, <1>12
\* What has overflowed goes to who waits for it.
LEMMA WakeupOverflow ==
    ASSUME ReadInv, wakeup_overflow
    PROVE  ReadInv'
<1>. USE DEF ReadInv
<1>1. /\ read_pc = "overflow" /\ ~no_reader /\ m_read_overflow_buffers # << >>
      /\ read_messages' = read_messages /\ read_current' = read_current
      /\ read_callback' = read_callback
      /\ read_left' = read_left /\ WakeupReader("overflow")
      /\ delivered' = Append(delivered, Head(m_read_overflow_buffers)) /\ reads' = reads
      /\ m_read_overflow_buffers' = Tail(m_read_overflow_buffers)
      /\ m_read_timeout_session_count' = m_read_timeout_session_count
      /\ read_closed' = read_closed /\ read_requests' = read_requests
      /\ failing' = failing /\ m_read_error' = m_read_error
      /\ m_blocking_read_count' = m_blocking_read_count
      /\ m_has_noblocking_read' = m_has_noblocking_read
      /\ m_read_cached_buffers' = m_read_cached_buffers /\ reading' = reading
      /\ arrived' = arrived /\ read_closing' = read_closing
  BY DEF wakeup_overflow, read_net, read_demand, read_stream
<1>2. /\ m_read_overflow_buffers \in Seq(Packet) /\ delivered \in Seq(Packet)
      /\ Len(delivered) \in Nat /\ ReadSent \in Int /\ Len(read_sessions) \in Nat
      /\ Kept = Len(delivered) + Len(m_read_overflow_buffers)
  BY ReadTypes DEF Kept
<1>3. /\ m_read_overflow_buffers' \in Seq(Packet) /\ m_read_overflow_buffers[1] \in Packet
      /\ Len(m_read_overflow_buffers) \in Nat
      /\ Len(m_read_overflow_buffers') = Len(m_read_overflow_buffers) - 1
      /\ Head(m_read_overflow_buffers) = m_read_overflow_buffers[1]
      /\ 1 \in 1 .. Len(m_read_overflow_buffers)
      /\ \A i \in 1 .. Len(m_read_overflow_buffers') :
             /\ i + 1 \in 1 .. Len(m_read_overflow_buffers)
             /\ m_read_overflow_buffers'[i] = m_read_overflow_buffers[i + 1]
  <2>1. /\ m_read_overflow_buffers' \in Seq(Packet) /\ m_read_overflow_buffers[1] \in Packet
        /\ Shorter(m_read_overflow_buffers, m_read_overflow_buffers')
    BY <1>1, <1>2, TakeFirst
  <2>. QED BY <2>1 DEF Shorter
<1>4. /\ delivered' \in Seq(Packet) /\ Len(delivered') = Len(delivered) + 1
      /\ \A i \in 1 .. Len(delivered) : delivered'[i] = delivered[i]
      /\ delivered'[Len(delivered) + 1] = m_read_overflow_buffers[1]
  <2>1. delivered' = Append(delivered, m_read_overflow_buffers[1])
    BY <1>1, <1>3
  <2>. QED BY <1>2, <1>3, <2>1
<1>5. /\ read_pc' = "lua" /\ read_back' = "overflow" /\ read_sessions' \in Seq(Read)
      /\ read_timer' \in [Read -> {"none", "running", "expired", "closed"}]
      /\ Len(read_sessions') =
             IF Len(read_sessions) = 0 THEN 0 ELSE Len(read_sessions) - 1
      /\ TimingOut' = 0 /\ \A l : ReadingAt(l)' <=> l = "overflow"
      /\ ReadBounds'
  BY <1>1, ReaderWoken
<1>6. ReadTypeOK'
  BY <1>1, <1>3, <1>4, <1>5 DEF ReadTypeOK
<1>7. /\ Failed' = Failed /\ Wanted' = Wanted /\ ReadSent' = ReadSent /\ TimingOut = 0
      /\ ~ReadingAt("wake_blocking")
  BY <1>1 DEF Failed, Wanted, ReadSent, TimingOut, ReadingAt
<1>8. Kept' = Kept
  <2>1. Kept' = Len(delivered') + Len(m_read_overflow_buffers')
    BY DEF Kept
  <2>. QED BY <1>2, <1>3, <1>4, <2>1
<1>9. PacketsPlaced'
  <2>. SUFFICES ASSUME ~read_closed PROVE PacketsPlaced'
    BY <1>1 DEF PacketsPlaced
  <2>1. ASSUME NEW i \in 1 .. Len(delivered') PROVE delivered'[i] = i
    <3>1. CASE i \in 1 .. Len(delivered)
      BY <1>4, <3>1 DEF PacketsPlaced
    <3>2. CASE i = Len(delivered) + 1
      <4>1. m_read_overflow_buffers[1] = Len(delivered) + 1
        BY <1>3 DEF PacketsPlaced
      <4>. QED BY <1>4, <3>2, <4>1
    <3>. QED BY <1>2, <1>4, <2>1, <3>1, <3>2
  <2>2. ASSUME NEW i \in 1 .. Len(m_read_overflow_buffers')
        PROVE  m_read_overflow_buffers'[i] = Len(delivered') + i
    <3>1. m_read_overflow_buffers'[i] = Len(delivered) + (i + 1)
      BY <1>3, <2>2 DEF PacketsPlaced
    <3>. QED BY <1>2, <1>3, <1>4, <2>2, <3>1
  <2>3. /\ Kept <= ReadSent /\ Ordered("buffer", read_messages, Kept, ReadSent)
        /\ \A i \in 1 .. Len(m_read_cached_buffers) : m_read_cached_buffers[i] = ReadSent + i
    BY DEF PacketsPlaced
  <2>. QED BY <1>1, <1>7, <1>8, <2>1, <2>2, <2>3 DEF PacketsPlaced
<1>10. ReadDemand'
  <2>1. ASSUME ~read_callback, ~Failed, ~read_closed
        PROVE  Len(read_requests) + m_blocking_read_count + (ReadSent - Len(delivered'))
                   = Len(read_sessions') + m_read_timeout_session_count + 0
    <3>1. Len(read_requests) + m_blocking_read_count + (ReadSent - Len(delivered))
              = Len(read_sessions) + m_read_timeout_session_count + 0
      BY <1>7, <2>1 DEF ReadDemand
    <3>2. Len(read_sessions) # 0
      BY <1>1, <2>1, ReadTypes DEF no_reader
    <3>3. Len(read_requests) \in Nat /\ m_blocking_read_count \in Nat
          /\ m_read_timeout_session_count \in Nat
      BY ReadTypes
    <3>4. /\ Len(read_sessions') = Len(read_sessions) - 1
          /\ Len(delivered') = Len(delivered) + 1
          /\ Len(delivered) \in Nat /\ ReadSent \in Int /\ Len(read_sessions) \in Nat
      BY <1>2, <1>4, <1>5, <3>2
    <3>. QED BY <3>1, <3>3, <3>4
  <2>. QED BY <1>1, <1>5, <1>7, <2>1 DEF ReadDemand
<1>11. ErrorIsLast' /\ ReadErrors'
  BY <1>1, <1>5, <1>7 DEF ErrorIsLast, ReadErrors
<1>12. ReadersTold'
  BY <1>1, <1>5, <1>7 DEF ReadersTold, WakingReaders
<1>. QED BY <1>5, <1>6, <1>9, <1>10, <1>11, <1>12

\* An error, or the announcement of what is gone.
LEMMA HandleError ==
    ASSUME ReadInv, handle_error
    PROVE  ReadInv'
<1>. USE DEF ReadInv
<1>1. /\ read_pc = "overflow" /\ (no_reader \/ m_read_overflow_buffers = << >>)
      /\ read_messages' = read_messages /\ read_current' = read_current
      /\ read_callback' = read_callback /\ read_sessions' = read_sessions
      /\ read_timer' = read_timer /\ read_back' = read_back
      /\ delivered' = delivered /\ reads' = reads
      /\ m_read_overflow_buffers' = m_read_overflow_buffers
      /\ m_read_timeout_session_count' = m_read_timeout_session_count
      /\ read_closed' = read_closed /\ read_requests' = read_requests
      /\ failing' = failing /\ m_read_error' = m_read_error
      /\ m_blocking_read_count' = m_blocking_read_count
      /\ m_has_noblocking_read' = m_has_noblocking_read
      /\ m_read_cached_buffers' = m_read_cached_buffers /\ reading' = reading
      /\ arrived' = arrived /\ read_closing' = read_closing
  BY DEF handle_error, readers, read_socket, read_net, read_demand, read_stream
<1>2. \/ read_pc' \in {"idle", "crashed"} /\ read_left' = read_left
      \/ /\ read_pc' = "wake_blocking" /\ read_left' = Len(read_sessions)
         /\ read_current = ReadError \/ m_read_error
  BY DEF handle_error
<1>3. /\ Len(read_sessions) \in Nat /\ Len(read_sessions) <= MAX_READS
  <2>1. /\ Len(read_sessions) + m_read_timeout_session_count + TimingOut <= reads
        /\ Len(read_sessions) \in Nat /\ m_read_timeout_session_count \in Nat
        /\ TimingOut \in Nat /\ reads \in Nat /\ reads <= MAX_READS /\ MAX_READS \in Nat
    BY ReadTypes DEF ReadBounds
  <2>. QED BY <2>1
<1>4. ReadTypeOK'
  <2>1. read_left' \in 0 .. MAX_READS
    BY <1>2, <1>3, TcpReadAssumption DEF ReadTypeOK
  <2>. QED BY <1>1, <1>2, <2>1 DEF ReadTypeOK
<1>5. /\ Failed' = Failed /\ Wanted' = Wanted /\ ReadSent' = ReadSent /\ Kept' = Kept
      /\ TimingOut = 0 /\ TimingOut' = 0 /\ no_reader' = no_reader
      /\ ~ReadingAt("wake_blocking")
      /\ ReadingAt("wake_blocking")' => read_current = ReadError \/ m_read_error
  <2>1. Failed' = Failed /\ Wanted' = Wanted /\ ReadSent' = ReadSent /\ Kept' = Kept
    BY <1>1 DEF Failed, Wanted, ReadSent, Kept
  <2>2. no_reader' = no_reader
    BY <1>1 DEF no_reader
  <2>3. read_pc' # "lua" /\ read_pc' # "timed_out"
    BY <1>2
  <2>4. TimingOut = 0 /\ ~ReadingAt("wake_blocking")
    <3>1. read_pc = "overflow"
      BY <1>1
    <3>2. ~ReadingAt("timed_out") /\ ~ReadingAt("wake_blocking")
      BY <3>1 DEF ReadingAt
    <3>. QED BY <3>2 DEF TimingOut
  <2>6. TimingOut' = 0
    <3>1. ~ReadingAt("timed_out")'
      BY <2>3 DEF ReadingAt
    <3>. QED BY <3>1 DEF TimingOut
  <2>5. ReadingAt("wake_blocking")' => read_pc' = "wake_blocking"
    BY <2>3 DEF ReadingAt
  <2>. QED BY <1>2, <2>1, <2>2, <2>4, <2>5, <2>6
<1>6. PacketsPlaced' /\ ErrorIsLast' /\ ReadDemand' /\ ReadBounds'
  BY <1>1, <1>5 DEF PacketsPlaced, ErrorIsLast, ReadDemand, ReadBounds
<1>7. ReadErrors'
  <2>1. m_read_error => Failed
    BY DEF Failed
  <2>. QED BY <1>1, <1>5, <2>1 DEF ReadErrors
<1>8. ReadersTold'
  BY <1>1, <1>5 DEF ReadersTold, WakingReaders
<1>. QED BY <1>4, <1>6, <1>7, <1>8

\* All who wait are woken, the coroutines one by one.
LEMMA WakeupReaders ==
    ASSUME ReadInv, wakeup_readers
    PROVE  ReadInv'
<1>. USE DEF ReadInv
<1>1. /\ read_pc = "wake_blocking"
      /\ read_messages' = read_messages /\ read_current' = read_current
      /\ read_callback' = read_callback
      /\ delivered' = delivered /\ reads' = reads
      /\ m_read_overflow_buffers' = m_read_overflow_buffers
      /\ m_read_timeout_session_count' = m_read_timeout_session_count
      /\ read_closed' = read_closed /\ read_requests' = read_requests
      /\ failing' = failing /\ m_read_error' = m_read_error
      /\ m_blocking_read_count' = m_blocking_read_count
      /\ m_has_noblocking_read' = m_has_noblocking_read
      /\ m_read_cached_buffers' = m_read_cached_buffers /\ reading' = reading
      /\ arrived' = arrived /\ read_closing' = read_closing
  BY DEF wakeup_readers, read_socket, read_net, read_demand, read_stream
<1>2. /\ Len(read_sessions) \in Nat /\ read_left \in Nat /\ MAX_READS \in Nat
      /\ read_left <= MAX_READS
  BY ReadTypes DEF ReadTypeOK
<1>3. /\ Failed' = Failed /\ Wanted' = Wanted /\ ReadSent' = ReadSent /\ Kept' = Kept
      /\ TimingOut = 0 /\ ReadingAt("wake_blocking") /\ ~ReadingAt("overflow")
      /\ read_closed \/ Failed
  <2>1. ReadingAt("wake_blocking") /\ ~ReadingAt("overflow") /\ TimingOut = 0
    BY <1>1 DEF ReadingAt, TimingOut
  <2>2. Failed' = Failed /\ Wanted' = Wanted /\ ReadSent' = ReadSent /\ Kept' = Kept
    BY <1>1 DEF Failed, Wanted, ReadSent, Kept
  <2>. QED BY <2>1, <2>2 DEF ReadErrors
<1>4. /\ read_sessions' \in Seq(Read) /\ Len(read_sessions') \in Nat
      /\ Len(read_sessions') <= Len(read_sessions)
      /\ read_timer' \in [Read -> {"none", "running", "expired", "closed"}]
      /\ read_pc' \in {"lua", "idle"}
      /\ read_back' \in {"idle", "overflow", "wake_blocking", "timed_out"}
      /\ read_left' \in 0 .. MAX_READS /\ ReadBounds'
      /\ WakingReaders => WakingReaders' \/ no_reader'
  <2>1. CASE read_left > 0
    <3>1. read_left' = read_left - 1 /\ WakeupReader("wake_blocking")
      BY <2>1 DEF wakeup_readers
    <3>2. /\ read_pc' = "lua" /\ read_back' = "wake_blocking"
          /\ read_sessions' \in Seq(Read)
          /\ read_timer' \in [Read -> {"none", "running", "expired", "closed"}]
          /\ Len(read_sessions') =
                 IF Len(read_sessions) = 0 THEN 0 ELSE Len(read_sessions) - 1
          /\ ReadingAt("wake_blocking")'
          /\ ReadBounds'
      BY <1>1, <3>1, ReaderWoken
    <3>3. read_left' \in 0 .. MAX_READS
      BY <1>2, <2>1, <3>1
    <3>4. /\ Len(read_sessions') \in Nat /\ Len(read_sessions') <= Len(read_sessions)
          /\ Len(read_sessions) <= read_left => Len(read_sessions') <= read_left'
      BY <1>2, <2>1, <3>1, <3>2
    <3>5. WakingReaders => WakingReaders'
      BY <1>1, <3>2, <3>4 DEF WakingReaders
    <3>. QED BY <3>2, <3>3, <3>4, <3>5
  <2>2. CASE ~(read_left > 0)
    <3>1. /\ read_sessions' = read_sessions /\ read_timer' = read_timer
          /\ read_left' = read_left
          /\ \/ read_pc' = "lua" /\ read_back' = "idle"
             \/ read_pc' = "idle" /\ read_back' = read_back
      BY <2>2 DEF wakeup_readers, ResumeReader
    <3>2. TimingOut' = 0
      BY <3>1 DEF TimingOut, ReadingAt
    <3>3. ReadBounds'
      BY <1>1, <1>3, <3>1, <3>2 DEF ReadBounds
    <3>4. WakingReaders => no_reader'
      <4>1. ASSUME WakingReaders PROVE Len(read_sessions) = 0 /\ ~read_callback
        BY <1>2, <2>2, <4>1 DEF WakingReaders
      <4>2. Len(read_sessions) = 0 => read_sessions = << >>
        BY ReadTypes
      <4>. QED BY <1>1, <3>1, <4>1, <4>2 DEF no_reader
    <3>. QED BY <1>2, <3>1, <3>3, <3>4 DEF ReadTypeOK
  <2>. QED BY <2>1, <2>2
<1>5. ReadTypeOK'
  BY <1>1, <1>4 DEF ReadTypeOK
<1>6. PacketsPlaced' /\ ErrorIsLast'
  BY <1>1, <1>3 DEF PacketsPlaced, ErrorIsLast
<1>7. ReadDemand'
  BY <1>1, <1>3 DEF ReadDemand
<1>8. ReadErrors'
  BY <1>1, <1>3 DEF ReadErrors
<1>9. no_reader => no_reader'
  <2>1. ASSUME no_reader PROVE Len(read_sessions') = 0
    <3>1. Len(read_sessions) = 0
      BY <2>1 DEF no_reader
    <3>. QED BY <1>4, <3>1
  <2>2. Len(read_sessions') = 0 => read_sessions' = << >>
    BY <1>4
  <2>. QED BY <1>1, <2>1, <2>2 DEF no_reader
<1>10. ReadersTold'
  BY <1>1, <1>3, <1>4, <1>9 DEF ReadersTold
<1>. QED BY <1>4, <1>5, <1>6, <1>7, <1>8, <1>10
\* A read has timed out, unless a packet has come first.
LEMMA ReadTimeout ==
    ASSUME ReadInv, read_timeout
    PROVE  ReadInv'
<1>. USE DEF ReadInv
<1>1. PICK m : m = Head(read_messages)
  OBVIOUS
<1>2. PICK r : r = m[2]
  OBVIOUS
<1>3. /\ read_pc = "idle" /\ read_messages # << >> /\ m[1] = "timeout"
      /\ read_messages' = Tail(read_messages)
      /\ read_current' = read_current /\ read_callback' = read_callback
      /\ read_left' = read_left
      /\ delivered' = delivered /\ reads' = reads
      /\ m_read_overflow_buffers' = m_read_overflow_buffers
      /\ m_read_timeout_session_count' = m_read_timeout_session_count
      /\ read_closed' = read_closed /\ read_requests' = read_requests
      /\ failing' = failing /\ m_read_error' = m_read_error
      /\ m_blocking_read_count' = m_blocking_read_count
      /\ m_has_noblocking_read' = m_has_noblocking_read
      /\ m_read_cached_buffers' = m_read_cached_buffers /\ reading' = reading
      /\ arrived' = arrived /\ read_closing' = read_closing
  BY <1>1 DEF read_timeout, read_socket, read_net, read_demand, read_stream
<1>4. /\ read_messages' \in Seq(ReadAnswer) /\ m \in ReadAnswer /\ ErrorIsLast'
      /\ m = read_messages[1] /\ Shorter(read_messages, read_messages')
      /\ Contains(read_messages, m)
      /\ \A e : Contains(read_messages', e) => Contains(read_messages, e)
      /\ \A e : Contains(read_messages, e) => Contains(read_messages', e) \/ e = m
  BY <1>1, <1>3, ReadMessageTaken
<1>5. /\ r \in Read /\ m = ReadExpired(r)
      /\ m \notin {ReadError, ReadOverflow, ReadClosing}
  BY <1>2, <1>3, <1>4, ReadAnswers
<1>6. /\ read_timer[r] \in {"expired", "closed"}
      /\ read_timer[r] \in {"running", "expired"} => Contains(read_sessions, r)
      /\ Len(read_sessions) + m_read_timeout_session_count + TimingOut <= reads
  BY <1>4, <1>5 DEF ReadBounds
<1>7. /\ Failed' = Failed /\ Wanted' = Wanted /\ ReadSent' = ReadSent /\ Kept' = Kept
  BY <1>3 DEF Failed, Wanted, ReadSent, Kept
<1>8. TimingOut = 0 /\ ~ReadingAt("wake_blocking") /\ ~ReadingAt("overflow")
  BY <1>3 DEF TimingOut, ReadingAt
<1>9. /\ read_sessions \in Seq(Read) /\ Len(read_sessions) \in Nat
      /\ read_timer \in [Read -> {"none", "running", "expired", "closed"}]
  BY ReadTypes DEF ReadTypeOK
\* The read that ends still counts, as the one that is timing out.
<1>10. /\ read_sessions' \in Seq(Read)
       /\ read_timer' \in [Read -> {"none", "running", "expired", "closed"}]
       /\ read_pc' \in {"idle", "lua"}
       /\ read_back' \in {"idle", "overflow", "wake_blocking", "timed_out"}
       /\ Len(read_sessions') + TimingOut' = Len(read_sessions)
       /\ ~ReadingAt("wake_blocking")'
       /\ \A s \in Read : read_timer'[s] # read_timer[s] => read_timer'[s] = "closed"
       /\ \A s \in Read : read_timer'[s] \in {"running", "expired"} =>
                              Contains(read_sessions', s)
       /\ no_reader => no_reader'
  <2>1. CASE read_timer[r] = "closed"
    <3>1. /\ read_timer' = read_timer /\ read_sessions' = read_sessions
          /\ read_pc' = read_pc /\ read_back' = read_back
      BY <1>1, <1>2, <2>1 DEF read_timeout
    <3>2. TimingOut' = 0 /\ ~ReadingAt("wake_blocking")' /\ no_reader' = no_reader
      BY <1>3, <3>1 DEF TimingOut, ReadingAt, no_reader
    <3>. QED BY <1>3, <1>9, <3>1, <3>2 DEF ReadTypeOK, ReadBounds
  <2>2. CASE read_timer[r] # "closed"
    <3>1. /\ read_sessions' = RemoveFirst(read_sessions, r)
          /\ read_timer' = [read_timer EXCEPT ![r] = "closed"]
          /\ read_pc' = "lua" /\ read_back' = "timed_out"
      BY <1>1, <1>2, <2>2 DEF read_timeout, ResumeReader
    <3>2. Contains(read_sessions, r)
      BY <1>6, <2>2
    <3>3. /\ read_sessions' \in Seq(Read) /\ Len(read_sessions') = Len(read_sessions) - 1
          /\ \A s : s # r /\ Contains(read_sessions, s) => Contains(read_sessions', s)
      BY <1>9, <3>1, <3>2, FirstRemoved
    <3>4. TimingOut' = 1 /\ ~ReadingAt("wake_blocking")'
      BY <3>1 DEF TimingOut, ReadingAt
    <3>5. read_timer' \in [Read -> {"none", "running", "expired", "closed"}]
      BY <1>9, <3>1
    <3>6. \A s \in Read : read_timer'[s] = IF s = r THEN "closed" ELSE read_timer[s]
      BY <1>9, <3>1
    <3>7. ASSUME NEW s \in Read, read_timer'[s] \in {"running", "expired"}
          PROVE  Contains(read_sessions', s)
      <4>1. s # r /\ read_timer[s] \in {"running", "expired"}
        BY <3>6, <3>7
      <4>. QED BY <3>3, <3>7, <4>1 DEF ReadBounds
    <3>8. ~no_reader
      <4>1. Len(read_sessions) # 0
        BY <1>9, <3>2 DEF Contains
      <4>. QED BY <4>1 DEF no_reader
    <3>9. Len(read_sessions') + TimingOut' = Len(read_sessions)
      BY <1>9, <3>3, <3>4
    <3>. QED BY <3>1, <3>3, <3>4, <3>5, <3>6, <3>7, <3>8, <3>9
  <2>. QED BY <2>1, <2>2
<1>11. ReadTypeOK'
  BY <1>3, <1>4, <1>10 DEF ReadTypeOK
<1>12. PacketsPlaced'
  <2>1. ASSUME ~read_closed PROVE Ordered("buffer", read_messages', Kept, ReadSent)
    <3>1. /\ Kept \in Nat /\ ReadSent \in Nat
          /\ Ordered("buffer", read_messages, Kept, ReadSent)
      BY <2>1, ReadTypes DEF PacketsPlaced
    <3>2. read_messages[1][1] # "buffer"
      BY <1>3, <1>4
    <3>. QED BY <1>4, <3>1, <3>2, OrderedRest
  <2>. QED BY <1>3, <1>7, <2>1 DEF PacketsPlaced
<1>13. TimingOut' \in Nat /\ Len(read_sessions') \in Nat
  BY <1>10 DEF TimingOut
<1>14. ReadDemand'
  <2>1. ASSUME ~read_callback, ~Failed, ~read_closed
        PROVE  Len(read_requests) + m_blocking_read_count + (ReadSent - Len(delivered))
                   = Len(read_sessions') + m_read_timeout_session_count + TimingOut'
    <3>1. Len(read_requests) + m_blocking_read_count + (ReadSent - Len(delivered))
              = Len(read_sessions) + m_read_timeout_session_count + 0
      BY <1>8, <2>1 DEF ReadDemand
    <3>2. m_read_timeout_session_count \in Nat
      BY ReadTypes
    <3>3. PICK out : out = TimingOut'
      OBVIOUS
    <3>4. /\ out \in Nat /\ Len(read_sessions') \in Nat /\ Len(read_sessions) \in Nat
          /\ Len(read_sessions') + out = Len(read_sessions)
      BY <1>9, <1>10, <1>13, <3>3
    <3>5. Len(read_sessions) + m_read_timeout_session_count + 0
              = Len(read_sessions') + m_read_timeout_session_count + out
      BY <3>2, <3>4
    <3>. QED BY <3>1, <3>3, <3>5
  <2>. QED BY <1>3, <1>7, <2>1 DEF ReadDemand
<1>15. ReadErrors'
  <2>1. Contains(read_messages', ReadError) => Contains(read_messages, ReadError)
    BY <1>4
  <2>. QED BY <1>3, <1>7, <1>10, <2>1 DEF ReadErrors
<1>16. ReadBounds'
  <2>1. Len(read_sessions') + m_read_timeout_session_count + TimingOut' <= reads
    <3>1. PICK out : out = TimingOut'
      OBVIOUS
    <3>2. /\ out \in Nat /\ Len(read_sessions') \in Nat /\ Len(read_sessions) \in Nat
          /\ Len(read_sessions') + out = Len(read_sessions)
          /\ Len(read_sessions) + m_read_timeout_session_count + 0 <= reads
      BY <1>6, <1>8, <1>9, <1>10, <1>13, <3>1
    <3>3. m_read_timeout_session_count \in Nat /\ reads \in Nat
      BY ReadTypes
    <3>4. Len(read_sessions') + m_read_timeout_session_count + out <= reads
      BY <3>2, <3>3
    <3>. QED BY <3>1, <3>4
  <2>2. ASSUME NEW s \in Read
        PROVE  /\ read_timer'[s] = "running" => s <= reads
               /\ Contains(read_messages', ReadExpired(s)) =>
                      s <= reads /\ read_timer'[s] \in {"expired", "closed"}
    <3>1. read_timer'[s] = read_timer[s] \/ read_timer'[s] = "closed"
      BY <1>10, <2>2
    <3>2. Contains(read_messages', ReadExpired(s)) => Contains(read_messages, ReadExpired(s))
      BY <1>4
    <3>3. /\ read_timer[s] = "running" => s <= reads
          /\ Contains(read_messages, ReadExpired(s)) =>
                 s <= reads /\ read_timer[s] \in {"expired", "closed"}
      BY <2>2 DEF ReadBounds
    <3>. QED BY <3>1, <3>2, <3>3
  <2>. QED BY <1>3, <1>10, <2>1, <2>2 DEF ReadBounds
<1>17. ReadersTold'
  <2>1. /\ Contains(read_messages, ReadClosing) => Contains(read_messages', ReadClosing)
        /\ Contains(read_messages, ReadOverflow) => Contains(read_messages', ReadOverflow)
    BY <1>4, <1>5
  <2>2. ~WakingReaders
    BY <1>8 DEF WakingReaders
  <2>. QED BY <1>3, <1>8, <1>10, <2>1, <2>2 DEF ReadersTold
<1>. QED BY <1>4, <1>11, <1>12, <1>14, <1>15, <1>16, <1>17

\* The demand of the read that timed out is left to a later one.
LEMMA TimedOut ==
    ASSUME ReadInv, timed_out
    PROVE  ReadInv'
<1>. USE DEF ReadInv
<1>1. /\ read_pc = "timed_out" /\ read_pc' = "idle"
      /\ m_read_timeout_session_count' = m_read_timeout_session_count + 1
      /\ read_messages' = read_messages
      /\ read_current' = read_current /\ read_callback' = read_callback
      /\ read_sessions' = read_sessions /\ read_timer' = read_timer
      /\ read_left' = read_left /\ read_back' = read_back
      /\ delivered' = delivered /\ reads' = reads
      /\ m_read_overflow_buffers' = m_read_overflow_buffers
      /\ read_closed' = read_closed /\ read_requests' = read_requests
      /\ failing' = failing /\ m_read_error' = m_read_error
      /\ m_blocking_read_count' = m_blocking_read_count
      /\ m_has_noblocking_read' = m_has_noblocking_read
      /\ m_read_cached_buffers' = m_read_cached_buffers /\ reading' = reading
      /\ arrived' = arrived /\ read_closing' = read_closing
  BY DEF timed_out, readers, read_net, read_demand, read_stream
<1>2. /\ Failed' = Failed /\ Wanted' = Wanted /\ ReadSent' = ReadSent /\ Kept' = Kept
      /\ no_reader' = no_reader
  BY <1>1 DEF Failed, Wanted, ReadSent, Kept, no_reader
<1>3. /\ TimingOut = 1 /\ TimingOut' = 0 /\ ~ReadingAt("wake_blocking")
      /\ ~ReadingAt("wake_blocking")' /\ ~ReadingAt("overflow")
  BY <1>1 DEF TimingOut, ReadingAt
<1>4. PICK left : left = m_read_timeout_session_count
  OBVIOUS
<1>5. /\ left \in Nat /\ reads \in Nat /\ MAX_READS \in Nat /\ reads <= MAX_READS
      /\ Len(read_sessions) \in Nat /\ m_read_timeout_session_count' = left + 1
      /\ Len(read_sessions) + left + 1 <= reads
  BY <1>1, <1>3, <1>4, ReadTypes DEF ReadBounds
<1>6. ReadTypeOK'
  <2>1. left + 1 \in 0 .. MAX_READS
    BY <1>5
  <2>2. m_read_timeout_session_count' \in 0 .. MAX_READS
    BY <1>5, <2>1
  <2>. QED BY <1>1, <2>2 DEF ReadTypeOK
<1>7. PacketsPlaced' /\ ErrorIsLast' /\ ReadErrors' /\ ReadersTold'
  BY <1>1, <1>2, <1>3 DEF PacketsPlaced, ErrorIsLast, ReadErrors, ReadersTold, WakingReaders
<1>8. ReadDemand'
  <2>1. ASSUME ~read_callback, ~Failed, ~read_closed
        PROVE  Len(read_requests) + m_blocking_read_count + (ReadSent - Len(delivered))
                   = Len(read_sessions) + (left + 1) + 0
    <3>1. Len(read_requests) + m_blocking_read_count + (ReadSent - Len(delivered))
              = Len(read_sessions) + left + 1
      BY <1>3, <1>4, <2>1 DEF ReadDemand
    <3>. QED BY <1>5, <3>1
  <2>. QED BY <1>1, <1>2, <1>3, <1>5, <2>1 DEF ReadDemand
<1>9. ReadBounds'
  <2>1. Len(read_sessions) + (left + 1) + 0 <= reads
    BY <1>5
  <2>. QED BY <1>1, <1>3, <1>5, <2>1 DEF ReadBounds
<1>. QED BY <1>6, <1>7, <1>8, <1>9

-----------------------------------------------------------------------------
(* The result.                                                               *)

\* Every step keeps the invariant.
LEMMA ReadStep == ReadInv /\ [ReadNext]_readVars => ReadInv'
<1>. SUFFICES ASSUME ReadInv, [ReadNext]_readVars PROVE ReadInv'
  OBVIOUS
<1>1. CASE on_tcp_read \/ publish_read_error \/ close_read_handle
  BY <1>1, OnTcpRead, PublishOrClose
<1>2. ASSUME NEW blocking \in BOOLEAN, tcp_read(blocking) PROVE ReadInv'
  BY <1>2, TcpReadAsked
<1>3. ASSUME NEW r \in Read, on_read_timedout(r) PROVE ReadInv'
  BY <1>3, OnReadTimedout
<1>4. CASE read_blocking \/ read_nonblocking \/ read_close
  BY <1>4, ReadBlocking, ReadNonblocking, ReadClose
<1>5. CASE return_from_reader \/ other_read_message \/ UNCHANGED readVars
  BY <1>5, ReaderRuns
<1>6. CASE wakeup_tcp_read
  BY <1>6, WakeupClosed, PacketDelivered, MessageHandled
<1>7. CASE wakeup_overflow \/ handle_error \/ wakeup_readers
  BY <1>7, WakeupOverflow, HandleError, WakeupReaders
<1>8. CASE read_timeout \/ timed_out
  BY <1>8, ReadTimeout, TimedOut
<1>. QED BY <1>1, <1>2, <1>3, <1>4, <1>5, <1>6, <1>7, <1>8 DEF ReadNext

\* What the invariant says, and what it says when nothing is under way.
LEMMA ReadHolds == ReadInv => ReadsExact
<1>. SUFFICES ASSUME ReadInv PROVE ReadsExact
  OBVIOUS
<1>. USE DEF ReadInv
<1>1. /\ read_messages \in Seq(ReadAnswer) /\ read_sessions \in Seq(Read)
      /\ read_requests \in Seq(ReadKind) /\ delivered \in Seq(Packet)
      /\ m_read_overflow_buffers \in Seq(Packet)
      /\ m_read_cached_buffers \in Seq(Packet)
      /\ Len(read_messages) \in Nat /\ Len(read_sessions) \in Nat
      /\ Len(read_requests) \in Nat /\ Len(delivered) \in Nat
      /\ Len(m_read_overflow_buffers) \in Nat /\ ReadSent \in Int
      /\ m_blocking_read_count \in Nat /\ m_read_timeout_session_count \in Nat
  BY ReadTypes
<1>2. PacketsInOrder
  <2>1. /\ DOMAIN read_messages = 1 .. Len(read_messages)
        /\ DOMAIN delivered = 1 .. Len(delivered)
        /\ DOMAIN m_read_overflow_buffers = 1 .. Len(m_read_overflow_buffers)
        /\ DOMAIN m_read_cached_buffers = 1 .. Len(m_read_cached_buffers)
    BY <1>1
  <2>2. ASSUME ~read_closed
        PROVE  {read_messages[i][2] : i \in BuffersIn(read_messages)} = Kept + 1 .. ReadSent
    <3>1. ASSUME NEW i \in BuffersIn(read_messages)
          PROVE  read_messages[i][2] \in Kept + 1 .. ReadSent
      BY <2>1, <2>2, <3>1 DEF BuffersIn, PacketsPlaced, Ordered
    <3>2. ASSUME NEW n \in Kept + 1 .. ReadSent
          PROVE  \E i \in BuffersIn(read_messages) : read_messages[i][2] = n
      <4>1. PICK i \in 1 .. Len(read_messages) :
                read_messages[i][1] = "buffer" /\ read_messages[i][2] = n
        BY <2>2, <3>2 DEF PacketsPlaced, Ordered
      <4>2. i \in BuffersIn(read_messages)
        BY <2>1, <4>1 DEF BuffersIn
      <4>. QED BY <4>1, <4>2
    <3>. QED BY <3>1, <3>2
  <2>3. ~read_closed =>
            \A i, j \in BuffersIn(read_messages) :
                i < j => read_messages[i][2] < read_messages[j][2]
    BY <2>1 DEF BuffersIn, PacketsPlaced, Ordered
  <2>4. \A i \in DOMAIN read_messages, j \in BuffersIn(read_messages) :
            read_messages[i] = ReadError => j < i
    BY <2>1 DEF BuffersIn, ErrorIsLast
  <2>5. ~read_closed =>
            /\ Kept <= ReadSent
            /\ \A i \in DOMAIN delivered : delivered[i] = i
            /\ \A i \in DOMAIN m_read_overflow_buffers :
                   m_read_overflow_buffers[i] = Len(delivered) + i
            /\ \A i \in DOMAIN m_read_cached_buffers :
                   m_read_cached_buffers[i] = ReadSent + i
    BY <2>1 DEF PacketsPlaced
  <2>. QED BY <2>2, <2>3, <2>4, <2>5 DEF PacketsInOrder, Kept
<1>3. ReadQuiet => /\ \A e : ~Contains(read_messages, e) /\ ~Contains(read_requests, e)
                   /\ ~WakingReaders /\ ~ReadingAt("overflow") /\ TimingOut = 0
  <2>. SUFFICES ASSUME ReadQuiet
       PROVE  /\ \A e : ~Contains(read_messages, e) /\ ~Contains(read_requests, e)
              /\ ~WakingReaders /\ ~ReadingAt("overflow") /\ TimingOut = 0
    OBVIOUS
  <2>1. /\ Len(read_messages) = 0 /\ Len(read_requests) = 0 /\ read_pc = "idle"
    BY DEF ReadQuiet
  <2>2. \A e : ~Contains(read_messages, e) /\ ~Contains(read_requests, e)
    BY <2>1 DEF Contains
  <2>3. ~ReadingAt("wake_blocking") /\ ~ReadingAt("overflow") /\ ~ReadingAt("timed_out")
    BY <2>1 DEF ReadingAt
  <2>. QED BY <2>2, <2>3 DEF WakingReaders, TimingOut
<1>4. ClosedReadersWoken
  BY <1>3 DEF ClosedReadersWoken, ReadersTold
<1>5. ASSUME ReadQuiet, ~read_closed, ~m_read_error, ~no_reader
      PROVE  reading /\ m_read_cached_buffers = << >> /\ m_read_overflow_buffers = << >>
  <2>1. /\ ~Failed /\ ~read_closing /\ m_read_overflow_buffers = << >>
    BY <1>3, <1>5 DEF ReadQuiet, Failed, ReadersTold
  <2>2. Wanted
    <3>1. CASE read_callback
      BY <1>3, <1>5, <3>1 DEF ReadDemand, Wanted, read_start_state
    <3>2. CASE ~read_callback
      <4>1. Len(read_requests) = 0 /\ Len(read_messages) = 0
        BY <1>5 DEF ReadQuiet
      <4>2. ReadSent = Len(delivered)
        <5>1. Kept = Len(delivered)
          BY <1>1, <2>1 DEF Kept
        <5>2. \A n \in Len(delivered) + 1 .. ReadSent : FALSE
          BY <1>5, <4>1, <5>1 DEF PacketsPlaced, Ordered
        <5>3. ~(Len(delivered) + 1 <= ReadSent)
          <6>. SUFFICES ASSUME Len(delivered) + 1 <= ReadSent PROVE FALSE
            OBVIOUS
          <6>1. ReadSent \in Len(delivered) + 1 .. ReadSent
            BY <1>1
          <6>. QED BY <5>2, <6>1
        <5>. QED BY <1>1, <1>5, <5>1, <5>3 DEF PacketsPlaced
      <4>3. Len(read_sessions) # 0
        BY <1>1, <1>5, <3>2 DEF no_reader
      <4>4. Len(read_requests) + m_blocking_read_count + (ReadSent - Len(delivered))
                = Len(read_sessions) + m_read_timeout_session_count + 0
        BY <1>3, <1>5, <2>1, <3>2 DEF ReadDemand
      <4>5. m_blocking_read_count > 0
        BY <1>1, <4>1, <4>2, <4>3, <4>4
      <4>. QED BY <4>5 DEF Wanted, read_start_state
    <3>. QED BY <3>1, <3>2
  <2>. QED BY <2>1, <2>2 DEF ReadDemand
<1>6. ReaderServed
  BY <1>5 DEF ReaderServed
<1>7. DemandPrecise
  <2>. SUFFICES ASSUME ~read_closed, ~read_callback, ~failing, ~m_read_error,
                       read_pc # "timed_out", read_pc = "lua" => read_back # "timed_out"
       PROVE  Len(read_requests) + m_blocking_read_count + (ReadSent - Len(delivered))
                  = Len(read_sessions) + m_read_timeout_session_count
    BY DEF DemandPrecise
  <2>1. ~Failed /\ TimingOut = 0
    <3>1. ~ReadingAt("timed_out")
      BY DEF ReadingAt
    <3>. QED BY <3>1 DEF Failed, TimingOut
  <2>2. Len(read_requests) + m_blocking_read_count + (ReadSent - Len(delivered))
            = Len(read_sessions) + m_read_timeout_session_count + 0
    BY <2>1 DEF ReadDemand
  <2>. QED BY <1>1, <2>2
<1>. QED BY <1>2, <1>4, <1>6, <1>7 DEF ReadsExact

\* For any number of packets and reads, whatever the network thread meets, whoever gives
\* up and whenever the socket is closed: every packet is in one place and in the order of
\* arrival, no reader waits for one that is there or at a socket that is closed, and the
\* demand at the network thread is that of the readers
\* (uv_tcp_handle.cpp:399-478, lua_tcp_handle.cpp:719-797, 1029-1108).
THEOREM ReadersAreServed == ReadSpec => []ReadsExact
<1>1. ReadInit => ReadInv
  <2>. SUFFICES ASSUME ReadInit PROVE ReadInv
    OBVIOUS
  <2>1. /\ read_messages = << >> /\ read_sessions = << >> /\ read_callback = FALSE
        /\ m_read_timeout_session_count = 0 /\ m_read_overflow_buffers = << >>
        /\ read_closed = FALSE /\ read_timer = [r \in Read |-> "none"]
        /\ reads = 0 /\ delivered = << >> /\ read_pc = "lua" /\ read_back = "idle"
        /\ read_current = ReadOverflow /\ read_left = 0 /\ read_requests = << >>
        /\ m_blocking_read_count = 0 /\ m_has_noblocking_read = FALSE
        /\ m_read_cached_buffers = << >> /\ reading = FALSE /\ arrived = 0
        /\ failing = FALSE /\ m_read_error = FALSE /\ read_closing = FALSE
    BY DEF ReadInit
  <2>2. /\ Len(read_messages) = 0 /\ Len(read_sessions) = 0 /\ Len(read_requests) = 0
        /\ Len(delivered) = 0 /\ Len(m_read_overflow_buffers) = 0
        /\ Len(m_read_cached_buffers) = 0
    BY <2>1
  <2>3. ReadTypeOK
    <3>1. 0 \in 0 .. MAX_READS /\ 0 \in 0 .. MAX_PACKETS
      BY TcpReadAssumption
    <3>2. read_timer \in [Read -> {"none", "running", "expired", "closed"}]
      BY <2>1
    <3>3. /\ read_messages \in Seq(ReadAnswer) /\ read_sessions \in Seq(Read)
          /\ m_read_overflow_buffers \in Seq(Packet) /\ delivered \in Seq(Packet)
          /\ read_requests \in Seq({"blocking", "nonblocking", "close"})
          /\ m_read_cached_buffers \in Seq(Packet)
      BY <2>1
    <3>4. read_current \in ReadAnswer
      BY <2>1, ReadMessages
    <3>. QED BY <2>1, <3>1, <3>2, <3>3, <3>4 DEF ReadTypeOK
  <2>4. /\ ReadSent = 0 /\ Kept = 0 /\ ~Wanted /\ ~Failed
        /\ TimingOut = 0 /\ ~ReadingAt("wake_blocking")
    <3>1. ReadSent = 0 /\ Kept = 0
      <4>1. ReadSent = 0 - 0 /\ Kept = 0 + 0
        BY <2>1, <2>2 DEF ReadSent, Kept
      <4>. QED BY <4>1
    <3>2. ~Wanted /\ ~Failed
      BY <2>1 DEF Wanted, Failed, read_start_state
    <3>3. TimingOut = 0 /\ ~ReadingAt("wake_blocking")
      BY <2>1 DEF TimingOut, ReadingAt
    <3>. QED BY <3>1, <3>2, <3>3
  <2>5. \A e : ~Contains(read_messages, e) /\ ~Contains(read_requests, e)
    BY <2>2 DEF Contains
  <2>6. PacketsPlaced
    <3>1. \A n \in 0 + 1 .. 0 : FALSE
      OBVIOUS
    <3>2. Ordered("buffer", read_messages, 0, 0)
      BY <2>2, <3>1 DEF Ordered
    <3>. QED BY <2>2, <2>4, <3>2 DEF PacketsPlaced
  <2>7. ErrorIsLast
    BY <2>2 DEF ErrorIsLast
  <2>8. ReadDemand
    BY <2>1, <2>2, <2>4, <2>5 DEF ReadDemand
  <2>9. ReadErrors
    <3>1. read_current # ReadError
      BY <2>1 DEF ReadOverflow, ReadError
    <3>. QED BY <2>4, <2>5, <3>1 DEF ReadErrors
  <2>10. ReadBounds
    <3>1. Times(read_requests, "blocking") = 0
      <4>1. {i \in 1 .. Len(read_requests) : read_requests[i] = "blocking"} = {}
        BY <2>2
      <4>. QED BY <4>1, FS_EmptySet DEF Times
    <3>2. \A r \in Read : read_timer[r] = "none"
      BY <2>1
    <3>. QED BY <2>1, <2>2, <2>4, <2>5, <3>1, <3>2 DEF ReadBounds
  <2>11. ReadersTold
    BY <2>1, <2>5 DEF ReadersTold, no_reader
  <2>. QED BY <2>3, <2>6, <2>7, <2>8, <2>9, <2>10, <2>11
         DEF ReadInv
<1>. QED BY <1>1, ReadStep, ReadHolds, PTL DEF ReadSpec
=============================================================================
