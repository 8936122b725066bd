----------------------------- MODULE RequestPipe -----------------------------
(***************************************************************************)
(* The pipe by which workers hand requests to the network thread           *)
(* (network.cpp): a socket pair whose write end all workers share and      *)
(* whose read end the loop of the network thread polls.  After the workers *)
(* have ended, the main thread sends REQUEST_EXIT and waits for the        *)
(* thread.  A request is the pair of its sender and its number.            *)
(***************************************************************************)
EXTENDS Integers, Sequences

CONSTANTS Worker, Main,
          MAX_REQUESTS,    \* bound on the requests of each worker
          PIPE_SIZE,       \* requests that the socket pair holds
          m_cpu_count      \* requests that one poll event handles

ASSUME RequestPipeAssumption ==
    /\ Main \notin Worker
    /\ MAX_REQUESTS \in Nat /\ PIPE_SIZE \in Nat \ {0} /\ m_cpu_count \in Nat \ {0}

VARIABLES
    sent,        \* of each worker: the number of requests sent
    ended,       \* workers that have returned from worker_process
    m_exiting,
    requests,    \* what the socket pair holds
    poll,        \* m_request_handle: "active", "closing" or "closed"
    batch,       \* requests handled since the last poll event, or 0 between
    handled,     \* the requests handled, in order
    pc           \* the network thread: "poll", "recv", or "ended"

requestPipeVars == <<sent, ended, m_exiting, requests, poll, batch, handled, pc>>

EXIT == <<Main, 0>>

RequestPipeInit ==
    /\ sent = [w \in Worker |-> 0]
    /\ ended = {}
    /\ m_exiting = FALSE
    /\ requests = << >>
    /\ poll = "active"
    /\ batch = 0
    /\ handled = << >>
    /\ pc = "poll"

-----------------------------------------------------------------------------
\* A whole request in one send, which blocks while the pipe is full.
send_whole_request(request) ==
    /\ Len(requests) < PIPE_SIZE
    /\ requests' = Append(requests, request)

work(w) ==
    /\ w \notin ended /\ sent[w] < MAX_REQUESTS
    /\ send_whole_request(<<w, sent[w] + 1>>)
    /\ sent' = [sent EXCEPT ![w] = @ + 1]
    /\ UNCHANGED <<ended, m_exiting, poll, batch, handled, pc>>

end_work(w) ==
    /\ w \notin ended
    /\ ended' = ended \cup {w}
    /\ UNCHANGED <<sent, m_exiting, requests, poll, batch, handled, pc>>

\* m_worker_mgr->wait(), then m_network->stop(), which acts once.
stop ==
    /\ ended = Worker /\ ~m_exiting
    /\ m_exiting' = TRUE
    /\ send_whole_request(EXIT)
    /\ UNCHANGED <<sent, ended, poll, batch, handled, pc>>

-----------------------------------------------------------------------------
\* The loop finds the pipe readable, as long as anything is in it.
on_request_polled_in ==
    /\ pc = "poll" /\ poll = "active" /\ requests # << >>
    /\ pc' = "recv"
    /\ batch' = 0
    /\ UNCHANGED <<sent, ended, m_exiting, requests, poll, handled>>

\* recv_request: the next request of the batch.  REQUEST_EXIT closes the poll
\* handle, if it is not closing yet.
process_request ==
    /\ pc = "recv" /\ requests # << >>
    /\ requests' = Tail(requests)
    /\ handled' = Append(handled, Head(requests))
    /\ poll' = IF Head(requests) = EXIT THEN "closing" ELSE poll
    /\ batch' = batch + 1
    /\ pc' = IF batch + 1 >= m_cpu_count THEN "poll" ELSE "recv"
    /\ UNCHANGED <<sent, ended, m_exiting>>

\* Mutated form of EndBatch: the handle is closed as after an error.
EndBatch_closes ==
    /\ pc' = "poll"
    /\ poll' = "closing"
    /\ UNCHANGED <<sent, ended, m_exiting, requests, batch, handled>>

\* recv would block, which is no error.
EndBatch ==
    /\ pc' = "poll"
    /\ UNCHANGED <<sent, ended, m_exiting, requests, poll, batch, handled>>

recv_nothing ==
    /\ pc = "recv" /\ requests = << >>
    /\ EndBatch

\* on_request_handle_closed, at the end of the iteration of the loop.
on_request_handle_closed ==
    /\ pc = "poll" /\ poll = "closing"
    /\ poll' = "closed"
    /\ pc' = "ended"
    /\ UNCHANGED <<sent, ended, m_exiting, requests, batch, handled>>

RequestPipeNext ==
    \/ \E w \in Worker : work(w) \/ end_work(w)
    \/ stop
    \/ on_request_polled_in \/ process_request \/ recv_nothing
    \/ on_request_handle_closed

RequestPipeSpec == RequestPipeInit /\ [][RequestPipeNext]_requestPipeVars

-----------------------------------------------------------------------------
RequestPipeTypeOK ==
    /\ sent \in [Worker -> 0 .. MAX_REQUESTS]
    /\ ended \subseteq Worker
    /\ m_exiting \in BOOLEAN
    /\ requests \in Seq((Worker \X (1 .. MAX_REQUESTS)) \cup {EXIT})
    /\ Len(requests) <= PIPE_SIZE
    /\ poll \in {"active", "closing", "closed"}
    /\ batch \in 0 .. m_cpu_count
    /\ handled \in Seq((Worker \X (1 .. MAX_REQUESTS)) \cup {EXIT})
    /\ pc \in {"poll", "recv", "ended"}

\* What the workers have put into the pipe so far.
InPipe == handled \o requests

\* Requests of one worker are handled in the order it sent them, each once,
\* and when the network thread ends none is left behind: what the workers sent
\* before the process ended has been done (send_request, recv_request, stop).
RequestsHandled ==
    /\ RequestPipeTypeOK
    /\ \A w \in Worker :
        /\ \A n \in 1 .. sent[w] : \E i \in 1 .. Len(InPipe) : InPipe[i] = <<w, n>>
        /\ \A i \in 1 .. Len(InPipe) : InPipe[i][1] = w => InPipe[i][2] <= sent[w]
        /\ \A i, j \in 1 .. Len(InPipe) :
            i < j /\ InPipe[i][1] = w /\ InPipe[j][1] = w => InPipe[i][2] < InPipe[j][2]
    /\ pc = "ended" => requests = << >> /\ m_exiting
=============================================================================
