------------------------------ MODULE HttpPool ------------------------------
(***************************************************************************)
(* The HTTP server with its pool of worker threads (aether_http_server.c): *)
(* http_server_start_raw accepts connections and submits them to a bounded *)
(* queue, workers take them out and serve them until they close, and       *)
(* another thread stops the server and waits for the connections in        *)
(* progress.  The lock of the pool makes each visit to the queue one step; *)
(* what happens on a connection is the subject of HttpConnection.          *)
(***************************************************************************)
EXTENDS Integers, Sequences

CONSTANTS Conn,                 \* connections of clients
          Worker,               \* the threads of the pool, HTTP_POOL_WORKERS of them
          NoConn,
          HTTP_POOL_QUEUE_CAP

ASSUME PoolAssumption == Worker # {} /\ NoConn \notin Conn /\ HTTP_POOL_QUEUE_CAP \in Nat \ {0}

VARIABLES conn,                 \* where each connection is
          closes,               \* how many times the server has closed it
          queue, shutdown,      \* the pool
          worker, client_fd,    \* what each worker does, and the connection it has
          acceptor, accepted,   \* the same for the accept loop
          is_running, socket_fd, inflight_connections, tls_enabled,
          stopper,              \* where the thread is that stops the server
          began                 \* history: connections being served when it began to

pool_vars == <<conn, closes, queue, shutdown, worker, client_fd, acceptor, accepted,
               is_running, socket_fd, inflight_connections, tls_enabled, stopper, began>>
accept_vars == <<acceptor, accepted>>
server_vars == <<is_running, socket_fd, tls_enabled, stopper, began>>

Serving == {"handshake", "handled", "closing"}

----------------------------------------------------------------------------
\* A client connects; the kernel keeps the connection until it is accepted.
Connect(c) ==
    /\ socket_fd /\ conn[c] = "outside"
    /\ conn' = [conn EXCEPT ![c] = "backlog"]
    /\ UNCHANGED <<closes, queue, shutdown, worker, client_fd, inflight_connections, accept_vars, server_vars>>

\* The head of the accept loop.
LoopHead ==
    /\ acceptor = "loop"
    /\ acceptor' = IF is_running THEN "poll" ELSE "destroy"
    /\ UNCHANGED <<conn, closes, queue, shutdown, worker, client_fd, accepted, inflight_connections, server_vars>>

\* poll() reports a connection, or that the socket has been closed, or times out.
Poll ==
    /\ acceptor = "poll"
    /\ \/ /\ socket_fd => \E c \in Conn : conn[c] = "backlog"
          /\ acceptor' = "accept"
       \/ acceptor' = "loop"
    /\ UNCHANGED <<conn, closes, queue, shutdown, worker, client_fd, accepted, inflight_connections, server_vars>>

\* accept() may also fail, as it does when the socket has been closed since.
Accept(c) ==
    /\ acceptor = "accept" /\ socket_fd /\ conn[c] = "backlog"
    /\ conn' = [conn EXCEPT ![c] = "accepted"]
    /\ accepted' = c /\ acceptor' = "submit"
    /\ UNCHANGED <<closes, queue, shutdown, worker, client_fd, inflight_connections, server_vars>>
AcceptFails ==
    /\ acceptor = "accept"
    /\ acceptor' = IF is_running THEN "loop" ELSE "destroy"
    /\ UNCHANGED <<conn, closes, queue, shutdown, worker, client_fd, accepted, inflight_connections, server_vars>>

\* pthread_cond_signal(not_empty) wakes one of the workers that wait, if any.
Woken == LET waiting == {w \in Worker : worker[w] = "waiting"}
         IN  IF waiting = {} THEN {worker} ELSE {[worker EXCEPT ![w] = "lock"] : w \in waiting}

\* The accept loop waits while the queue is full.
http_pool_submit ==
    /\ acceptor = "submit"
    /\ IF shutdown
       THEN /\ conn' = [conn EXCEPT ![accepted] = "closed"]
            /\ closes' = [closes EXCEPT ![accepted] = @ + 1]
            /\ acceptor' = "loop" /\ accepted' = NoConn
            /\ UNCHANGED <<queue, worker>>
       ELSE IF Len(queue) >= HTTP_POOL_QUEUE_CAP
       THEN acceptor' = "not_full" /\ UNCHANGED <<conn, closes, queue, worker, accepted>>
       ELSE /\ queue' = Append(queue, accepted)
            /\ conn' = [conn EXCEPT ![accepted] = "queued"]
            /\ acceptor' = "loop" /\ accepted' = NoConn
            /\ worker' \in Woken
            /\ UNCHANGED closes
    /\ UNCHANGED <<shutdown, client_fd, inflight_connections, server_vars>>

\* Mutant: a worker leaves when the server shuts down, whatever is in the queue.
WorkerLeavesEarly(w) ==
    /\ worker[w] = "lock" /\ (queue = << >> \/ shutdown)
    /\ worker' = [worker EXCEPT ![w] = IF shutdown THEN "exited" ELSE "waiting"]
    /\ UNCHANGED <<conn, closes, queue, shutdown, client_fd, inflight_connections, accept_vars, server_vars>>

\* A worker with the lock: it waits, leaves, or takes a connection and wakes the
\* accept loop.
WorkerWaits(w) ==
    /\ worker[w] = "lock" /\ queue = << >>
    /\ worker' = [worker EXCEPT ![w] = IF shutdown THEN "exited" ELSE "waiting"]
    /\ UNCHANGED <<conn, closes, queue, shutdown, client_fd, inflight_connections, accept_vars, server_vars>>
WorkerTakes(w) ==
    /\ worker[w] = "lock" /\ queue # << >>
    /\ queue' = Tail(queue)
    /\ client_fd' = [client_fd EXCEPT ![w] = Head(queue)]
    /\ conn' = [conn EXCEPT ![Head(queue)] = "taken"]
    /\ worker' = [worker EXCEPT ![w] = "drain"]
    /\ acceptor' = IF acceptor = "not_full" THEN "submit" ELSE acceptor
    /\ UNCHANGED <<closes, shutdown, accepted, inflight_connections, server_vars>>

\* POSIX allows a wait to end without a signal.
WorkerSpurious(w) ==
    /\ worker[w] = "waiting"
    /\ worker' = [worker EXCEPT ![w] = "lock"]
    /\ UNCHANGED <<conn, closes, queue, shutdown, client_fd, inflight_connections, accept_vars, server_vars>>
AcceptorSpurious ==
    /\ acceptor = "not_full"
    /\ acceptor' = "submit"
    /\ UNCHANGED <<conn, closes, queue, shutdown, worker, client_fd, accepted, inflight_connections, server_vars>>

----------------------------------------------------------------------------
(* http_server_drain_connection, by the worker w.                           *)

At(w, place) == worker[w] = "drain" /\ conn[client_fd[w]] = place

DrainBegins(w) ==
    /\ At(w, "taken")
    /\ inflight_connections' = inflight_connections + 1
    /\ conn' = [conn EXCEPT ![client_fd[w]] = IF tls_enabled THEN "handshake" ELSE "handled"]
    /\ UNCHANGED <<closes, queue, shutdown, worker, client_fd, accept_vars, server_vars>>

\* A handshake that fails closes the connection and returns at once.
Handshake(w) ==
    /\ At(w, "handshake")
    /\ \/ /\ conn' = [conn EXCEPT ![client_fd[w]] = "handled"]
          /\ UNCHANGED <<closes, worker, client_fd>>
       \/ /\ conn' = [conn EXCEPT ![client_fd[w]] = "closed"]
          /\ closes' = [closes EXCEPT ![client_fd[w]] = @ + 1]
          /\ worker' = [worker EXCEPT ![w] = "lock"]
          /\ client_fd' = [client_fd EXCEPT ![w] = NoConn]
    /\ UNCHANGED <<queue, shutdown, inflight_connections, accept_vars, server_vars>>

\* All requests are served: conn_close, then the counter.
DrainCloses(w) ==
    /\ At(w, "handled")
    /\ conn' = [conn EXCEPT ![client_fd[w]] = "closing"]
    /\ closes' = [closes EXCEPT ![client_fd[w]] = @ + 1]
    /\ UNCHANGED <<queue, shutdown, worker, client_fd, inflight_connections, accept_vars, server_vars>>
DrainEnds(w) ==
    /\ At(w, "closing")
    /\ inflight_connections' = inflight_connections - 1
    /\ conn' = [conn EXCEPT ![client_fd[w]] = "closed"]
    /\ worker' = [worker EXCEPT ![w] = "lock"]
    /\ client_fd' = [client_fd EXCEPT ![w] = NoConn]
    /\ UNCHANGED <<closes, queue, shutdown, accept_vars, server_vars>>

----------------------------------------------------------------------------
\* Mutant: one waiting worker is told to leave instead of all.
DestroySignals ==
    /\ acceptor = "destroy"
    /\ shutdown' = TRUE
    /\ worker' \in Woken
    /\ acceptor' = "join"
    /\ UNCHANGED <<conn, closes, queue, client_fd, accepted, inflight_connections, server_vars>>

\* Both broadcasts; then the workers are joined.
http_pool_destroy ==
    /\ acceptor = "destroy"
    /\ shutdown' = TRUE
    /\ worker' = [w \in Worker |-> IF worker[w] = "waiting" THEN "lock" ELSE worker[w]]
    /\ acceptor' = "join"
    /\ UNCHANGED <<conn, closes, queue, client_fd, accepted, inflight_connections, server_vars>>
Joined ==
    /\ acceptor = "join" /\ \A w \in Worker : worker[w] = "exited"
    /\ acceptor' = "stopped"
    /\ UNCHANGED <<conn, closes, queue, shutdown, worker, client_fd, accepted, inflight_connections, server_vars>>

\* http_server_shutdown_graceful_raw in another thread: http_server_stop clears
\* is_running and closes the socket, whose backlog is lost; then the counter of
\* connections in progress is read again and again.
StopRunning ==
    /\ stopper = "idle"
    /\ stopper' = "stopping" /\ is_running' = FALSE
    /\ began' = {c \in Conn : conn[c] \in Serving}
    /\ UNCHANGED <<conn, closes, queue, shutdown, worker, client_fd, accept_vars, socket_fd, inflight_connections, tls_enabled>>
http_server_stop ==
    /\ stopper = "stopping"
    /\ stopper' = "draining" /\ socket_fd' = FALSE
    /\ conn' = [c \in Conn |-> IF conn[c] = "backlog" THEN "refused" ELSE conn[c]]
    /\ UNCHANGED <<closes, queue, shutdown, worker, client_fd, accept_vars, is_running, inflight_connections, tls_enabled, began>>

\* Mutant: the counter is read as if it counted one more.
ShutdownOffByOne ==
    /\ stopper = "draining"
    /\ stopper' = IF inflight_connections <= 1 THEN "clean" ELSE "sleeping"
    /\ UNCHANGED <<conn, closes, queue, shutdown, worker, client_fd, accept_vars, is_running, socket_fd, inflight_connections, tls_enabled, began>>

ShutdownWaits ==
    /\ stopper = "draining"
    /\ stopper' = IF inflight_connections <= 0 THEN "clean" ELSE "sleeping"
    /\ UNCHANGED <<conn, closes, queue, shutdown, worker, client_fd, accept_vars, is_running, socket_fd, inflight_connections, tls_enabled, began>>
ShutdownSleeps ==
    /\ stopper = "sleeping"
    /\ stopper' \in {"draining", "timeout"}
    /\ UNCHANGED <<conn, closes, queue, shutdown, worker, client_fd, accept_vars, is_running, socket_fd, inflight_connections, tls_enabled, began>>

----------------------------------------------------------------------------
pool_init ==
    /\ conn = [c \in Conn |-> "outside"] /\ closes = [c \in Conn |-> 0]
    /\ queue = << >> /\ shutdown = FALSE
    /\ worker = [w \in Worker |-> "lock"] /\ client_fd = [w \in Worker |-> NoConn]
    /\ acceptor = "loop" /\ accepted = NoConn
    /\ is_running = TRUE /\ socket_fd = TRUE /\ inflight_connections = 0 /\ tls_enabled \in BOOLEAN
    /\ stopper = "idle" /\ began = {}

AcceptLoop ==
    \/ LoopHead \/ Poll \/ (\E c \in Conn : Accept(c)) \/ AcceptFails
    \/ http_pool_submit \/ http_pool_destroy \/ Joined
http_pool_worker(w) ==
    WorkerWaits(w) \/ WorkerTakes(w) \/ DrainBegins(w) \/ Handshake(w) \/ DrainCloses(w) \/ DrainEnds(w)

pool_next ==
    \/ \E c \in Conn : Connect(c)
    \/ AcceptLoop \/ AcceptorSpurious
    \/ \E w \in Worker : http_pool_worker(w) \/ WorkerSpurious(w)
    \/ StopRunning \/ http_server_stop \/ ShutdownWaits \/ ShutdownSleeps

pool_spec == pool_init /\ [][pool_next]_pool_vars

----------------------------------------------------------------------------
Places == {"outside", "backlog", "refused", "accepted", "queued", "taken", "closed"} \cup Serving

PoolTypeOK ==
    /\ conn \in [Conn -> Places] /\ closes \in [Conn -> Nat]
    /\ queue \in Seq(Conn) /\ Len(queue) <= HTTP_POOL_QUEUE_CAP /\ shutdown \in BOOLEAN
    /\ worker \in [Worker -> {"lock", "waiting", "drain", "exited"}] /\ client_fd \in [Worker -> Conn \cup {NoConn}]
    /\ acceptor \in {"loop", "poll", "accept", "submit", "not_full", "destroy", "join", "stopped"}
    /\ accepted \in Conn \cup {NoConn}
    /\ is_running \in BOOLEAN /\ socket_fd \in BOOLEAN /\ inflight_connections \in Int /\ tls_enabled \in BOOLEAN
    /\ stopper \in {"idle", "stopping", "draining", "sleeping", "clean", "timeout"} /\ began \subseteq Conn

\* No connection is closed twice, and every connection that was accepted has been
\* closed when http_server_start_raw returns (http_pool_worker, http_pool_destroy).
EveryConnectionClosed ==
    /\ \A c \in Conn : closes[c] <= 1
    /\ acceptor = "stopped" =>
          \A c \in Conn : conn[c] \in {"outside", "backlog", "refused"} \/ closes[c] = 1

\* A graceful shutdown that reports success has waited for the connections that
\* were being served when it began (http_server_shutdown_graceful_raw).
GracefulClean == stopper = "clean" => \A c \in began : closes[c] = 1

\* Once the server is told to stop, http_server_start_raw returns.
ServerStops == ~ is_running ~> acceptor = "stopped"
=============================================================================
