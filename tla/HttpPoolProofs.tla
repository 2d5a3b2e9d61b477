--------------------------- MODULE HttpPoolProofs ---------------------------
(***************************************************************************)
(* For every number of connections and workers and every capacity of the   *)
(* queue: no connection is closed twice or forgotten when the server       *)
(* returns, and a graceful shutdown that reports success has waited for    *)
(* the connections that were being served.                                 *)
(***************************************************************************)
EXTENDS HttpPool, TLAPS, FiniteSetTheorems

\* The accept loop has a connection in hand exactly while it submits one.
AcceptInv ==
    /\ acceptor \in {"submit", "not_full"} <=> accepted # NoConn
    /\ accepted # NoConn => conn[accepted] = "accepted"
    /\ \A c \in Conn : conn[c] = "accepted" => accepted = c

\* The queue holds the queued connections, each once.
QueueInv ==
    /\ \A i \in 1..Len(queue) : conn[queue[i]] = "queued"
    /\ \A i, j \in 1..Len(queue) : queue[i] = queue[j] => i = j
    /\ \A c \in Conn : conn[c] = "queued" => \E i \in 1..Len(queue) : queue[i] = c

Held == {"taken"} \cup Serving

\* Every connection that was taken out is held by one worker.
WorkerInv ==
    /\ \A w \in Worker : worker[w] = "drain" <=> client_fd[w] # NoConn
    /\ \A w \in Worker : client_fd[w] # NoConn => conn[client_fd[w]] \in Held
    /\ \A v, w \in Worker : client_fd[v] = client_fd[w] /\ client_fd[v] # NoConn => v = w
    /\ \A c \in Conn : conn[c] \in Held => \E w \in Worker : client_fd[w] = c

ClosesInv == \A c \in Conn : closes[c] = IF conn[c] \in {"closing", "closed"} THEN 1 ELSE 0

\* Workers leave only with the queue empty and nothing to come.
StopInv ==
    /\ shutdown <=> acceptor \in {"join", "stopped"}
    /\ \A w \in Worker : worker[w] = "exited" => shutdown /\ queue = << >>
    /\ acceptor = "stopped" => \A w \in Worker : worker[w] = "exited"

PoolInv == PoolTypeOK /\ AcceptInv /\ QueueInv /\ WorkerInv /\ ClosesInv /\ StopInv

\* What the queue and the workers hold are connections.
LEMMA HeldAreConnections ==
    ASSUME PoolInv
    PROVE  /\ Len(queue) \in Nat /\ \A i \in 1..Len(queue) : queue[i] \in Conn
           /\ \A w \in Worker : client_fd[w] # NoConn => client_fd[w] \in Conn
  BY PoolAssumption DEF PoolInv, PoolTypeOK

\* A client connects: nothing the server holds changes.
LEMMA Keeps_Connect == ASSUME PoolInv, NEW c \in Conn, Connect(c) PROVE PoolInv'
  BY PoolAssumption DEF PoolInv, PoolTypeOK, AcceptInv, QueueInv, WorkerInv, ClosesInv, StopInv,
     Held, Serving, Places, Connect, accept_vars, server_vars

\* The accept loop reads is_running.
LEMMA Keeps_LoopHead == ASSUME PoolInv, LoopHead PROVE PoolInv'
  BY PoolAssumption DEF PoolInv, PoolTypeOK, AcceptInv, QueueInv, WorkerInv, ClosesInv, StopInv,
     LoopHead, server_vars

\* The listening socket is polled.
LEMMA Keeps_Poll == ASSUME PoolInv, Poll PROVE PoolInv'
  BY PoolAssumption DEF PoolInv, PoolTypeOK, AcceptInv, QueueInv, WorkerInv, ClosesInv, StopInv,
     Poll, server_vars

\* An accepted connection is in the hands of the accept loop.
LEMMA Keeps_Accept == ASSUME PoolInv, NEW c \in Conn, Accept(c) PROVE PoolInv'
  BY PoolAssumption DEF PoolInv, PoolTypeOK, AcceptInv, QueueInv, WorkerInv, ClosesInv, StopInv,
     Held, Serving, Places, Accept, server_vars

\* accept fails, and the loop goes on without a connection.
LEMMA Keeps_AcceptFails == ASSUME PoolInv, AcceptFails PROVE PoolInv'
  BY PoolAssumption DEF PoolInv, PoolTypeOK, AcceptInv, QueueInv, WorkerInv, ClosesInv, StopInv,
     AcceptFails, server_vars

\* shutdown is set after the accept loop, which then has no connection in hand.
LEMMA Keeps_http_pool_destroy == ASSUME PoolInv, http_pool_destroy PROVE PoolInv'
  BY PoolAssumption DEF PoolInv, PoolTypeOK, AcceptInv, QueueInv, WorkerInv, ClosesInv, StopInv,
     http_pool_destroy, server_vars

\* The server returns after every worker has left.
LEMMA Keeps_Joined == ASSUME PoolInv, Joined PROVE PoolInv'
  BY PoolAssumption DEF PoolInv, PoolTypeOK, AcceptInv, QueueInv, WorkerInv, ClosesInv, StopInv,
     Joined, server_vars

\* A spurious wakeup of the accept loop leaves its connection in hand.
LEMMA Keeps_AcceptorSpurious == ASSUME PoolInv, AcceptorSpurious PROVE PoolInv'
  BY PoolAssumption DEF PoolInv, PoolTypeOK, AcceptInv, QueueInv, WorkerInv, ClosesInv, StopInv,
     AcceptorSpurious, server_vars

\* A worker waits with no connection; it leaves only when none can come.
LEMMA Keeps_WorkerWaits == ASSUME PoolInv, NEW w \in Worker, WorkerWaits(w) PROVE PoolInv'
  BY PoolAssumption DEF PoolInv, PoolTypeOK, AcceptInv, QueueInv, WorkerInv, ClosesInv, StopInv,
     WorkerWaits, accept_vars, server_vars

\* A spurious wakeup gives a worker no connection.
LEMMA Keeps_WorkerSpurious == ASSUME PoolInv, NEW w \in Worker, WorkerSpurious(w) PROVE PoolInv'
  BY PoolAssumption DEF PoolInv, PoolTypeOK, AcceptInv, QueueInv, WorkerInv, ClosesInv, StopInv,
     WorkerSpurious, accept_vars, server_vars

\* A connection that is counted stays with its worker.
LEMMA Keeps_DrainBegins == ASSUME PoolInv, NEW w \in Worker, DrainBegins(w) PROVE PoolInv'
  BY PoolAssumption DEF PoolInv, PoolTypeOK, AcceptInv, QueueInv, WorkerInv, ClosesInv, StopInv,
     Held, Serving, Places, DrainBegins, At, accept_vars, server_vars

\* A connection is closed by the one worker that holds it, so once.
LEMMA Keeps_DrainCloses == ASSUME PoolInv, NEW w \in Worker, DrainCloses(w) PROVE PoolInv'
  BY PoolAssumption DEF PoolInv, PoolTypeOK, AcceptInv, QueueInv, WorkerInv, ClosesInv, StopInv,
     Held, Serving, Places, DrainCloses, At, accept_vars, server_vars

\* The worker lets go of the connection it has closed.
LEMMA Keeps_DrainEnds == ASSUME PoolInv, NEW w \in Worker, DrainEnds(w) PROVE PoolInv'
  BY PoolAssumption DEF PoolInv, PoolTypeOK, AcceptInv, QueueInv, WorkerInv, ClosesInv, StopInv,
     Held, Serving, Places, DrainEnds, At, accept_vars, server_vars

\* The shutdown thread reads the counter only.
LEMMA Keeps_ShutdownWaits == ASSUME PoolInv, ShutdownWaits PROVE PoolInv'
  BY PoolAssumption DEF PoolInv, PoolTypeOK, AcceptInv, QueueInv, WorkerInv, ClosesInv, StopInv,
     ShutdownWaits, accept_vars

\* The shutdown thread sleeps.
LEMMA Keeps_ShutdownSleeps == ASSUME PoolInv, ShutdownSleeps PROVE PoolInv'
  BY PoolAssumption DEF PoolInv, PoolTypeOK, AcceptInv, QueueInv, WorkerInv, ClosesInv, StopInv,
     ShutdownSleeps, accept_vars

\* The connection in hand becomes the last of the queue, or the loop waits.
LEMMA Keeps_http_pool_submit == ASSUME PoolInv, http_pool_submit PROVE PoolInv'
  <1> USE PoolAssumption
  <1>1. accepted \in Conn /\ conn[accepted] = "accepted" /\ ~ shutdown
    BY DEF PoolInv, PoolTypeOK, AcceptInv, QueueInv, WorkerInv, ClosesInv, StopInv, Held, Serving, Places, http_pool_submit, accept_vars, server_vars
  <1>2. CASE Len(queue) >= HTTP_POOL_QUEUE_CAP
    BY <1>1, <1>2 DEF PoolInv, PoolTypeOK, AcceptInv, QueueInv, WorkerInv, ClosesInv, StopInv, Held, Serving, Places, http_pool_submit, accept_vars, server_vars
  <1>3. CASE ~ (Len(queue) >= HTTP_POOL_QUEUE_CAP)
    <2>1. /\ queue' = Append(queue, accepted) /\ conn' = [conn EXCEPT ![accepted] = "queued"]
          /\ acceptor' = "loop" /\ accepted' = NoConn /\ worker' \in Woken
          /\ UNCHANGED <<closes, shutdown, client_fd, inflight_connections, is_running, socket_fd, tls_enabled, stopper, began>>
      BY <1>1, <1>3 DEF http_pool_submit, server_vars
    <2>2. /\ worker' \in [Worker -> {"lock", "waiting", "drain", "exited"}]
          /\ \A w \in Worker : worker'[w] = worker[w] \/ (worker[w] = "waiting" /\ worker'[w] = "lock")
      <3>1. CASE worker' = worker
        BY <3>1 DEF PoolInv, PoolTypeOK
      <3>2. CASE \E v \in Worker : worker[v] = "waiting" /\ worker' = [worker EXCEPT ![v] = "lock"]
        BY <3>2 DEF PoolInv, PoolTypeOK
      <3> QED BY <2>1, <3>1, <3>2 DEF Woken
    <2>3. /\ queue' \in Seq(Conn) /\ Len(queue') = Len(queue) + 1
          /\ \A i \in 1..Len(queue) : queue'[i] = queue[i]
          /\ queue'[Len(queue) + 1] = accepted
      BY <1>1, <2>1 DEF PoolInv, PoolTypeOK
    <2>4. PoolTypeOK'
      BY <1>1, <1>3, <2>1, <2>2, <2>3 DEF PoolInv, PoolTypeOK, Places
    <2>5. AcceptInv'
      BY <1>1, <2>1 DEF PoolInv, PoolTypeOK, AcceptInv
    <2>6. QueueInv'
      BY <1>1, <2>1, <2>3 DEF PoolInv, PoolTypeOK, QueueInv
    <2>7. WorkerInv'
      BY <1>1, <2>1, <2>2 DEF PoolInv, PoolTypeOK, WorkerInv, Held, Serving
    <2>8. ClosesInv'
      BY <1>1, <2>1 DEF PoolInv, PoolTypeOK, ClosesInv
    <2>9. StopInv'
      BY <1>1, <2>1, <2>2 DEF PoolInv, PoolTypeOK, StopInv
    <2> QED BY <2>4, <2>5, <2>6, <2>7, <2>8, <2>9 DEF PoolInv
  <1> QED BY <1>2, <1>3

\* The first connection of the queue moves to the worker, and to no other.
LEMMA Keeps_WorkerTakes == ASSUME PoolInv, NEW w \in Worker, WorkerTakes(w) PROVE PoolInv'
  <1> USE PoolAssumption
  <1> DEFINE c == Head(queue)
  <1>1. /\ c \in Conn /\ c = queue[1] /\ conn[c] = "queued" /\ 1 \in 1..Len(queue)
        /\ queue' \in Seq(Conn) /\ Len(queue') = Len(queue) - 1
        /\ \A i \in 1..Len(queue) - 1 : queue'[i] = queue[i + 1]
    BY DEF PoolInv, PoolTypeOK, QueueInv, WorkerTakes
  <1>2. /\ worker[w] = "lock" /\ client_fd[w] = NoConn
        /\ client_fd' = [client_fd EXCEPT ![w] = c] /\ conn' = [conn EXCEPT ![c] = "taken"]
        /\ worker' = [worker EXCEPT ![w] = "drain"]
        /\ acceptor' = IF acceptor = "not_full" THEN "submit" ELSE acceptor
        /\ UNCHANGED <<closes, shutdown, accepted, inflight_connections, is_running, socket_fd, tls_enabled, stopper, began>>
    BY DEF PoolInv, PoolTypeOK, WorkerInv, WorkerTakes, server_vars
  <1> HIDE DEF c
  <1>3. PoolTypeOK'
    BY <1>1, <1>2 DEF PoolInv, PoolTypeOK, Places
  <1>4. AcceptInv'
    BY <1>1, <1>2 DEF PoolInv, PoolTypeOK, AcceptInv
  <1>5. QueueInv'
    <2>1. ASSUME NEW i \in 1..Len(queue) - 1
          PROVE  i + 1 \in 1..Len(queue) /\ queue[i + 1] # c /\ queue[i + 1] \in Conn
      <3>1. i + 1 \in 1..Len(queue) /\ i + 1 # 1
        BY HeldAreConnections
      <3>2. queue[i + 1] # queue[1]
        BY <1>1, <3>1 DEF PoolInv, QueueInv
      <3> QED BY <1>1, <3>1, <3>2, HeldAreConnections
    <2>2. ASSUME NEW i \in 1..Len(queue') PROVE conn'[queue'[i]] = "queued"
      <3>1. i \in 1..Len(queue) - 1 /\ queue'[i] = queue[i + 1]
        BY <1>1, HeldAreConnections
      <3>2. queue[i + 1] \in Conn /\ queue[i + 1] # c /\ conn[queue[i + 1]] = "queued"
        BY <2>1, <3>1 DEF PoolInv, QueueInv
      <3> QED BY <1>2, <3>1, <3>2 DEF PoolInv, PoolTypeOK
    <2>3. ASSUME NEW i \in 1..Len(queue'), NEW j \in 1..Len(queue'), queue'[i] = queue'[j] PROVE i = j
      <3>1. /\ i + 1 \in 1..Len(queue) /\ queue'[i] = queue[i + 1]
            /\ j + 1 \in 1..Len(queue) /\ queue'[j] = queue[j + 1]
        BY <1>1, HeldAreConnections
      <3>2. i + 1 = j + 1
        BY <2>3, <3>1 DEF PoolInv, QueueInv
      <3> QED BY <3>2
    <2>4. ASSUME NEW d \in Conn, conn'[d] = "queued" PROVE \E i \in 1..Len(queue') : queue'[i] = d
      <3>1. d # c /\ conn[d] = "queued"
        BY <1>1, <1>2, <2>4 DEF PoolInv, PoolTypeOK
      <3>2. PICK i \in 1..Len(queue) : queue[i] = d
        BY <3>1 DEF PoolInv, QueueInv
      <3>3. i - 1 \in 1..Len(queue') /\ queue'[i - 1] = d
        BY <1>1, <3>1, <3>2
      <3> QED BY <3>3
    <2> QED BY <2>2, <2>3, <2>4 DEF QueueInv
  <1>6. WorkerInv'
    BY <1>1, <1>2 DEF PoolInv, PoolTypeOK, WorkerInv, Held, Serving
  <1>7. ClosesInv'
    BY <1>1, <1>2 DEF PoolInv, PoolTypeOK, ClosesInv
  <1>8. StopInv'
    BY <1>1, <1>2 DEF PoolInv, PoolTypeOK, StopInv
  <1> QED BY <1>3, <1>4, <1>5, <1>6, <1>7, <1>8 DEF PoolInv

\* A failed handshake closes the connection, a good one leads to its requests.
LEMMA Keeps_Handshake == ASSUME PoolInv, NEW w \in Worker, Handshake(w) PROVE PoolInv'
  <1> USE PoolAssumption
  <1> DEFINE c == client_fd[w]
  <1>1. c \in Conn /\ worker[w] = "drain" /\ conn[c] = "handshake" /\ closes[c] = 0
    BY HeldAreConnections DEF PoolInv, WorkerInv, ClosesInv, Handshake, At
  <1>2. UNCHANGED <<queue, shutdown, inflight_connections, acceptor, accepted, is_running, socket_fd, tls_enabled, stopper, began>>
    BY DEF Handshake, accept_vars, server_vars
  <1>3. CASE conn' = [conn EXCEPT ![c] = "handled"] /\ UNCHANGED <<closes, worker, client_fd>>
    <2>1. PoolTypeOK'
      BY <1>1, <1>2, <1>3 DEF PoolInv, PoolTypeOK, Places, Serving
    <2>2. AcceptInv' /\ QueueInv'
      BY <1>1, <1>2, <1>3 DEF PoolInv, PoolTypeOK, AcceptInv, QueueInv
    <2>3. WorkerInv'
      BY <1>1, <1>3 DEF PoolInv, PoolTypeOK, WorkerInv, Held, Serving
    <2>4. ClosesInv' /\ StopInv'
      BY <1>1, <1>2, <1>3 DEF PoolInv, PoolTypeOK, ClosesInv, StopInv
    <2> QED BY <2>1, <2>2, <2>3, <2>4 DEF PoolInv
  <1>4. CASE /\ conn' = [conn EXCEPT ![c] = "closed"] /\ closes' = [closes EXCEPT ![c] = @ + 1]
             /\ worker' = [worker EXCEPT ![w] = "lock"] /\ client_fd' = [client_fd EXCEPT ![w] = NoConn]
    <2>1. PoolTypeOK'
      BY <1>1, <1>2, <1>4 DEF PoolInv, PoolTypeOK, Places, Serving
    <2>2. AcceptInv' /\ QueueInv'
      BY <1>1, <1>2, <1>4 DEF PoolInv, PoolTypeOK, AcceptInv, QueueInv
    <2>3. WorkerInv'
      BY <1>1, <1>4 DEF PoolInv, PoolTypeOK, WorkerInv, Held, Serving
    <2>4. ClosesInv' /\ StopInv'
      BY <1>1, <1>2, <1>4 DEF PoolInv, PoolTypeOK, ClosesInv, StopInv
    <2> QED BY <2>1, <2>2, <2>3, <2>4 DEF PoolInv
  <1> QED BY <1>3, <1>4 DEF Handshake

\* http_server_stop clears is_running.
LEMMA Keeps_StopRunning == ASSUME PoolInv, StopRunning PROVE PoolInv'
  <1>1. began' \subseteq Conn
    BY DEF StopRunning
  <1>2. /\ stopper' = "stopping" /\ is_running' = FALSE
        /\ UNCHANGED <<conn, closes, queue, shutdown, worker, client_fd, acceptor, accepted, socket_fd, inflight_connections, tls_enabled>>
    BY DEF StopRunning, accept_vars
  <1>3. PoolTypeOK'
    BY <1>1, <1>2 DEF PoolInv, PoolTypeOK
  <1>4. AcceptInv' /\ QueueInv' /\ WorkerInv' /\ ClosesInv' /\ StopInv'
    BY <1>2 DEF PoolInv, AcceptInv, QueueInv, WorkerInv, ClosesInv, StopInv
  <1> QED BY <1>3, <1>4 DEF PoolInv

\* http_server_stop closes the listening socket; only its backlog is lost.
LEMMA Keeps_http_server_stop == ASSUME PoolInv, http_server_stop PROVE PoolInv'
  <1> USE PoolAssumption
  <1>1. /\ stopper' = "draining" /\ socket_fd' = FALSE
        /\ UNCHANGED <<closes, queue, shutdown, worker, client_fd, acceptor, accepted, is_running, inflight_connections, tls_enabled, began>>
    BY DEF http_server_stop, accept_vars
  <1>2. /\ conn' \in [Conn -> Places]
        /\ \A c \in Conn : conn'[c] = conn[c] \/ (conn[c] = "backlog" /\ conn'[c] = "refused")
    BY DEF http_server_stop, PoolInv, PoolTypeOK, Places
  <1>3. PoolTypeOK'
    BY <1>1, <1>2 DEF PoolInv, PoolTypeOK
  <1>4. AcceptInv'
    BY <1>1, <1>2 DEF PoolInv, PoolTypeOK, AcceptInv
  <1>5. QueueInv'
    <2>1. \A c \in Conn : conn'[c] = "queued" <=> conn[c] = "queued"
      BY <1>2
    <2> QED BY <1>1, <2>1, HeldAreConnections DEF PoolInv, QueueInv
  <1>6. WorkerInv'
    <2>1. \A c \in Conn : conn'[c] \in Held <=> conn[c] \in Held
      BY <1>2 DEF Held, Serving
    <2> QED BY <1>1, <2>1, HeldAreConnections DEF PoolInv, WorkerInv
  <1>7. ClosesInv'
    BY <1>1, <1>2 DEF PoolInv, ClosesInv
  <1>8. StopInv'
    BY <1>1 DEF PoolInv, StopInv
  <1> QED BY <1>3, <1>4, <1>5, <1>6, <1>7, <1>8 DEF PoolInv

\* Before the server runs no connection is anywhere but with its client.
LEMMA PoolInit == pool_init => PoolInv
  <1> SUFFICES ASSUME pool_init PROVE PoolInv
    OBVIOUS
  <1>1. PoolTypeOK
    <2>1. queue \in Seq(Conn) /\ Len(queue) <= HTTP_POOL_QUEUE_CAP
      BY PoolAssumption DEF pool_init
    <2>2. /\ conn \in [Conn -> Places] /\ closes \in [Conn -> Nat]
          /\ worker \in [Worker -> {"lock", "waiting", "drain", "exited"}]
          /\ client_fd \in [Worker -> Conn \cup {NoConn}]
      BY DEF pool_init, Places
    <2>3. shutdown \in BOOLEAN /\ is_running \in BOOLEAN /\ socket_fd \in BOOLEAN /\ tls_enabled \in BOOLEAN
      BY DEF pool_init
    <2>4. inflight_connections \in Int /\ began \subseteq Conn
      BY DEF pool_init
    <2>5. acceptor = "loop" /\ accepted = NoConn /\ stopper = "idle"
      BY DEF pool_init
    <2> QED BY <2>1, <2>2, <2>3, <2>4, <2>5 DEF PoolTypeOK
  <1>2. AcceptInv /\ StopInv
    BY DEF pool_init, AcceptInv, StopInv
  <1>3. QueueInv
    BY DEF pool_init, QueueInv
  <1>4. WorkerInv
    BY DEF pool_init, WorkerInv, Held, Serving
  <1>5. ClosesInv
    BY DEF pool_init, ClosesInv
  <1> QED BY <1>1, <1>2, <1>3, <1>4, <1>5 DEF PoolInv

\* Every step of the server keeps the inductive invariant.
LEMMA PoolStep == PoolInv /\ [pool_next]_pool_vars => PoolInv'
  <1> SUFFICES ASSUME PoolInv, [pool_next]_pool_vars PROVE PoolInv'
    OBVIOUS
  <1>1. ASSUME NEW c \in Conn, Connect(c) PROVE PoolInv'
    BY <1>1, Keeps_Connect
  <1>2. CASE AcceptLoop
    BY <1>2, Keeps_LoopHead, Keeps_Poll, Keeps_Accept, Keeps_AcceptFails, Keeps_http_pool_submit,
       Keeps_http_pool_destroy, Keeps_Joined DEF AcceptLoop
  <1>3. ASSUME NEW w \in Worker, http_pool_worker(w) PROVE PoolInv'
    BY <1>3, Keeps_WorkerWaits, Keeps_WorkerTakes, Keeps_DrainBegins, Keeps_Handshake, Keeps_DrainCloses,
       Keeps_DrainEnds DEF http_pool_worker
  <1>4. CASE AcceptorSpurious \/ \E w \in Worker : WorkerSpurious(w)
    BY <1>4, Keeps_AcceptorSpurious, Keeps_WorkerSpurious
  <1>5. CASE StopRunning \/ http_server_stop \/ ShutdownWaits \/ ShutdownSleeps
    BY <1>5, Keeps_StopRunning, Keeps_http_server_stop, Keeps_ShutdownWaits, Keeps_ShutdownSleeps
  <1>6. CASE UNCHANGED pool_vars
    BY <1>6 DEF PoolInv, PoolTypeOK, AcceptInv, QueueInv, WorkerInv, ClosesInv, StopInv, pool_vars
  <1> QED BY <1>1, <1>2, <1>3, <1>4, <1>5, <1>6 DEF pool_next

\* The inductive invariant: every connection is in one place, which accounts for it.
THEOREM PoolInvariance == pool_spec => []PoolInv
  BY PoolInit, PoolStep, PTL DEF pool_spec

\* No connection is closed twice, and every connection that was accepted has been
\* closed when http_server_start_raw returns.
THEOREM ConnectionsClosed == pool_spec => []EveryConnectionClosed
  <1>1. PoolInv => EveryConnectionClosed
    <2> SUFFICES ASSUME PoolInv PROVE EveryConnectionClosed
      OBVIOUS
    <2>1. ASSUME NEW c \in Conn PROVE closes[c] <= 1
      <3>1. closes[c] = 0 \/ closes[c] = 1
        BY DEF PoolInv, ClosesInv
      <3> QED BY <3>1
    <2>2. ASSUME acceptor = "stopped", NEW c \in Conn
          PROVE  conn[c] \in {"outside", "backlog", "refused"} \/ closes[c] = 1
      <3>1. queue = << >> /\ accepted = NoConn /\ \A w \in Worker : worker[w] = "exited"
        BY <2>2, PoolAssumption DEF PoolInv, AcceptInv, StopInv
      <3>2. conn[c] # "accepted"
        BY <3>1, PoolAssumption DEF PoolInv, AcceptInv
      <3>3. conn[c] # "queued"
        BY <3>1 DEF PoolInv, QueueInv
      <3>4. conn[c] \notin Held
        BY <3>1, PoolAssumption DEF PoolInv, WorkerInv
      <3> QED BY <3>2, <3>3, <3>4 DEF PoolInv, PoolTypeOK, ClosesInv, Places, Held, Serving
    <2> QED BY <2>1, <2>2 DEF EveryConnectionClosed
  <1> QED BY <1>1, PoolInvariance, PTL

----------------------------------------------------------------------------
(* Graceful shutdown.  A failed handshake leaves the counter too high, so   *)
(* it only bounds the connections in progress.                              *)

InProgress == {c \in Conn : conn[c] \in Serving}
CountInv == IsFiniteSet(InProgress) /\ Cardinality(InProgress) <= inflight_connections
CleanInv ==
    /\ \A c \in began : conn[c] \in Serving \cup {"closed"}
    /\ stopper = "clean" => \A c \in began : conn[c] = "closed"

\* A step puts one connection in progress and counts it, or ends one and counts it out
\* or not, or does neither.
CountStep ==
    \/ InProgress' = InProgress /\ inflight_connections' = inflight_connections
    \/ \E c \in Conn : InProgress' = InProgress \cup {c} /\ c \notin InProgress /\ inflight_connections' = inflight_connections + 1
    \/ \E c \in InProgress : /\ InProgress' = InProgress \ {c}
                             /\ inflight_connections' \in {inflight_connections, inflight_connections - 1}

\* A connection in progress is served to its end, and stays closed.
ServedStep ==
    \A c \in Conn : /\ conn[c] \in Serving => conn'[c] \in Serving \cup {"closed"}
                    /\ conn[c] = "closed" => conn'[c] = "closed"

\* One connection moves outside of the service.
LEMMA OneMoves ==
    ASSUME PoolInv, NEW c \in Conn, NEW p \in Places \ (Serving \cup {"closed"}),
           conn' = [conn EXCEPT ![c] = p], conn[c] \notin Serving \cup {"closed"},
           UNCHANGED inflight_connections
    PROVE  CountStep /\ ServedStep
  <1>1. \A d \in Conn : conn'[d] \in Serving <=> conn[d] \in Serving
    BY DEF PoolInv, PoolTypeOK, Serving
  <1>2. InProgress' = InProgress
    BY <1>1 DEF InProgress
  <1>3. ServedStep
    BY DEF ServedStep, PoolInv, PoolTypeOK, Serving
  <1> QED BY <1>2, <1>3 DEF CountStep

\* A step that moves no connection and counts none.
LEMMA NoneMoves ==
    ASSUME UNCHANGED <<conn, inflight_connections>>
    PROVE  CountStep /\ ServedStep
  BY DEF CountStep, ServedStep, InProgress

\* A worker counts a connection in before it serves it, and out after it is closed.
LEMMA WorkerCounts == ASSUME PoolInv, NEW w \in Worker, http_pool_worker(w) PROVE CountStep /\ ServedStep
  <1> DEFINE c == client_fd[w]
  <1>1. CASE WorkerWaits(w)
    BY <1>1, NoneMoves DEF WorkerWaits
  <1>2. CASE WorkerTakes(w)
    <2>1. Head(queue) \in Conn /\ conn[Head(queue)] = "queued"
      BY <1>2 DEF WorkerTakes, PoolInv, PoolTypeOK, QueueInv
    <2> QED BY <1>2, <2>1, OneMoves DEF WorkerTakes, Places, Serving
  <1>3. ASSUME worker[w] = "drain" PROVE c \in Conn
    BY <1>3, PoolAssumption DEF PoolInv, PoolTypeOK, WorkerInv
  <1>4. CASE DrainBegins(w)
    <2>1. c \in Conn /\ conn[c] = "taken" /\ inflight_connections' = inflight_connections + 1
      BY <1>3, <1>4 DEF DrainBegins, At
    <2>2. PICK p \in {"handshake", "handled"} : conn' = [conn EXCEPT ![c] = p]
      BY <1>4 DEF DrainBegins
    <2> HIDE DEF c
    <2>3. \A d \in Conn : conn'[d] \in Serving <=> conn[d] \in Serving \/ d = c
      BY <2>1, <2>2 DEF PoolInv, PoolTypeOK, Serving
    <2>4. InProgress' = InProgress \cup {c} /\ c \notin InProgress
      BY <2>1, <2>3 DEF InProgress, Serving
    <2>5. ServedStep
      BY <2>1, <2>2 DEF ServedStep, PoolInv, PoolTypeOK, Serving
    <2> QED BY <2>1, <2>4, <2>5 DEF CountStep
  <1>5. ASSUME c \in Conn, conn[c] \in Serving, conn' = [conn EXCEPT ![c] = "closed"],
               inflight_connections' \in {inflight_connections, inflight_connections - 1}
        PROVE  CountStep /\ ServedStep
    <2> HIDE DEF c
    <2>1. \A d \in Conn : conn'[d] \in Serving <=> conn[d] \in Serving /\ d # c
      BY <1>5 DEF PoolInv, PoolTypeOK, Serving
    <2>2. InProgress' = InProgress \ {c} /\ c \in InProgress
      BY <1>5, <2>1 DEF InProgress
    <2>3. ServedStep
      BY <1>5 DEF ServedStep, PoolInv, PoolTypeOK, Serving
    <2> QED BY <1>5, <2>2, <2>3 DEF CountStep
  <1>6. ASSUME c \in Conn, conn[c] \in Serving, NEW p \in Serving, conn' = [conn EXCEPT ![c] = p],
               UNCHANGED inflight_connections
        PROVE  CountStep /\ ServedStep
    <2> HIDE DEF c
    <2>1. \A d \in Conn : conn'[d] \in Serving <=> conn[d] \in Serving
      BY <1>6 DEF PoolInv, PoolTypeOK
    <2>2. InProgress' = InProgress
      BY <2>1 DEF InProgress
    <2>3. ServedStep
      BY <1>6 DEF ServedStep, PoolInv, PoolTypeOK, Serving
    <2> QED BY <1>6, <2>2, <2>3 DEF CountStep
  <1>7. CASE Handshake(w)
    <2>1. c \in Conn /\ conn[c] \in Serving /\ UNCHANGED inflight_connections
      BY <1>3, <1>7 DEF Handshake, At, Serving
    <2>2. \/ conn' = [conn EXCEPT ![c] = "handled"]
          \/ conn' = [conn EXCEPT ![c] = "closed"]
      BY <1>7 DEF Handshake
    <2> QED BY <1>5, <1>6, <2>1, <2>2 DEF Serving
  <1>8. CASE DrainCloses(w)
    BY <1>3, <1>6, <1>8 DEF DrainCloses, At, Serving
  <1>9. CASE DrainEnds(w)
    BY <1>3, <1>5, <1>9 DEF DrainEnds, At, Serving
  <1> QED BY <1>1, <1>2, <1>4, <1>7, <1>8, <1>9 DEF http_pool_worker

\* No step but a worker's changes what is in progress or the counter.
LEMMA EveryStepCounts == ASSUME PoolInv, [pool_next]_pool_vars PROVE CountStep /\ ServedStep
  <1>1. ASSUME NEW c \in Conn, Connect(c) PROVE CountStep /\ ServedStep
    BY <1>1, OneMoves DEF Connect, Places, Serving
  <1>2. CASE AcceptLoop
    <2>1. ASSUME NEW c \in Conn, Accept(c) PROVE CountStep /\ ServedStep
      BY <2>1, OneMoves DEF Accept, Places, Serving
    <2>2. CASE http_pool_submit
      <3>1. accepted \in Conn /\ conn[accepted] = "accepted" /\ ~ shutdown
        BY <2>2, PoolAssumption DEF http_pool_submit, PoolInv, PoolTypeOK, AcceptInv, StopInv
      <3>2. CASE Len(queue) >= HTTP_POOL_QUEUE_CAP
        BY <2>2, <3>1, <3>2, NoneMoves DEF http_pool_submit
      <3>3. CASE ~ (Len(queue) >= HTTP_POOL_QUEUE_CAP)
        BY <2>2, <3>1, <3>3, OneMoves DEF http_pool_submit, Places, Serving
      <3> QED BY <3>2, <3>3
    <2>3. CASE LoopHead \/ Poll \/ AcceptFails \/ http_pool_destroy \/ Joined
      BY <2>3, NoneMoves DEF LoopHead, Poll, AcceptFails, http_pool_destroy, Joined
    <2> QED BY <1>2, <2>1, <2>2, <2>3 DEF AcceptLoop
  <1>3. CASE AcceptorSpurious \/ \E w \in Worker : WorkerSpurious(w)
    BY <1>3, NoneMoves DEF AcceptorSpurious, WorkerSpurious
  <1>4. CASE StopRunning \/ ShutdownWaits \/ ShutdownSleeps
    BY <1>4, NoneMoves DEF StopRunning, ShutdownWaits, ShutdownSleeps
  <1>5. CASE http_server_stop
    <2>1. UNCHANGED inflight_connections
      BY <1>5 DEF http_server_stop
    <2>2. \A c \in Conn : conn'[c] = conn[c] \/ (conn[c] = "backlog" /\ conn'[c] = "refused")
      BY <1>5 DEF http_server_stop
    <2>3. InProgress' = InProgress
      BY <2>2 DEF InProgress, Serving
    <2>4. ServedStep
      BY <2>2 DEF ServedStep, Serving
    <2> QED BY <2>1, <2>3, <2>4 DEF CountStep
  <1>6. CASE UNCHANGED pool_vars
    BY <1>6, NoneMoves DEF pool_vars
  <1> QED BY <1>1, <1>2, <1>3, <1>4, <1>5, <1>6, WorkerCounts DEF pool_next

\* At first nothing is in progress.
LEMMA CountInit == pool_init => CountInv /\ CleanInv
  <1> SUFFICES ASSUME pool_init PROVE CountInv /\ CleanInv
    OBVIOUS
  <1>1. InProgress = {}
    BY DEF pool_init, InProgress, Serving
  <1>2. inflight_connections = 0 /\ began = {}
    BY DEF pool_init
  <1> QED BY <1>1, <1>2, FS_EmptySet DEF CountInv, CleanInv

\* The connections in progress are never more than are counted.
LEMMA CountKept == ASSUME PoolInv, CountInv, CountStep PROVE CountInv'
  <1>1. inflight_connections \in Int /\ IsFiniteSet(InProgress) /\ Cardinality(InProgress) \in Nat
    BY FS_CardinalityType DEF PoolInv, PoolTypeOK, CountInv
  <1>2. CASE InProgress' = InProgress /\ inflight_connections' = inflight_connections
    BY <1>1, <1>2 DEF CountInv
  <1>3. ASSUME NEW c \in Conn, InProgress' = InProgress \cup {c}, c \notin InProgress,
               inflight_connections' = inflight_connections + 1
        PROVE  CountInv'
    <2>1. IsFiniteSet(InProgress') /\ Cardinality(InProgress') = Cardinality(InProgress) + 1
      BY <1>1, <1>3, FS_AddElement
    <2> QED BY <1>1, <1>3, <2>1 DEF CountInv
  <1>4. ASSUME NEW c \in InProgress, InProgress' = InProgress \ {c},
               inflight_connections' \in {inflight_connections, inflight_connections - 1}
        PROVE  CountInv'
    <2>1. IsFiniteSet(InProgress') /\ Cardinality(InProgress') = Cardinality(InProgress) - 1
      BY <1>1, <1>4, FS_RemoveElement
    <2> QED BY <1>1, <1>4, <2>1 DEF CountInv
  <1> QED BY <1>2, <1>3, <1>4 DEF CountStep

\* What was being served when the shutdown began is in progress or closed.
LEMMA CleanKept ==
    ASSUME PoolInv, CountInv, CleanInv, [pool_next]_pool_vars, ServedStep PROVE CleanInv'
  <1>1. CASE began' = began /\ (stopper' = "clean" => stopper = "clean")
    BY <1>1 DEF CleanInv, ServedStep, PoolInv, PoolTypeOK, Serving
  <1>2. CASE StopRunning
    BY <1>2 DEF StopRunning, CleanInv
  <1>3. CASE ShutdownWaits
    <2>1. CASE inflight_connections <= 0
      <3>1. InProgress = {}
        BY <2>1, FS_EmptySet, FS_CardinalityType DEF CountInv, PoolInv, PoolTypeOK
      <3>2. \A c \in began : conn[c] = "closed"
        BY <3>1 DEF CleanInv, InProgress, PoolInv, PoolTypeOK
      <3> QED BY <1>3, <3>2 DEF ShutdownWaits, CleanInv
    <2>2. CASE ~ (inflight_connections <= 0)
      BY <1>1, <1>3, <2>2 DEF ShutdownWaits
    <2> QED BY <2>1, <2>2
  <1>4. CASE ~ StopRunning /\ ~ ShutdownWaits
    <2>1. CASE UNCHANGED <<stopper, began>>
      BY <1>1, <2>1
    <2>2. CASE http_server_stop \/ ShutdownSleeps
      BY <1>1, <2>2 DEF http_server_stop, ShutdownSleeps
    <2>3. CASE pool_next /\ ~ http_server_stop /\ ~ ShutdownSleeps
      BY <1>4, <2>1, <2>3 DEF pool_next, AcceptLoop, http_pool_worker, Connect, LoopHead, Poll, Accept, AcceptFails,
         http_pool_submit, http_pool_destroy, Joined, AcceptorSpurious, WorkerWaits, WorkerTakes, WorkerSpurious,
         DrainBegins, Handshake, DrainCloses, DrainEnds, server_vars
    <2> QED BY <2>1, <2>2, <2>3 DEF pool_vars
  <1> QED BY <1>2, <1>3, <1>4

\* A graceful shutdown that reports success has waited for the connections that were
\* being served when it began (http_server_shutdown_graceful_raw).
THEOREM ShutdownClean == pool_spec => []GracefulClean
  <1>1. pool_init => PoolInv /\ CountInv /\ CleanInv
    BY PoolInit, CountInit
  <1>2. PoolInv /\ CountInv /\ CleanInv /\ [pool_next]_pool_vars => (PoolInv /\ CountInv /\ CleanInv)'
    BY PoolStep, EveryStepCounts, CountKept, CleanKept
  <1>3. PoolInv /\ CleanInv => GracefulClean
    BY DEF PoolInv, PoolTypeOK, ClosesInv, CleanInv, GracefulClean
  <1> QED BY <1>1, <1>2, <1>3, PTL DEF pool_spec
=============================================================================
