------------------------------ MODULE HttpServer ------------------------------
(***************************************************************************)
(* The HTTP server: the single-threaded reactor of Server::Impl, the       *)
(* HTTP/1.1 connections and WebSockets it owns, the handler, body-stream   *)
(* and message tasks that finish on other threads, and the clients.        *)
(*                                                                         *)
(* A connection is a record, and every method of the server that takes a   *)
(* ConnectionState& is an operator from records to records.  A connection  *)
(* works on one request at a time, its latest (the one numbered `served'), *)
(* so the pointers pending, stream, pending_stream, stream_request,        *)
(* websocket, pending_websocket and the flag stream_terminal_queued are    *)
(* one field, `stage':                                                     *)
(*   idle     none is set           end     the last chunk is queued       *)
(*   handler  pending               ws      websocket                      *)
(*   open     stream                message websocket, pending_websocket   *)
(*   chunk    stream, pending_stream                                       *)
(*                                                                         *)
(* Bytes are units: a complete request ("get"), the beginning of one that  *)
(* is never finished ("part"), bytes no request or frame starts with       *)
(* ("bad"), the frames of a WebSocket, and the end of the stream ("eof").  *)
(* Output is one piece at a time, with the number of the request it        *)
(* belongs to.  TLS and HTTP/2 are left out.                               *)
(***************************************************************************)
EXTENDS Naturals, FiniteSets, SequencesExt

CONSTANTS
    Conns,            \* the clients that will connect
    MaxConnections,   \* RuntimeOptions::max_connections
    MaxRequests,      \* RuntimeOptions::max_requests_per_connection
    MaxActive,        \* RuntimeOptions::max_active_dispatches
    Budgets,          \* bounds on what each client sends; 0: it does not connect
    None

ASSUME HttpAssumption ==
    /\ MaxConnections \in Nat /\ MaxRequests \in Nat \ {0}
    /\ MaxActive \in Nat /\ Budgets \subseteq [Conns -> Nat]

VARIABLES
    phase,     \* where Server::Impl::listen is
    running,   \* Server::Impl::running
    drain,     \* "no", "draining" once drain_deadline is set, "late" after it
    conn,      \* the connections
    revents,   \* what the last poll reported for each connection
    net,       \* units on their way from the client
    left,      \* how many units each client may still send
    client,    \* what the client is up to
    got        \* pieces the client has received

httpvars == <<phase, running, drain, conn, revents, net, left, client, got>>

Frames == {"msg", "first", "cont", "ping", "pong", "close"}
Requests == {"get", "last", "part", "bad"}
Parts == {"full", "failed", "headers", "chunk", "end", "overload", "error", "upgrade", "reply",
          "pong", "close"}
Results == [handler |-> {"full", "failed", "stream", "upgrade", "badUpgrade"},
            chunk |-> {"chunk", "empty", "end", "failed"},
            message |-> {"reply", "none", "close", "failed"}]
Stages == {"idle", "handler", "open", "chunk", "end", "ws", "message"}
Pieces == [n : 0..MaxRequests, part : Parts]

Fresh == [st |-> "new", input |-> <<>>, output |-> None, stage |-> "idle", keep |-> FALSE,
          closeAfter |-> FALSE, closeSent |-> FALSE, frag |-> FALSE, served |-> 0,
          task |-> None, cancelled |-> FALSE, cut |-> FALSE]

(* One type invariant: ConnectionState and its pending work.               *)
HttpTypeOK ==
    /\ phase \in {"idle", "top", "events", "waiting", "returned"}
    /\ running \in BOOLEAN
    /\ drain \in {"no", "draining", "late"}
    /\ \A c \in Conns :
          LET k == conn[c] IN
          /\ k.st \in {"new", "open", "closed"}
          /\ k.input \in Seq(Frames \cup Requests) /\ k.output \in Pieces \cup {None}
          /\ k.stage \in Stages /\ k.served \in 0..MaxRequests
          /\ k.stage \in {"handler", "chunk", "message"} => k.task # None
          /\ k.stage \in {"open", "end"} => k.output # None
          /\ k.task \in {None, "run"} \cup UNION {Results[w] : w \in DOMAIN Results}
    /\ revents \in [Conns -> {None, "accept", "read", "write", "hup"}]
    /\ client \in [Conns -> {"up", "stalled", "gone"}]

Open(c) == conn[c].st = "open"
Count == Cardinality({c \in Conns : Open(c)})
Active == Cardinality({c \in Conns : conn[c].task = "run"})
Busy(k) == k.stage # "idle" \/ k.output # None

-----------------------------------------------------------------------------
(* Operations on one connection.                                           *)

(* Mutant of Cancelled: the token of a streaming response is forgotten. *)
CancelHandlerOnly(k) == [k EXCEPT !.cancelled = @ \/ k.stage \in {"handler", "ws", "message"}]

Cancelled(k) == [k EXCEPT !.cancelled = @ \/ k.stage # "idle"]

(* Closing a connection; what was still running lives on without it.  `cut' *)
(* remembers that an answer under way was given up for the reason `why'.    *)
close_connection(k, why) ==
    [Cancelled(k) EXCEPT !.st = "closed", !.cut = @ \/ (why /\ Busy(k)), !.stage = "idle",
                         !.input = <<>>, !.output = None, !.frag = FALSE,
                         !.task = IF @ = "run" THEN @ ELSE None]

Queue(k, part) == [k EXCEPT !.output = [n |-> k.served, part |-> part]]

Start(k, what) == [k EXCEPT !.stage = what, !.task = "run"]

(* Mutant of Settled: the pointer to the finished work is kept. *)
SettledButKept(k, stage) == [k EXCEPT !.task = None]

Settled(k, stage) == [k EXCEPT !.stage = stage, !.task = None]

request_stream_chunk(k) == Start(k, "chunk")
dispatch_websocket_message(k) == Start(k, "message")

queue_error(k) ==
    [Queue(Cancelled(k), "error") EXCEPT !.cut = @ \/ Busy(k), !.stage = "idle",
        !.closeAfter = TRUE, !.input = <<>>, !.frag = FALSE,
        !.task = IF @ = "run" THEN @ ELSE None]

websocket_fail(k) ==
    IF k.closeSent
    THEN close_connection(k, FALSE)
    ELSE [Queue(Cancelled(k), "close") EXCEPT !.stage = "ws", !.input = <<>>, !.frag = FALSE,
             !.closeAfter = TRUE, !.closeSent = TRUE, !.task = IF @ = "run" THEN @ ELSE None]

(* One frame of process_websocket_buffer, which stops at the first frame   *)
(* that starts a message handler or queues output.                         *)
ControlFrame(k, f) ==
    CASE f = "ping" -> Queue(k, "pong")
      [] f = "pong" -> k
      [] f = "close" -> [Queue(Cancelled(k), "close") EXCEPT !.closeAfter = TRUE,
                                                             !.closeSent = TRUE]

DataFrame(k, f) ==
    CASE f = "first" /\ ~k.frag -> [k EXCEPT !.frag = TRUE]
      [] f = "cont" /\ k.frag -> [dispatch_websocket_message(k) EXCEPT !.frag = FALSE]
      [] f = "msg" /\ ~k.frag -> dispatch_websocket_message(k)
      [] OTHER -> websocket_fail(k)

Frame(k, f) ==
    CASE k.st = "closed" \/ k.closeSent -> k
      [] k.st # "closed" /\ ~k.closeSent /\ (k.stage = "message" \/ k.output # None) ->
            [k EXCEPT !.input = Append(@, f)]
      [] OTHER -> IF f \in {"ping", "pong", "close"} THEN ControlFrame(k, f) ELSE DataFrame(k, f)

process_websocket_buffer(k) == FoldLeft(Frame, [k EXCEPT !.input = <<>>], k.input)

(* The reactor picks up finished work.  A new answer keeps the connection  *)
(* only if the server still runs and nothing has asked to close it.        *)
complete_ready_handler(k) ==
    IF k.st # "open" \/ k.stage # "handler" \/ k.task = "run" THEN k
    ELSE LET keep == k.keep /\ running /\ ~k.closeAfter
             Answer(part, stage) ==
                 [Queue(Settled(k, stage), part) EXCEPT !.closeAfter = ~keep]
         IN CASE k.task = "full" -> Answer("full", "idle")
              [] k.task = "failed" -> [Answer("failed", "idle") EXCEPT !.closeAfter = TRUE]
              [] k.task = "stream" -> Answer("headers", "open")
              [] k.task = "badUpgrade" -> queue_error(Settled(k, "idle"))
              [] k.task = "upgrade" -> [Queue(Settled(k, "ws"), "upgrade") EXCEPT
                                           !.closeAfter = FALSE]

complete_ready_stream(k) ==
    IF k.st # "open" \/ k.stage # "chunk" \/ k.task = "run" THEN k
    ELSE CASE k.task = "failed" -> close_connection(k, TRUE)
           [] k.task = "end" -> Queue(Settled(k, "end"), "end")
           [] k.task = "empty" -> request_stream_chunk(k)
           [] k.task = "chunk" -> Queue(Settled(k, "open"), "chunk")

complete_ready_websocket(k) ==
    IF k.st # "open" \/ k.stage # "message" \/ k.task = "run" THEN k
    ELSE LET idle == Settled(k, "ws")
         IN CASE k.task = "failed" -> websocket_fail(idle)
              [] k.task = "none" -> process_websocket_buffer(idle)
              [] k.task = "reply" -> Queue(idle, "reply")
              [] k.task = "close" -> [Queue(idle, "close") EXCEPT !.closeAfter = TRUE,
                                                                  !.closeSent = TRUE]

complete_ready(k) ==
    complete_ready_websocket(complete_ready_stream(complete_ready_handler(k)))

(* request_size: whether the input starts with a whole request.            *)
Whole(k) == k.input # <<>> /\ Head(k.input) \in {"get", "last"}
Malformed(k) == k.input # <<>> /\ Head(k.input) \notin {"get", "last", "part"}

(* Mutant of Occupied: the body of the last answer is not waited for. *)
OccupiedByHandler(k) == k.output # None \/ k.stage \notin {"idle", "chunk"}

Occupied(k) == k.output # None \/ k.stage # "idle"

(* "last" is a request that does not let the connection be kept: it says   *)
(* close, or HTTP/1.0 without keep-alive, or options.keep_alive is off.    *)
keep_alive_for(k, request) == request = "get" /\ k.served < MaxRequests

(* The next request leaves the input and is dispatched; the handler may    *)
(* finish at once (sync is its result) or suspend (sync is "run").         *)
prepare_response(k, sync) ==
    IF Occupied(k) \/ ~Whole(k) THEN k
    ELSE LET next == [k EXCEPT !.input = Tail(@), !.served = @ + 1, !.cancelled = FALSE]
         IN IF Active >= MaxActive
            THEN [Queue(next, "overload") EXCEPT !.closeAfter = TRUE, !.input = <<>>]
            ELSE complete_ready_handler(
                    [Start(next, "handler") EXCEPT !.task = sync,
                        !.keep = running /\ keep_alive_for(next, Head(k.input))])

(* The read handler, after `units' have arrived.                           *)
read_ready(k, units, sync) ==
    LET more == [k EXCEPT !.input = @ \o units]
    IN IF units = <<>> THEN close_connection(k, TRUE)
       ELSE IF k.stage \in {"ws", "message"} THEN process_websocket_buffer(more)
       ELSE IF Malformed(more) THEN queue_error(more)
       ELSE prepare_response(more, sync)

(* The write handler, once the output is written.                          *)
write_ready(k, sync) ==
    LET clear == [k EXCEPT !.output = None]
        over == [clear EXCEPT !.stage = "idle"]
    IN IF k.stage \in {"ws", "message"}
       THEN IF k.closeAfter THEN close_connection(clear, FALSE)
            ELSE process_websocket_buffer(clear)
       ELSE IF k.stage = "open" THEN request_stream_chunk(clear)
       ELSE IF k.closeAfter \/ Malformed(k) THEN close_connection(over, FALSE)
       ELSE prepare_response(over, sync)

(* Mutant of InFlight: a response between two chunks counts as idle. *)
InFlightNoStream(k) == k.stage = "handler" \/ k.output # None

InFlight(k) == k.stage \in {"handler", "chunk"} \/ k.output # None

(* The pass over the connections when the drain begins.                    *)
Drained(k) ==
    IF k.st # "open" THEN k
    ELSE IF k.stage \in {"ws", "message"}
    THEN LET told == [Cancelled(k) EXCEPT !.input = <<>>, !.closeAfter = TRUE]
         IN IF k.output = None /\ ~k.closeSent
            THEN [Queue(told, "close") EXCEPT !.closeSent = TRUE] ELSE told
    ELSE IF InFlight(k) THEN [k EXCEPT !.input = <<>>, !.closeAfter = TRUE]
    ELSE close_connection(k, FALSE)

-----------------------------------------------------------------------------
(* The clients.                                                            *)

Upgraded(c) == \E i \in DOMAIN got[c] : got[c][i].part = "upgrade"

ClientSends(c) ==
    /\ client[c] = "up" /\ Open(c) /\ left[c] > 0
    /\ \E u \in (IF Upgraded(c) THEN Frames ELSE Requests) : net' = [net EXCEPT ![c] = Append(@, u)]
    /\ left' = [left EXCEPT ![c] = @ - 1]
    /\ UNCHANGED <<phase, running, drain, conn, revents, client, got>>

(* The client goes away, or stops reading.                                 *)
ClientLeaves(c) ==
    /\ client[c] = "up" /\ Open(c)
    /\ \E how \in {"stalled", "gone"} : client' = [client EXCEPT ![c] = how]
    /\ UNCHANGED <<phase, running, drain, conn, revents, net, left, got>>

-----------------------------------------------------------------------------
(* Tasks on other threads, and whoever stops the server.                   *)

(* settle_dispatch, settle_stream_chunk and settle_websocket_message: the  *)
(* result is stored, and lost if the connection has given the task up.     *)
Finish(c) ==
    /\ conn[c].task = "run"
    /\ \E r \in (IF conn[c].stage \in DOMAIN Results THEN Results[conn[c].stage] ELSE {None}) :
          conn' = [conn EXCEPT ![c].task = r]
    /\ UNCHANGED <<phase, running, drain, revents, net, left, client, got>>

(* Server::stop.                                                           *)
stop ==
    /\ running /\ running' = FALSE
    /\ UNCHANGED <<phase, drain, conn, revents, net, left, client, got>>

-----------------------------------------------------------------------------
(* Server::Impl::listen and its reactor.                                   *)

listen ==
    /\ phase = "idle"
    /\ \/ phase' = "top" /\ running' = TRUE
       \/ phase' = "returned" /\ UNCHANGED running   \* no listener: listen throws
    /\ UNCHANGED <<drain, conn, revents, net, left, client, got>>

Interest(k) ==
    CASE k.stage = "message" -> None
      [] k.stage = "handler" \/ (k.stage # "message" /\ k.output = None) -> "read"
      [] OTHER -> "write"

(* What poll can report of connection c in state k.                        *)
Reports(c, k) ==
    LET gone == client[c] = "gone"
    IN CASE k.st = "new" -> IF running /\ Count < MaxConnections /\ left[c] > 0 THEN {"accept"} ELSE {}
         [] k.st = "open" ->
                (IF gone THEN {"hup"} ELSE {})
                \cup (IF Interest(k) = "read" /\ (gone \/ net[c] # <<>>) THEN {"read"} ELSE {})
                \cup (IF Interest(k) = "write" /\ client[c] = "up" THEN {"write"} ELSE {})
         [] OTHER -> {}

(* Mutant of close_all: the sockets are closed, the tokens left alone. *)
CloseAllSockets ==
    [c \in Conns |-> IF Open(c) THEN [close_connection(conn[c], TRUE) EXCEPT
                                        !.cancelled = conn[c].cancelled] ELSE conn[c]]

close_all == [c \in Conns |-> IF Open(c) THEN close_connection(conn[c], TRUE) ELSE conn[c]]

(* The head of the loop: finished work is picked up, the drain begins if   *)
(* the server was stopped, and the loop returns, gives up at the deadline, *)
(* or polls.                                                               *)
Turn ==
    /\ phase = "top"
    /\ LET ready == [c \in Conns |-> complete_ready(conn[c])]
           begins == ~running /\ drain = "no"
           swept == IF begins THEN [c \in Conns |-> Drained(ready[c])] ELSE ready
           empty == ~running /\ \A c \in Conns : swept[c].st # "open"
       IN /\ drain' = IF begins THEN "draining" ELSE drain
          /\ \/ /\ empty
                /\ conn' = swept /\ phase' = "waiting" /\ UNCHANGED revents
             \/ /\ ~empty /\ drain = "late"
                /\ conn' = close_all /\ phase' = "waiting" /\ UNCHANGED revents
             \/ /\ ~empty /\ drain # "late"
                /\ conn' = swept
                /\ revents' \in [Conns -> {None, "accept", "read", "write", "hup"}]
                /\ \A c \in Conns : LET reports == Reports(c, swept[c])
                                     IN IF reports = {} THEN revents'[c] = None
                                                        ELSE revents'[c] \in reports
                /\ phase' = IF \A c \in Conns : revents'[c] = None THEN "top" ELSE "events"
    /\ UNCHANGED <<running, net, left, client, got>>

Handled(c) ==
    /\ revents' = [revents EXCEPT ![c] = None]
    /\ phase' = IF \A d \in Conns \ {c} : revents[d] = None THEN "top" ELSE "events"
    /\ UNCHANGED <<running, drain, left, client>>

Accept(c) ==
    /\ phase = "events" /\ revents[c] = "accept"
    /\ conn' = IF running /\ Count < MaxConnections THEN [conn EXCEPT ![c].st = "open"] ELSE conn
    /\ Handled(c) /\ UNCHANGED <<net, got>>

HangUp(c) ==
    /\ phase = "events" /\ revents[c] = "hup"
    /\ conn' = IF Open(c) THEN [conn EXCEPT ![c] = close_connection(@, TRUE)] ELSE conn
    /\ Handled(c) /\ UNCHANGED <<net, got>>

(* Output queued since the poll wins over the input that was reported.     *)
Read(c) ==
    /\ phase = "events" /\ revents[c] = "read"
    /\ \/ /\ Open(c) /\ conn[c].output = None
          /\ \E j \in 0..Len(net[c]), sync \in Results.handler \cup {"run"} :
                /\ j = 0 => net[c] = <<>>
                /\ conn' = [conn EXCEPT ![c] = read_ready(@, SubSeq(net[c], 1, j), sync)]
                /\ net' = [net EXCEPT ![c] = SubSeq(@, j + 1, Len(@))]
       \/ ~(Open(c) /\ conn[c].output = None) /\ UNCHANGED <<conn, net>>
    /\ Handled(c) /\ UNCHANGED got

Received(pieces, piece) ==
    IF piece.part = "chunk" /\ pieces # <<>> /\ Last(pieces) = piece THEN pieces
                                                                   ELSE Append(pieces, piece)

Write(c) ==
    /\ phase = "events" /\ revents[c] = "write"
    /\ \/ /\ Open(c) /\ conn[c].output # None /\ client[c] = "up"
          /\ got' = [got EXCEPT ![c] = Received(@, conn[c].output)]
          /\ \E sync \in Results.handler \cup {"run"} :
                conn' = [conn EXCEPT ![c] = write_ready(@, sync)]
       \/ /\ ~(Open(c) /\ conn[c].output # None /\ client[c] = "up")   \* nothing to do, or would block
          /\ UNCHANGED <<conn, got>>
    /\ Handled(c) /\ UNCHANGED net

(* A wake-up seen by the poll: finished work is picked up before the       *)
(* reported events are handled.                                            *)
WakeUp ==
    /\ phase = "events"
    /\ conn' = [c \in Conns |-> complete_ready(conn[c])]
    /\ UNCHANGED <<phase, running, drain, revents, net, left, client, got>>

(* expire_connections: every state of a connection has its timeout.        *)
Expire(c) ==
    /\ phase \in {"top", "events"} /\ Open(c)
    /\ conn' = [conn EXCEPT ![c] = close_connection(@, TRUE)]
    /\ UNCHANGED <<phase, running, drain, revents, net, left, client, got>>

DeadlinePasses ==
    /\ drain = "draining" /\ phase \in {"top", "events"}
    /\ drain' = "late"
    /\ UNCHANGED <<phase, running, conn, revents, net, left, client, got>>

(* poll or accept fails for good: listen closes everything and rethrows.   *)
ReactorFails ==
    /\ phase = "events" /\ running
    /\ running' = FALSE /\ conn' = close_all /\ phase' = "waiting"
    /\ UNCHANGED <<drain, revents, net, left, client, got>>

(* DispatchTracker::wait.                                                  *)
Wait ==
    /\ phase = "waiting" /\ Active = 0
    /\ phase' = "returned" /\ running' = FALSE
    /\ UNCHANGED <<drain, conn, revents, net, left, client, got>>

-----------------------------------------------------------------------------
HttpInit ==
    /\ phase = "idle" /\ running = FALSE /\ drain = "no"
    /\ conn = [c \in Conns |-> Fresh]
    /\ revents = [c \in Conns |-> None]
    /\ net = [c \in Conns |-> <<>>] /\ left \in Budgets
    /\ client = [c \in Conns |-> "up"]
    /\ got = [c \in Conns |-> <<>>]

HttpNext ==
    \/ listen \/ stop \/ Turn \/ WakeUp \/ DeadlinePasses \/ ReactorFails \/ Wait
    \/ \E c \in Conns :
          \/ ClientSends(c) \/ ClientLeaves(c) \/ Finish(c)
          \/ Accept(c) \/ HangUp(c) \/ Read(c) \/ Write(c) \/ Expire(c)

(* The reactor keeps turning and time passes.  A handler that has been told *)
(* to stop does stop, and one that has not may run until its timeout.       *)
HttpFairness ==
    /\ WF_httpvars(Turn) /\ WF_httpvars(DeadlinePasses) /\ WF_httpvars(Wait)
    /\ \A c \in Conns :
          /\ WF_httpvars(Accept(c) \/ HangUp(c) \/ Read(c) \/ Write(c))
          /\ WF_httpvars(conn[c].cancelled /\ Finish(c))
          /\ WF_httpvars(conn[c].stage = "handler" /\ Expire(c))

HttpSpec == HttpInit /\ [][HttpNext]_httpvars /\ HttpFairness

-----------------------------------------------------------------------------
Final == {"full", "end", "failed"}

(* A client that pipelines requests gets the answers in the order of the   *)
(* requests, and no answer begins before the body of the one before it has *)
(* ended: prepare_response waits for the output, the handler, the stream   *)
(* and its last chunk.  An error, an overload answer and a close frame are *)
(* the last thing a client receives, and frames only follow an upgrade.    *)
AnswersInOrder ==
    \A c \in Conns : \A i \in DOMAIN got[c] :
        LET q == got[c][i]
            begins == q.part \in {"full", "failed", "headers", "upgrade", "overload"}
        IN IF i = 1 THEN (begins /\ q.n = 1) \/ q.part = "error"
           ELSE LET p == got[c][i - 1]
                IN \/ /\ p.part \in {"full", "end"}
                      /\ (begins /\ q.n = p.n + 1) \/ q.part = "error"
                   \/ p.part \in {"headers", "chunk"} /\ q.n = p.n /\ q.part \in {"chunk", "end", "error"}
                   \/ p.part \in {"upgrade", "reply", "pong"} /\ q.part \in {"reply", "pong", "close"}

(* A request the server has taken is answered in full before its           *)
(* connection is closed, whenever the server is stopped: only the client,  *)
(* a timeout, the drain deadline or a failing body stream cuts it short    *)
(* (docs/http-runtime.md: the drain lets work in flight finish normally).  *)
TakenIsAnswered ==
    \A c \in Conns :
        conn[c].st = "closed" /\ ~conn[c].cut =>
            \A n \in 1..conn[c].served : \E i \in DOMAIN got[c] :
                /\ got[c][i].n = n
                /\ got[c][i].part \in Final \cup {"overload", "upgrade", "error"}

(* The cancellation token tells a task exactly whether it was given up: a  *)
(* task still running for a closed connection, or for a request that was   *)
(* replaced by an error, has been cancelled; one whose answer the client   *)
(* still waits for has not.                                                *)
TokenTells ==
    \A c \in Conns :
        LET k == conn[c]
            owned == k.st = "open" /\ k.stage \in {"handler", "chunk", "message"}
        IN k.task = "run" => /\ owned \/ k.cancelled
                             /\ owned /\ k.stage # "message" => ~k.cancelled

(* A WebSocket that the server or its peer closes in an orderly way is     *)
(* told so: the last thing the client receives is a close frame.  The      *)
(* drain is to start the shutdown of the protocol for every WebSocket.     *)
WebSocketsAreTold ==
    \A c \in Conns :
        conn[c].st = "closed" /\ ~conn[c].cut /\ Upgraded(c) => Last(got[c]).part = "close"

(* Server::listen returns after a stop, whatever the clients do, provided  *)
(* that cancelled handlers end.                                            *)
StopReturns == (phase \in {"top", "events"} /\ ~running) ~> (phase = "returned")

====
