----------------------------- MODULE ServeLoop ------------------------------
(***************************************************************************)
(* `starstream-run --serve': crates/cli/src/bin/starstream-run.rs from the *)
(* moment the listener is bound.  Two tasks run: the ACCEPT task takes one *)
(* connection at a time off the listener, peeks at its head, answers plain *)
(* HTTP itself and hands each wRPC invocation to the queue of its method;  *)
(* the MAIN task registers the methods, then decodes, calls and answers    *)
(* one invocation at a time, until ^C.  Both wait for the client they have *)
(* in hand.  A `?' in the main task ends the process.                      *)
(*                                                                         *)
(* wrpc_transport's Server and its per-method streams are external: a      *)
(* bounded first-in-first-out queue per registered method.                 *)
(***************************************************************************)
EXTENDS Naturals, Sequences

CONSTANTS
  Clients,     \* each makes one connection
  Methods,     \* the exported methods, in the order of export: 1, 2, ...
  Declared,    \* the methods the guest declared by implements-method
  QueueCap,    \* bound: invocations a method's stream buffers
  None

ASSUME Assumptions ==
  /\ Methods \subseteq Nat
  /\ Declared \subseteq Methods
  /\ QueueCap \in Nat \ {0}
  /\ None \notin Clients

VARIABLES
  want,      \* what each client is about to ask for
  sent,      \* how much of it has arrived
  closed,    \* whether the client has gone away
  reply,     \* what the client has got
  backlog,   \* connections the listener holds, oldest first
  accAt,     \* where the accept task is: see AcceptPoints
  conn,      \* the connection it has in hand
  served,    \* the methods registered with the wRPC server
  queue,     \* the invocation stream of each method
  mainAt,    \* where the main task is: see MainPoints
  inv,       \* the invocation it has in hand
  ctrlC,     \* ^C has been pressed
  applied,   \* history: how often the guest executed the client's call
  utxo       \* "live" or "dropped"

clientVars == <<want, sent, closed>>
acceptVars == <<backlog, accAt, conn>>
mainVars   == <<mainAt, inv, utxo>>
vars == <<clientVars, reply, acceptVars, served, queue, mainVars, ctrlC, applied>>

\* An HTTP client sends a head; a wRPC client a handshake, then the header
\* frame that names the method, then the parameters.
Wants == [kind : {"http"}] \cup [kind : {"wrpc"}, method : Methods]

Parts == <<"nothing", "partial", "head", "header", "params">>
Part(p) == CHOOSE i \in DOMAIN Parts : Parts[i] = p
Arrived(c, p) == Part(sent[c]) >= Part(p)

\* "http": the WIT, 404 or 405.
Replies == {"none", "http", "refused", "result"}
AcceptPoints == {"accept", "peek", "handshake", "header"}
MainPoints == {"register", "poll", "decode", "call", "reply", "drop", "ok", "err"}

Up == mainAt \notin {"drop", "ok", "err"}

Init ==
  /\ want \in [Clients -> Wants]
  /\ sent = [c \in Clients |-> "nothing"]
  /\ closed = [c \in Clients |-> FALSE]
  /\ reply = [c \in Clients |-> "none"]
  /\ backlog = <<>>
  /\ accAt = "accept" /\ conn = None
  /\ served = {}
  /\ queue = [m \in Methods |-> <<>>]
  /\ mainAt = "register" /\ inv = None
  /\ ctrlC = FALSE
  /\ applied = [c \in Clients |-> 0]
  /\ utxo = "live"
-----------------------------------------------------------------------------
(* The clients.                                                            *)

Connect(c) ==
  /\ Up /\ sent[c] = "nothing" /\ reply[c] = "none" /\ ~closed[c]
  /\ conn # c /\ \A i \in DOMAIN backlog : backlog[i] # c
  /\ backlog' = Append(backlog, c)
  /\ UNCHANGED <<clientVars, reply, accAt, conn, served, queue, mainVars, ctrlC, applied>>

Connected(c) == conn = c \/ inv = c \/ (\E i \in DOMAIN backlog : backlog[i] = c)
                  \/ (\E m \in Methods : \E i \in DOMAIN queue[m] : queue[m][i] = c)

Following(c) ==
  CASE sent[c] = "nothing" -> {"partial", "head"}
    [] sent[c] = "partial" -> {"head"}
    [] sent[c] = "head"    -> IF want[c].kind = "wrpc" THEN {"header"} ELSE {}
    [] sent[c] = "header"  -> {"params"}
    [] sent[c] = "params"  -> {}

Send(c) ==
  /\ Connected(c) /\ ~closed[c]
  /\ \E p \in Following(c) : sent' = [sent EXCEPT ![c] = p]
  /\ UNCHANGED <<want, closed, reply, acceptVars, served, queue, mainVars, ctrlC, applied>>

Close(c) ==
  /\ Connected(c) /\ ~closed[c]
  /\ closed' = [closed EXCEPT ![c] = TRUE]
  /\ UNCHANGED <<want, sent, reply, acceptVars, served, queue, mainVars, ctrlC, applied>>
-----------------------------------------------------------------------------
(* The accept task.                                                        *)

Accept ==
  /\ Up /\ accAt = "accept" /\ backlog # <<>>
  /\ conn' = Head(backlog)
  /\ backlog' = Tail(backlog)
  /\ accAt' = "peek"
  /\ UNCHANGED <<clientVars, reply, served, queue, mainVars, ctrlC, applied>>

\* Mutant: a failed connection stays in hand.
ConnectionHangs ==
  /\ Up /\ accAt \in {"handshake", "header"} /\ closed[conn]
  /\ UNCHANGED vars

\* Mutant: the connection stays in hand.
NextConnectionKeeps == accAt' = "accept" /\ conn' = conn

NextConnection == accAt' = "accept" /\ conn' = None

\* peek(head): a WebSocket if the Upgrade header is in what has arrived.
IsWebSocket(c) == want[c].kind = "wrpc" /\ Arrived(c, "head")

\* stream.peek() returns once there are bytes, or the end of the stream,
\* whose empty head is answered like an unknown HTTP method.
PeekHttp ==
  /\ Up /\ accAt = "peek"
  /\ Arrived(conn, "partial") \/ closed[conn]
  /\ ~IsWebSocket(conn)
  /\ reply' = IF closed[conn] THEN reply ELSE [reply EXCEPT ![conn] = "http"]
  /\ NextConnection
  /\ UNCHANGED <<clientVars, backlog, served, queue, mainVars, ctrlC, applied>>

PeekWebSocket ==
  /\ Up /\ accAt = "peek" /\ IsWebSocket(conn)
  /\ accAt' = "handshake"
  /\ UNCHANGED <<clientVars, reply, backlog, conn, served, queue, mainVars, ctrlC, applied>>

Handshake ==
  /\ Up /\ accAt = "handshake" /\ ~closed[conn]
  /\ accAt' = "header"
  /\ UNCHANGED <<clientVars, reply, backlog, conn, served, queue, mainVars, ctrlC, applied>>

\* srv.accept(): the method's handler gets the invocation, if there is one.
Dispatch ==
  /\ Up /\ accAt = "header" /\ Arrived(conn, "header")
  /\ LET m == want[conn].method IN
     IF m \in served
     THEN /\ Len(queue[m]) < QueueCap
          /\ queue' = [queue EXCEPT ![m] = Append(@, conn)]
          /\ UNCHANGED reply
     ELSE /\ reply' = [reply EXCEPT ![conn] = "refused"]
          /\ UNCHANGED queue
  /\ NextConnection
  /\ UNCHANGED <<clientVars, backlog, served, mainVars, ctrlC, applied>>

\* The client goes away during the handshake or before its header is there.
ConnectionFails ==
  /\ Up /\ accAt \in {"handshake", "header"} /\ closed[conn]
  /\ NextConnection
  /\ UNCHANGED <<clientVars, reply, backlog, served, queue, mainVars, ctrlC, applied>>
-----------------------------------------------------------------------------
(* The main task.                                                          *)

\* Mutant: the methods are not filtered by what the guest declared.
RegisterAll(m) ==
  /\ mainAt = "register" /\ m \notin served
  /\ served' = served \cup {m}
  /\ UNCHANGED <<clientVars, reply, acceptVars, queue, mainVars, ctrlC, applied>>

\* srv.serve() for one of the declared methods; the accept task runs already.
Register(m) ==
  /\ mainAt = "register" /\ m \in Declared \ served
  /\ served' = served \cup {m}
  /\ UNCHANGED <<clientVars, reply, acceptVars, queue, mainVars, ctrlC, applied>>

EnterLoop ==
  /\ mainAt = "register" /\ Declared \subseteq served
  /\ mainAt' = "poll"
  /\ UNCHANGED <<clientVars, reply, acceptVars, served, queue, inv, utxo, ctrlC, applied>>

\* From the first poll on, ^C is caught and remembered.
CtrlC ==
  /\ Up /\ mainAt # "register" /\ ~ctrlC
  /\ ctrlC' = TRUE
  /\ UNCHANGED <<clientVars, reply, acceptVars, served, queue, mainVars, applied>>

FirstReady(m) ==
  /\ m \in served /\ queue[m] # <<>>
  /\ \A k \in served : queue[k] # <<>> => m <= k

\* Mutant: the accept task is not aborted; the connection in its hand is
\* waited for.
ShutdownGracefully ==
  /\ mainAt = "poll" /\ ctrlC /\ conn = None
  /\ mainAt' = "drop"
  /\ UNCHANGED <<clientVars, reply, acceptVars, served, queue, inv, utxo, ctrlC, applied>>

\* The poll function: ^C first, then the streams in the order of export.
Shutdown ==
  /\ mainAt = "poll" /\ ctrlC
  /\ mainAt' = "drop"
  /\ UNCHANGED <<clientVars, reply, acceptVars, served, queue, inv, utxo, ctrlC, applied>>

\* Mutant: the streams are polled before the signal.
PickFirst ==
  /\ mainAt = "poll"
  /\ \E m \in Methods :
       /\ FirstReady(m)
       /\ inv' = Head(queue[m])
       /\ queue' = [queue EXCEPT ![m] = Tail(@)]
  /\ mainAt' = "decode"
  /\ UNCHANGED <<clientVars, reply, acceptVars, served, utxo, ctrlC, applied>>

\* Mutant: the invocation is not taken off its stream.
PickPeeks ==
  /\ mainAt = "poll" /\ ~ctrlC
  /\ \E m \in Methods : FirstReady(m) /\ inv' = Head(queue[m])
  /\ mainAt' = "decode"
  /\ UNCHANGED <<clientVars, reply, acceptVars, served, queue, utxo, ctrlC, applied>>

Pick ==
  /\ mainAt = "poll" /\ ~ctrlC
  /\ \E m \in Methods :
       /\ FirstReady(m)
       /\ inv' = Head(queue[m])
       /\ queue' = [queue EXCEPT ![m] = Tail(@)]
  /\ mainAt' = "decode"
  /\ UNCHANGED <<clientVars, reply, acceptVars, served, utxo, ctrlC, applied>>

\* A stream yields an error: the loop ends as it does on ^C.
StreamError ==
  /\ mainAt = "poll" /\ ~ctrlC
  /\ \E m \in Methods : FirstReady(m) /\ closed[Head(queue[m])]
  /\ mainAt' = "drop"
  /\ UNCHANGED <<clientVars, reply, acceptVars, served, queue, inv, utxo, ctrlC, applied>>

\* read_value() of every parameter; here they decode.
Decode ==
  /\ mainAt = "decode" /\ sent[inv] = "params"
  /\ mainAt' = "call"
  /\ UNCHANGED <<clientVars, reply, acceptVars, served, queue, inv, utxo, ctrlC, applied>>

Call ==
  /\ mainAt = "call"
  /\ applied' = [applied EXCEPT ![inv] = @ + 1]
  /\ mainAt' = "reply"
  /\ UNCHANGED <<clientVars, reply, acceptVars, served, queue, inv, utxo, ctrlC>>

\* Mutant: the results are encoded but not written.
ReplyUnsent ==
  /\ mainAt = "reply"
  /\ mainAt' = "poll" /\ inv' = None
  /\ UNCHANGED <<clientVars, reply, acceptVars, served, queue, utxo, ctrlC, applied>>

\* The results are encoded and written, and the stream is shut down.
Reply ==
  /\ mainAt = "reply"
  /\ reply' = IF closed[inv] THEN reply ELSE [reply EXCEPT ![inv] = "result"]
  /\ mainAt' = "poll" /\ inv' = None
  /\ UNCHANGED <<clientVars, acceptVars, served, queue, utxo, ctrlC, applied>>

\* One `?' for each step of an invocation: parameters that end early or do not
\* decode, a guest that traps, a client that is gone.
DecodeFails == mainAt = "decode" /\ (closed[inv] \/ sent[inv] = "params")
CallFails   == mainAt = "call"
ReplyFails  == mainAt = "reply" /\ closed[inv]

Fail ==
  /\ DecodeFails \/ CallFails \/ ReplyFails
  /\ mainAt' = "err"
  /\ UNCHANGED <<clientVars, reply, acceptVars, served, queue, inv, utxo, ctrlC, applied>>

\* accept.abort() is behind us; utxo.drop() runs the guest's destructor.
Drop ==
  /\ mainAt = "drop"
  /\ \/ utxo' = "dropped" /\ mainAt' = "ok"
     \/ utxo' = utxo /\ mainAt' = "err"
  /\ UNCHANGED <<clientVars, reply, acceptVars, served, queue, inv, ctrlC, applied>>
-----------------------------------------------------------------------------
AcceptTask == \/ Accept \/ PeekHttp \/ PeekWebSocket
              \/ Handshake \/ Dispatch \/ ConnectionFails

MainTask == \/ \E m \in Methods : Register(m)
            \/ EnterLoop \/ Shutdown \/ Pick \/ StreamError
            \/ Decode \/ Call \/ Reply \/ Fail \/ Drop

Next == \/ \E c \in Clients : Connect(c) \/ Send(c) \/ Close(c)
        \/ AcceptTask \/ MainTask \/ CtrlC

Spec == Init /\ [][Next]_vars

\* Both tasks are scheduled; nothing is assumed about the clients.
FairSpec == Spec /\ WF_vars(AcceptTask) /\ WF_vars(MainTask)
-----------------------------------------------------------------------------
(* Properties.                                                             *)

\* The state of both tasks and of the clients stays well typed.
TypeOK ==
  /\ want \in [Clients -> Wants]
  /\ sent \in [Clients -> {Parts[i] : i \in DOMAIN Parts}]
  /\ closed \in [Clients -> BOOLEAN]
  /\ reply \in [Clients -> Replies]
  /\ backlog \in Seq(Clients)
  /\ accAt \in AcceptPoints
  /\ conn \in Clients \cup {None}
  /\ served \subseteq Methods
  /\ queue \in [Methods -> Seq(Clients)]
  /\ mainAt \in MainPoints
  /\ inv \in Clients \cup {None}
  /\ ctrlC \in BOOLEAN
  /\ applied \in [Clients -> Nat]
  /\ conn = None <=> accAt = "accept"
  /\ utxo \in {"live", "dropped"}

\* The guest executes an invocation at most once, and a client that gets a
\* result gets it for exactly one execution of its own call.
AtMostOnce ==
  \A c \in Clients : applied[c] <= 1 /\ (reply[c] = "result" => applied[c] = 1)

\* However the server ends and whenever clients go away, at most one effect
\* on the UTXO is unknown to a client that still waits for it: the one of the
\* invocation the main task has in hand, or had when it failed.
EffectsAnswered ==
  \A c \in Clients :
    applied[c] > 0 /\ reply[c] # "result" /\ ~closed[c]
      => inv = c /\ mainAt \in {"reply", "err"}

\* Only methods that the guest declared are ever called over the network,
\* also by clients that get in while the methods are being registered.
OnlyDeclared ==
  \A c \in Clients : applied[c] > 0 => want[c].method \in Declared

\* Whoever has sent a request head gets an answer, unless it goes away or the
\* server stops: if all clients go on sending, none waits behind others for ever.
ClientsGoOn == \A c \in Clients : WF_vars(Send(c))
EventuallyAnswered ==
  ClientsGoOn =>
    \A c \in Clients : Arrived(c, "head") ~> (reply[c] # "none" \/ closed[c] \/ ~Up)

Stopped == mainAt \in {"ok", "err"}

\* The client whose invocation the main task has in hand neither sends the rest
\* of its parameters nor goes away.
Silent == mainAt = "decode" /\ sent[inv] # "params" /\ ~closed[inv]

\* From ^C on no other invocation is begun, however many are waiting, and the
\* server stops whatever the other clients do or leave undone: all it may wait
\* for are the parameters of the invocation in hand.
CtrlCStops ==
  /\ [][ctrlC /\ inv' # None => inv' = inv]_vars
  /\ []<>~Silent => (ctrlC ~> Stopped)

\* What --serve promises (starstream-run.rs:50-51): to serve until ^C, so to
\* stop on ^C, whatever any client does.
StopsOnCtrlC == ctrlC ~> Stopped

\* What --serve promises (starstream-run.rs:50-51): to serve until ^C, so not
\* to stop over a single invocation.
ServesUntilCtrlC == mainAt = "err" /\ inv # None => ctrlC
=============================================================================
