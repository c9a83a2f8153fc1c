-------------------------- MODULE ServeLoopProofs ---------------------------
(***************************************************************************)
(* TLAPS proofs about ServeLoop, for every set of clients and methods and  *)
(* every capacity of the invocation streams.                               *)
(***************************************************************************)
EXTENDS ServeLoop, SeqFacts

PartNames == {"nothing", "partial", "head", "header", "params"}

(* A client is in one place: in the listener's backlog, in the hands of    *)
(* one task, or in the stream of its method.                               *)
PlaceInv ==
  /\ IsInjective(backlog) /\ \A m \in Methods : IsInjective(queue[m])
  /\ conn \notin ToSet(backlog) /\ inv \notin ToSet(backlog)
  /\ conn # None => conn # inv
  /\ \A m \in Methods :
       /\ conn \notin ToSet(queue[m]) /\ inv \notin ToSet(queue[m])
       /\ ToSet(backlog) \cap ToSet(queue[m]) = {}

(* What is in a stream asked for its method, which is registered, so       *)
(* declared, and has sent its header; and so has the invocation in hand.   *)
StreamInv ==
  /\ served \subseteq Declared
  /\ \A m \in Methods : \A c \in ToSet(queue[m]) :
       m \in served /\ want[c].method = m /\ sent[c] \in {"header", "params"}
  /\ inv # None => want[inv].method \in Declared /\ sent[inv] \in {"header", "params"}
  /\ mainAt \in {"decode", "call", "reply"} => inv # None
  /\ mainAt \in {"register", "poll"} => inv = None

(* The guest has executed nothing of a client that has sent nothing or     *)
(* still waits for its turn.                                               *)
WaitInv ==
  \A c \in Clients :
    /\ \/ sent[c] = "nothing" \/ c \in ToSet(backlog) \/ c = conn
       \/ \E m \in Methods : c \in ToSet(queue[m])
       \/ c = inv /\ mainAt \in {"decode", "call"}
       => applied[c] = 0
    /\ c = inv /\ mainAt = "reply" => applied[c] = 1

ServeInv ==
  /\ TypeOK /\ PlaceInv /\ StreamInv /\ WaitInv
  /\ AtMostOnce /\ EffectsAnswered /\ OnlyDeclared

-----------------------------------------------------------------------------
\* The parts of a request are five, and a header comes after the rest.
LEMMA PartFacts ==
  /\ {Parts[i] : i \in DOMAIN Parts} = PartNames
  /\ \A p \in PartNames : Part(p) >= Part("header") => p \in {"header", "params"}
<1>1. DOMAIN Parts = 1..5 /\ Parts[1] = "nothing" /\ Parts[2] = "partial"
      /\ Parts[3] = "head" /\ Parts[4] = "header" /\ Parts[5] = "params"
  BY DEF Parts
<1>2. {Parts[i] : i \in DOMAIN Parts} = PartNames
  BY <1>1 DEF PartNames
<1>3. Part("nothing") = 1 /\ Part("partial") = 2 /\ Part("head") = 3 /\ Part("header") = 4
  BY <1>1 DEF Part
<1> QED
  BY <1>2, <1>3 DEF PartNames

\* Whoever is in a place is a client.
LEMMA InPlace ==
  ASSUME TypeOK
  PROVE  /\ ToSet(backlog) \subseteq Clients /\ \A m \in Methods : ToSet(queue[m]) \subseteq Clients
         /\ inv # None => inv \in Clients
         /\ conn # None => conn \in Clients
         /\ None \notin Clients
  BY ElementFacts, Assumptions DEF TypeOK, Assumptions

\* The initial state satisfies the invariant.
LEMMA InitInv == Init => ServeInv
<1> SUFFICES ASSUME Init PROVE ServeInv
  OBVIOUS
<1>1. TypeOK
  BY PartFacts, EmptySeq DEF Init, TypeOK, PartNames, Replies, AcceptPoints, MainPoints
<1>2. PlaceInv /\ StreamInv /\ WaitInv
  BY EmptyFacts DEF Init, PlaceInv, StreamInv, WaitInv
<1>3. AtMostOnce /\ EffectsAnswered /\ OnlyDeclared
  BY DEF Init, AtMostOnce, EffectsAnswered, OnlyDeclared
<1> QED
  BY <1>1, <1>2, <1>3 DEF ServeInv

\* A client that connects has sent nothing, so it is in no place yet.
LEMMA ConnectStep == ASSUME ServeInv, NEW c \in Clients, Connect(c) PROVE ServeInv'
<1> USE DEF ServeInv
<1>1. /\ c \notin ToSet(backlog) /\ c # conn /\ c # inv
      /\ \A m \in Methods : c \notin ToSet(queue[m])
  BY Assumptions DEF Assumptions, Connect, StreamInv, ToSet
<1>2. /\ backlog' \in Seq(Clients) /\ ToSet(backlog') = ToSet(backlog) \cup {c}
      /\ IsInjective(backlog')
  BY <1>1, AppendFacts DEF Connect, TypeOK, PlaceInv
<1>3. applied[c] = 0
  BY DEF Connect, WaitInv
<1> USE DEF Connect, clientVars, mainVars
<1>4. TypeOK'
  BY <1>2 DEF TypeOK
<1>5. PlaceInv' /\ StreamInv'
  BY <1>1, <1>2 DEF PlaceInv, StreamInv
<1>6. WaitInv'
  BY <1>1, <1>2, <1>3 DEF WaitInv
<1>7. AtMostOnce' /\ EffectsAnswered' /\ OnlyDeclared'
  BY DEF AtMostOnce, EffectsAnswered, OnlyDeclared
<1> QED
  BY <1>4, <1>5, <1>6, <1>7

\* A client sends the next part of its request.
LEMMA SendStep == ASSUME ServeInv, NEW c \in Clients, Send(c) PROVE ServeInv'
<1> USE DEF ServeInv
<1>1. PICK p \in Following(c) : sent' = [sent EXCEPT ![c] = p]
  BY DEF Send
<1>2. /\ sent \in [Clients -> PartNames]
      /\ p \in PartNames \ {"nothing"}
      /\ sent[c] \in {"header", "params"} => p = "params"
  BY <1>1, PartFacts DEF TypeOK, Following, PartNames
<1>3. UNCHANGED <<want, closed, reply, acceptVars, served, queue, mainVars, ctrlC, applied>>
  BY DEF Send
<1> USE DEF acceptVars, mainVars
<1>4. TypeOK'
  BY <1>1, <1>2, <1>3, PartFacts DEF TypeOK
<1>5. PlaceInv'
  BY <1>3 DEF PlaceInv
<1>6. StreamInv'
  <2>1. \A d \in Clients : sent[d] \in {"header", "params"} => sent'[d] \in {"header", "params"}
    BY <1>1, <1>2
  <2> QED
    BY <1>3, <2>1, InPlace DEF StreamInv
<1>7. WaitInv'
  <2>1. \A d \in Clients : sent'[d] = "nothing" => sent[d] = "nothing"
    BY <1>1, <1>2
  <2> QED
    BY <1>3, <2>1 DEF WaitInv
<1>8. AtMostOnce' /\ EffectsAnswered' /\ OnlyDeclared'
  BY <1>3 DEF AtMostOnce, EffectsAnswered, OnlyDeclared
<1> QED
  BY <1>4, <1>5, <1>6, <1>7, <1>8

\* A client that goes away stays where it is.
LEMMA CloseStep == ASSUME ServeInv, NEW c \in Clients, Close(c) PROVE ServeInv'
<1> USE DEF ServeInv, Close, acceptVars, mainVars
<1>1. TypeOK'
  BY DEF TypeOK
<1>2. PlaceInv' /\ StreamInv' /\ WaitInv'
  BY DEF PlaceInv, StreamInv, WaitInv
<1>3. AtMostOnce' /\ OnlyDeclared'
  BY DEF AtMostOnce, OnlyDeclared
<1>4. EffectsAnswered'
  BY DEF EffectsAnswered, TypeOK
<1> QED
  BY <1>1, <1>2, <1>3, <1>4

-----------------------------------------------------------------------------
\* The connection taken from the listener is the oldest.
LEMMA AcceptStep == ASSUME ServeInv, Accept PROVE ServeInv'
<1> USE DEF ServeInv
<1>1. /\ Head(backlog) \in Clients /\ backlog' \in Seq(Clients)
      /\ ToSet(backlog) = {conn'} \cup ToSet(backlog')
      /\ IsInjective(backlog') /\ conn' \notin ToSet(backlog')
  BY TailFacts DEF Accept, TypeOK, PlaceInv
<1> USE DEF Accept, clientVars, mainVars
<1>2. TypeOK'
  BY <1>1, Assumptions DEF TypeOK, AcceptPoints, Assumptions
<1>3. PlaceInv'
  BY <1>1 DEF PlaceInv
<1>4. StreamInv'
  BY DEF StreamInv
<1>5. WaitInv'
  BY <1>1 DEF WaitInv
<1>6. AtMostOnce' /\ EffectsAnswered' /\ OnlyDeclared'
  BY DEF AtMostOnce, EffectsAnswered, OnlyDeclared
<1> QED
  BY <1>2, <1>3, <1>4, <1>5, <1>6

\* The accept task looks at the connection it has, or is done with it.
LEMMA PeekStep ==
  ASSUME ServeInv, PeekHttp \/ PeekWebSocket \/ Handshake \/ ConnectionFails
  PROVE  ServeInv'
<1> USE DEF ServeInv
<1>1. /\ UNCHANGED <<want, sent, closed, backlog, served, queue, mainAt, inv, utxo, ctrlC, applied>>
      /\ \/ conn' = conn /\ accAt # "accept" /\ accAt' \in AcceptPoints \ {"accept"}
         \/ conn' = None /\ accAt' = "accept"
  BY DEF PeekHttp, PeekWebSocket, Handshake, ConnectionFails, NextConnection, AcceptPoints,
         clientVars, mainVars
<1>2. /\ reply' \in [Clients -> Replies]
      /\ \A c \in Clients : reply'[c] = reply[c] \/ (c = conn /\ reply'[c] = "http")
  BY DEF PeekHttp, PeekWebSocket, Handshake, ConnectionFails, TypeOK, Replies
<1>3. conn' = conn \/ conn' = None
  BY <1>1
<1>4. conn \in Clients => applied[conn] = 0
  BY DEF WaitInv
<1>5. TypeOK'
  BY <1>1, <1>2 DEF TypeOK, AcceptPoints
<1>6. PlaceInv' /\ StreamInv'
  BY <1>1, <1>3, InPlace DEF PlaceInv, StreamInv
<1>7. WaitInv'
  BY <1>1, <1>3, InPlace DEF WaitInv
<1>8. AtMostOnce' /\ EffectsAnswered' /\ OnlyDeclared'
  BY <1>1, <1>2, <1>4 DEF AtMostOnce, EffectsAnswered, OnlyDeclared
<1> QED
  BY <1>5, <1>6, <1>7, <1>8

\* An invocation goes to the stream of its method if that is registered.
LEMMA DispatchStep == ASSUME ServeInv, Dispatch PROVE ServeInv'
<1> USE DEF ServeInv
<1> DEFINE c == conn
           m == want[c].method
<1>1. /\ c \in Clients /\ sent[c] \in {"header", "params"}
      /\ c \notin ToSet(backlog) /\ c # inv
      /\ \A n \in Methods : c \notin ToSet(queue[n])
  BY InPlace, PartFacts DEF Dispatch, Arrived, TypeOK, PlaceInv
<1>2. UNCHANGED <<want, sent, closed, backlog, served, mainAt, inv, utxo, ctrlC, applied>>
      /\ conn' = None /\ accAt' = "accept"
  BY DEF Dispatch, NextConnection, clientVars, mainVars
<1>3. applied[c] = 0
  BY <1>1 DEF WaitInv
<1>4. CASE m \in served
  <2>1. m \in Methods /\ m \in served /\ queue' = [queue EXCEPT ![m] = Append(@, c)] /\ reply' = reply
    BY <1>4 DEF Dispatch, TypeOK
  <2>2. /\ queue'[m] \in Seq(Clients) /\ ToSet(queue'[m]) = ToSet(queue[m]) \cup {c}
        /\ IsInjective(queue'[m])
        /\ \A n \in Methods \ {m} : queue'[n] = queue[n]
    BY <1>1, <2>1, AppendFacts DEF TypeOK, PlaceInv
  <2> HIDE DEF c, m
  <2>3. TypeOK'
    BY <1>2, <2>1, <2>2 DEF TypeOK, AcceptPoints
  <2>4. PlaceInv'
    BY <1>1, <1>2, <2>1, <2>2, InPlace DEF PlaceInv
  <2>5. StreamInv'
    <3>1. \A n \in Methods : \A d \in ToSet(queue'[n]) :
            n \in served /\ want[d].method = n /\ sent[d] \in {"header", "params"}
      BY <1>1, <2>1, <2>2 DEF StreamInv, m
    <3> QED
      BY <1>2, <3>1 DEF StreamInv
  <2>6. WaitInv'
    BY <1>2, <1>3, <2>1, <2>2, InPlace DEF WaitInv
  <2>7. AtMostOnce' /\ EffectsAnswered' /\ OnlyDeclared'
    BY <1>2, <2>1 DEF AtMostOnce, EffectsAnswered, OnlyDeclared
  <2> QED
    BY <2>3, <2>4, <2>5, <2>6, <2>7
<1>5. CASE m \notin served
  <2>1. queue' = queue /\ reply' = [reply EXCEPT ![c] = "refused"]
    BY <1>5 DEF Dispatch
  <2> HIDE DEF c, m
  <2>2. TypeOK'
    BY <1>2, <2>1 DEF TypeOK, AcceptPoints, Replies
  <2>3. PlaceInv' /\ StreamInv' /\ WaitInv'
    BY <1>2, <2>1, InPlace DEF PlaceInv, StreamInv, WaitInv
  <2>4. AtMostOnce' /\ EffectsAnswered' /\ OnlyDeclared'
    BY <1>1, <1>2, <1>3, <2>1 DEF AtMostOnce, EffectsAnswered, OnlyDeclared, TypeOK
  <2> QED
    BY <2>2, <2>3, <2>4
<1> QED
  BY <1>4, <1>5

-----------------------------------------------------------------------------
\* Registration adds a declared method; ^C and the end of a loop touch no client.
LEMMA ControlStep ==
  ASSUME ServeInv,
         (\E m \in Methods : Register(m)) \/ EnterLoop \/ CtrlC \/ Shutdown \/ StreamError \/ Drop
  PROVE  ServeInv'
<1> USE DEF ServeInv
<1>1. /\ UNCHANGED <<clientVars, reply, acceptVars, queue, inv, applied>>
      /\ served' \subseteq Declared /\ served \subseteq served'
      /\ mainAt' \in MainPoints /\ ctrlC' \in BOOLEAN /\ utxo' \in {"live", "dropped"}
      /\ \/ mainAt' = mainAt
         \/ mainAt' = "poll" /\ mainAt = "register"
         \/ mainAt' \in {"drop", "ok", "err"} /\ mainAt \in {"poll", "drop"}
  BY DEF Register, EnterLoop, CtrlC, Shutdown, StreamError, Drop, TypeOK, StreamInv, MainPoints,
         mainVars
<1> USE DEF clientVars, acceptVars
<1>2. TypeOK'
  BY <1>1, Assumptions DEF TypeOK, Assumptions
<1>3. PlaceInv' /\ StreamInv' /\ WaitInv'
  BY <1>1 DEF PlaceInv, StreamInv, WaitInv
<1>4. AtMostOnce' /\ EffectsAnswered' /\ OnlyDeclared'
  BY <1>1 DEF AtMostOnce, EffectsAnswered, OnlyDeclared
<1> QED
  BY <1>2, <1>3, <1>4

\* The invocation that is picked leaves its stream.
LEMMA PickStep == ASSUME ServeInv, Pick PROVE ServeInv'
<1> USE DEF ServeInv
<1>1. PICK m \in Methods : /\ FirstReady(m) /\ inv' = Head(queue[m])
                           /\ queue' = [queue EXCEPT ![m] = Tail(@)]
  BY DEF Pick
<1>2. /\ inv' \in Clients /\ queue'[m] \in Seq(Clients)
      /\ ToSet(queue[m]) = {inv'} \cup ToSet(queue'[m])
      /\ IsInjective(queue'[m]) /\ inv' \notin ToSet(queue'[m])
      /\ \A n \in Methods \ {m} : queue'[n] = queue[n]
  BY <1>1, TailFacts DEF FirstReady, TypeOK, PlaceInv
<1>3. /\ want[inv'].method = m /\ m \in served /\ sent[inv'] \in {"header", "params"}
      /\ applied[inv'] = 0
      /\ \A n \in Methods \ {m} : inv' \notin ToSet(queue[n])
  BY <1>2 DEF StreamInv, WaitInv
<1>4. /\ UNCHANGED <<clientVars, reply, acceptVars, served, utxo, ctrlC, applied>>
      /\ mainAt = "poll" /\ mainAt' = "decode"
  BY DEF Pick
<1> USE DEF clientVars, acceptVars
<1>5. TypeOK'
  BY <1>1, <1>2, <1>4 DEF TypeOK, MainPoints
<1>6. PlaceInv'
  BY <1>2, <1>3, <1>4, InPlace DEF PlaceInv
<1>7. StreamInv'
  BY <1>2, <1>3, <1>4, InPlace DEF StreamInv
<1>8. WaitInv'
  BY <1>2, <1>3, <1>4 DEF WaitInv
<1>9. AtMostOnce' /\ EffectsAnswered' /\ OnlyDeclared'
  BY <1>4 DEF AtMostOnce, EffectsAnswered, OnlyDeclared
<1> QED
  BY <1>5, <1>6, <1>7, <1>8, <1>9

\* Parameters that decode lead to the call; a failure leaves everything but the
\* control as it is, with the invocation still in hand.
LEMMA DecodeStep == ASSUME ServeInv, Decode \/ Fail PROVE ServeInv'
<1> USE DEF ServeInv
<1>1. /\ UNCHANGED <<clientVars, reply, acceptVars, served, queue, inv, utxo, ctrlC, applied>>
      /\ inv # None
      /\ \/ mainAt = "decode" /\ mainAt' = "call"
         \/ mainAt \in {"decode", "call"} /\ mainAt' = "err"
         \/ mainAt = "reply" /\ mainAt' = "err"
  BY DEF Decode, Fail, DecodeFails, CallFails, ReplyFails, StreamInv
<1> USE DEF clientVars, acceptVars
<1>2. TypeOK'
  BY <1>1 DEF TypeOK, MainPoints
<1>3. PlaceInv' /\ StreamInv' /\ WaitInv'
  BY <1>1 DEF PlaceInv, StreamInv, WaitInv
<1>4. AtMostOnce' /\ EffectsAnswered' /\ OnlyDeclared'
  BY <1>1 DEF AtMostOnce, EffectsAnswered, OnlyDeclared
<1> QED
  BY <1>2, <1>3, <1>4

\* The guest executes the invocation in hand, for the first time.
LEMMA CallStep == ASSUME ServeInv, Call PROVE ServeInv'
<1> USE DEF ServeInv
<1>1. /\ inv \in Clients /\ applied[inv] = 0 /\ want[inv].method \in Declared
      /\ reply[inv] # "result" /\ mainAt = "call" /\ mainAt' = "reply"
      /\ applied' = [applied EXCEPT ![inv] = 1]
      /\ UNCHANGED <<clientVars, reply, acceptVars, served, queue, inv, utxo, ctrlC>>
  <2>1. inv \in Clients /\ mainAt = "call" /\ want[inv].method \in Declared
    BY InPlace DEF Call, StreamInv
  <2>2. applied[inv] = 0 /\ reply[inv] # "result"
    BY <2>1 DEF WaitInv, AtMostOnce
  <2>3. applied' = [applied EXCEPT ![inv] = 1]
    BY <2>1, <2>2 DEF Call, TypeOK
  <2> QED
    BY <2>1, <2>2, <2>3 DEF Call
<1> USE DEF clientVars, acceptVars
<1>2. TypeOK'
  BY <1>1 DEF TypeOK, MainPoints
<1>3. PlaceInv' /\ StreamInv'
  BY <1>1 DEF PlaceInv, StreamInv
<1>4. WaitInv'
  BY <1>1 DEF WaitInv, PlaceInv, StreamInv, TypeOK
<1>5. AtMostOnce' /\ EffectsAnswered' /\ OnlyDeclared'
  BY <1>1 DEF AtMostOnce, EffectsAnswered, OnlyDeclared, TypeOK
<1> QED
  BY <1>2, <1>3, <1>4, <1>5

\* The result goes to the client whose call was executed, if it is there.
LEMMA ReplyStep == ASSUME ServeInv, Reply PROVE ServeInv'
<1> USE DEF ServeInv
<1>1. /\ inv \in Clients /\ applied[inv] = 1
      /\ mainAt = "reply" /\ mainAt' = "poll" /\ inv' = None
      /\ reply' = IF closed[inv] THEN reply ELSE [reply EXCEPT ![inv] = "result"]
      /\ UNCHANGED <<clientVars, acceptVars, served, queue, utxo, ctrlC, applied>>
  BY InPlace DEF Reply, StreamInv, WaitInv
<1> USE DEF clientVars, acceptVars
<1>2. TypeOK'
  BY <1>1 DEF TypeOK, MainPoints, Replies
<1>3. PlaceInv' /\ StreamInv' /\ WaitInv'
  BY <1>1, InPlace DEF PlaceInv, StreamInv, WaitInv
<1>4. AtMostOnce' /\ EffectsAnswered' /\ OnlyDeclared'
  BY <1>1 DEF AtMostOnce, EffectsAnswered, OnlyDeclared, TypeOK
<1> QED
  BY <1>2, <1>3, <1>4

\* Every step of the server and of its clients keeps the invariant.
LEMMA ServeStep == ServeInv /\ [Next]_vars => ServeInv'
<1> SUFFICES ASSUME ServeInv, [Next]_vars PROVE ServeInv'
  OBVIOUS
<1>1. CASE UNCHANGED vars
  BY <1>1 DEF vars, clientVars, acceptVars, mainVars, ServeInv, TypeOK, PlaceInv, StreamInv,
              WaitInv, AtMostOnce, EffectsAnswered, OnlyDeclared
<1>2. CASE \E c \in Clients : Connect(c) \/ Send(c) \/ Close(c)
  BY <1>2, ConnectStep, SendStep, CloseStep
<1>3. CASE AcceptTask
  BY <1>3, AcceptStep, PeekStep, DispatchStep DEF AcceptTask
<1>4. CASE MainTask \/ CtrlC
  BY <1>4, ControlStep, PickStep, DecodeStep, CallStep, ReplyStep DEF MainTask
<1> QED
  BY <1>1, <1>2, <1>3, <1>4 DEF Next

-----------------------------------------------------------------------------
\* The invariant holds in every state of the server.
THEOREM ServeInvariant == Spec => []ServeInv
  BY InitInv, ServeStep, PTL DEF Spec

\* The state of both tasks, the queues between them and the clients is well typed.
THEOREM ServeTypeCorrect == Spec => []TypeOK
<1>1. ServeInv => TypeOK
  BY DEF ServeInv
<1> QED
  BY <1>1, ServeInvariant, PTL

\* Whatever the two tasks and any number of clients do in between, the guest
\* executes each invocation at most once, and a result is for one execution.
THEOREM ExecutedAtMostOnce == Spec => []AtMostOnce
<1>1. ServeInv => AtMostOnce
  BY DEF ServeInv
<1> QED
  BY <1>1, ServeInvariant, PTL

\* An effect that its client does not know of, though it waits, is the one of
\* the invocation in hand.
THEOREM EffectsAreAnswered == Spec => []EffectsAnswered
<1>1. ServeInv => EffectsAnswered
  BY DEF ServeInv
<1> QED
  BY <1>1, ServeInvariant, PTL

\* Nobody calls a method over the network that the guest did not declare.
THEOREM ServesOnlyDeclared == Spec => []OnlyDeclared
<1>1. ServeInv => OnlyDeclared
  BY DEF ServeInv
<1> QED
  BY <1>1, ServeInvariant, PTL
=============================================================================
