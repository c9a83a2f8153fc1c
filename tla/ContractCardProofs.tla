------------------------- MODULE ContractCardProofs -------------------------
(***************************************************************************)
(* TLAPS proofs about ContractCard, for every set of methods and contexts  *)
(* and any number of clicks: first of any worker, then of one whose        *)
(* operations do not park.                                                 *)
(***************************************************************************)
EXTENDS ContractCardInv, WebWorkerProofs, FiniteSetTheorems, WellFoundedInduction, NaturalsInduction

-----------------------------------------------------------------------------
(* The selection.                                                          *)

\* The first option of the UTXO list is one of the list.
LEMMA MinFacts == ASSUME NEW S \in SUBSET Nat, S # {} PROVE Min(S) \in S
<1>1. PICK x \in S : \A y \in S : <<y, x>> \notin OpToRel(<, Nat)
  BY NatLessThanWellFounded, WFMin
<1>2. ASSUME NEW y \in S PROVE x <= y
  <2>1. <<y, x>> \in Nat \X Nat /\ <<y, x>>[1] = y /\ <<y, x>>[2] = x
    OBVIOUS
  <2>2. ~(<<y, x>>[1] < <<y, x>>[2])
    BY <1>1, <2>1, Zenon DEF OpToRel
  <2> QED
    BY <2>1, <2>2
<1> QED
  BY <1>2 DEF Min

\* rebuildUtxos selects a live UTXO if the panel shows the contract and it has one.
LEMMA SelectionFacts ==
  ASSUME NEW s, NEW S \in SUBSET Nat
  PROVE  /\ Selection(s, S) \in {None} \cup S
         /\ Selection(s, S) # None => here
         /\ here /\ S # {} => Selection(s, S) # None
<1>1. None \notin S
  BY WorkerAssumption DEF WorkerAssumption
<1> QED
  BY <1>1, MinFacts DEF Selection

-----------------------------------------------------------------------------
(* A turn of the page settles at most one request, the one that the first  *)
(* reply is for (gone), and posts new ones (ps).                           *)

Posted(ps) == ToSet(Numbered(ps))

Turn(ps, gone) ==
  /\ nextRpc' = nextRpc + Len(ps)
  /\ inbox' = inbox \o Numbered(ps)
  /\ pending' = (pending \ gone) \cup Posted(ps)
  /\ log' \in Seq(Entries)
  /\ UNCHANGED workerVars
  /\ \/ gone = {} /\ outbox' = outbox
     \/ /\ outbox # <<>> /\ outbox' = Tail(outbox)
        /\ \E p \in pending : gone = {p} /\ p.id = Head(outbox).id

\* What the page may ask for.
LEMMA PayloadFacts ==
  /\ \A op \in {"instantiate", "describe"} \cup Mints : Plain(op) \in Payloads(Ids)
  /\ \A op \in {"storageGet", "implemented", "drop"}, h \in Ids : On(op, h) \in Payloads(Ids)
  /\ \A h \in Ids, m \in Methods : [op |-> "call", h |-> h, arg |-> m] \in Payloads(Ids)
  /\ \A c \in Contexts : Cardano(c) \in Payloads(Ids)
  BY DEF Payloads, Plain, On, Cardano, OfHandle

\* Two requests posted together.
LEMMA Pairs == ASSUME NEW x, NEW y PROVE <<x>> \o <<y>> = <<x, y>>
<1> DEFINE S == {x, y}
           s == <<x>> \o <<y>>
<1>1. <<x>> \in Seq(S) /\ <<y>> \in Seq(S) /\ Len(<<x>>) = 1 /\ Len(<<y>>) = 1
  OBVIOUS
<1>2. s \in Seq(S) /\ Len(s) = 2 /\ s[1] = x /\ s[2] = y
  BY <1>1, ConcatProperties
<1>3. <<x, y>> \in Seq(S) /\ Len(<<x, y>>) = 2
  OBVIOUS
<1> HIDE DEF s
<1>4. \A i \in 1..Len(s) : s[i] = <<x, y>>[i]
  <2>1. \A i \in 1..2 : i = 1 \/ i = 2
    OBVIOUS
  <2> QED
    BY <1>2, <2>1
<1>5. s = <<x, y>>
  BY <1>2, <1>3, <1>4, SeqEqual
<1> QED
  BY <1>5 DEF s

\* Up to two requests are posted at a time.
LEMMA PostedFacts ==
  ASSUME nextRpc \in Nat, NEW x, NEW y
  PROVE  /\ Len(<<>>) = 0 /\ Len(<<x>>) = 1 /\ Len(<<x, y>>) = 2
         /\ Posted(<<>>) = {} /\ Posted(<<x>>) = {Request(x, nextRpc)}
         /\ Posted(<<x, y>>) = {Request(x, nextRpc), Request(y, nextRpc + 1)}
<1>1. \A i \in 1..1 : Numbered(<<x>>)[i] = Request(x, nextRpc)
  BY DEF Numbered
<1>2. /\ Numbered(<<x, y>>)[1] = Request(<<x, y>>[1], nextRpc + 1 - 1)
      /\ Numbered(<<x, y>>)[2] = Request(<<x, y>>[2], nextRpc + 2 - 1)
  BY DEF Numbered
<1>3. nextRpc + 1 - 1 = nextRpc /\ nextRpc + 2 - 1 = nextRpc + 1 /\ <<x, y>>[1] = x /\ <<x, y>>[2] = y
  OBVIOUS
<1>4. /\ Numbered(<<x, y>>)[1] = Request(x, nextRpc)
      /\ Numbered(<<x, y>>)[2] = Request(y, nextRpc + 1)
  BY <1>2, <1>3, Zenon
<1>5. /\ DOMAIN Numbered(<<>>) = {} /\ DOMAIN Numbered(<<x>>) = 1..1
      /\ DOMAIN Numbered(<<x, y>>) = {1, 2}
  BY DEF Numbered
<1> QED
  BY <1>1, <1>4, <1>5 DEF Posted, ToSet

\* Which of them fit below the bound.
LEMMA PostableFacts ==
  ASSUME nextRpc \in Nat, NEW x \in Payloads(Ids), NEW y \in Payloads(Ids)
  PROVE  /\ nextRpc <= MaxRpc + 1 => Postable(<<>>)
         /\ nextRpc + 1 <= MaxRpc + 1 =>
              ((x.op = "instantiate" => ~contract /\ \A r \in ToSet(inbox) : r.op # "instantiate")
                 => Postable(<<x>>))
         /\ nextRpc + 2 <= MaxRpc + 1 /\ x.op # "instantiate" /\ y.op # "instantiate"
              => Postable(<<x, y>>)
  BY WorkerAssumption DEF Postable, WorkerAssumption

\* How a turn moves requests and replies.
LEMMA TurnFacts ==
  ASSUME CoreInv, NEW ps, NEW gone, Postable(ps), Turn(ps, gone)
  PROVE  /\ CoreInv' /\ UNCHANGED <<workerVars, Running>>
         /\ gone \subseteq pending /\ pending' = (pending \ gone) \cup Posted(ps)
         /\ \A p \in pending : p.id \in Nat /\ p.id < nextRpc
         /\ nextRpc \in Nat /\ nextRpc' = nextRpc + Len(ps)
         /\ \A q \in Posted(ps) : WellFormed(q) /\ q.id \in Nat /\ nextRpc <= q.id
         /\ ToSet(inbox') = ToSet(inbox) \cup Posted(ps)
         /\ ToSet(outbox') \subseteq ToSet(outbox)
         /\ \A a \in ToSet(outbox) : a \in ToSet(outbox') \/ \E p \in gone : p.id = a.id
         /\ \A a \in ToSet(outbox') : /\ \A p \in pending' : p.id = a.id => p \in pending \ gone
                                      /\ \A p \in gone : p.id # a.id
<1>1. CoreInv'
  <2>1. CASE gone = {} /\ outbox' = outbox
    BY <2>1, PageStep DEF Turn, Posted
  <2>2. CASE \E p \in pending : /\ gone = {p} /\ outbox # <<>> /\ p.id = Head(outbox).id
                                /\ outbox' = Tail(outbox)
    BY <2>2, PageStep DEF Turn, Posted
  <2> QED
    BY <2>1, <2>2 DEF Turn
<1>2. /\ nextRpc \in Nat /\ outbox \in Seq(Replies) /\ inbox \in Seq(Requests) /\ TypeOK
      /\ \A p \in pending : p.id \in Nat /\ p.id < nextRpc
  BY WorkerAssumption DEF WorkerAssumption, CoreInv, TypeInv, TypeOK, PendingInv, Requests
<1>3. \A q \in Posted(ps) : WellFormed(q) /\ q.id \in Nat /\ nextRpc <= q.id
  BY <1>2, NumberedFacts DEF Posted
<1>4. ToSet(inbox') = ToSet(inbox) \cup Posted(ps)
  BY <1>2, NumberedFacts, ConcatFacts DEF Turn, Posted
<1>5. UNCHANGED <<workerVars, Running>>
  BY DEF Turn, workerVars, Running, Borrowed
<1>6. gone \subseteq pending
  BY DEF Turn
<1>7. /\ ToSet(outbox') \subseteq ToSet(outbox)
      /\ \A a \in ToSet(outbox) : a \in ToSet(outbox') \/ \E p \in gone : p.id = a.id
  <2>1. CASE gone = {} /\ outbox' = outbox
    BY <2>1
  <2>2. ASSUME NEW p \in pending, gone = {p}, outbox # <<>>, p.id = Head(outbox).id, outbox' = Tail(outbox)
        PROVE  <1>7!1 /\ <1>7!2
    BY <1>2, <2>2, TailFacts
  <2> QED
    BY <2>1, <2>2 DEF Turn
<1>8. ASSUME NEW a \in ToSet(outbox')
      PROVE  /\ \A p \in pending' : p.id = a.id => p \in pending \ gone
             /\ \A p \in gone : p.id # a.id
  <2>1. PICK p \in pending : p.id = a.id
    BY <1>7, <1>8 DEF CoreInv, PendingInv
  <2>2. \A q \in pending' : q.id = a.id => q \in pending \ gone
    BY <1>2, <1>3, <2>1 DEF Turn
  <2>3. PICK q \in pending' : q.id = a.id
    BY <1>1, <1>8 DEF CoreInv, PendingInv
  <2>4. \A r \in pending : r.id = q.id => r = q
    BY <2>2, <2>3 DEF CoreInv, PendingInv
  <2> QED
    BY <1>6, <2>2, <2>3, <2>4
<1> QED
  BY <1>1, <1>2, <1>3, <1>4, <1>5, <1>6, <1>7, <1>8 DEF Turn

-----------------------------------------------------------------------------
(* The budget of requests.                                                 *)

Of(S, ops) == {p \in S : p.op \in ops}
Weight(S) == 2 * Cardinality(Of(S, Mints)) + Cardinality(Of(S, {"call", "drop"}))

(* How many requests will follow this one when it is answered.             *)
Due(p) == IF p.op \in Mints THEN 2 ELSE IF p.op \in {"call", "drop"} THEN 1 ELSE 0

One(x, ops) == IF x.op \in ops THEN 1 ELSE 0

\* Counting the requests of some operations, with one more or one less.
LEMMA CountFacts ==
  ASSUME NEW S, IsFiniteSet(S), NEW ops, NEW x
  PROVE  /\ IsFiniteSet(Of(S, ops)) /\ Cardinality(Of(S, ops)) \in Nat
         /\ IsFiniteSet(S \cup {x}) /\ IsFiniteSet(S \ {x})
         /\ x \notin S => Cardinality(Of(S \cup {x}, ops)) = Cardinality(Of(S, ops)) + One(x, ops)
         /\ x \in S => Cardinality(Of(S \ {x}, ops)) = Cardinality(Of(S, ops)) - One(x, ops)
<1>1. IsFiniteSet(Of(S, ops)) /\ Cardinality(Of(S, ops)) \in Nat
  BY FS_Subset, FS_CardinalityType DEF Of
<1>2. IsFiniteSet(S \cup {x}) /\ IsFiniteSet(S \ {x})
  BY FS_AddElement, FS_RemoveElement
<1>3. CASE x.op \in ops
  <2>1. x \notin S => Of(S \cup {x}, ops) = Of(S, ops) \cup {x} /\ x \notin Of(S, ops)
    BY <1>3 DEF Of
  <2>2. x \in S => Of(S \ {x}, ops) = Of(S, ops) \ {x} /\ x \in Of(S, ops)
    BY <1>3 DEF Of
  <2> QED
    BY <1>1, <1>2, <1>3, <2>1, <2>2, FS_AddElement, FS_RemoveElement,
       ZenonT(60) DEF One
<1>4. CASE x.op \notin ops
  <2>1. Of(S \cup {x}, ops) = Of(S, ops) /\ Of(S \ {x}, ops) = Of(S, ops)
    BY <1>4 DEF Of
  <2> QED
    BY <1>1, <1>2, <1>4, <2>1 DEF One
<1> QED
  BY <1>3, <1>4

\* What follows from a set of requests, with one more or one less.
LEMMA WeightFacts ==
  ASSUME NEW S, IsFiniteSet(S), NEW x
  PROVE  /\ Weight(S) \in Nat /\ IsFiniteSet(S \cup {x}) /\ IsFiniteSet(S \ {x})
         /\ x \notin S => Weight(S \cup {x}) = Weight(S) + Due(x)
         /\ x \in S => Weight(S \ {x}) = Weight(S) - Due(x)
         /\ x \in S => Due(x) <= Weight(S)
<1>1. /\ Cardinality(Of(S, Mints)) \in Nat /\ Cardinality(Of(S, {"call", "drop"})) \in Nat
      /\ IsFiniteSet(S \cup {x}) /\ IsFiniteSet(S \ {x})
  BY CountFacts
<1>2. x.op \in Mints => x.op \notin {"call", "drop"}
  BY DEF Mints
<1>3. ASSUME x \notin S PROVE Weight(S \cup {x}) = Weight(S) + Due(x)
  <2>1. \A ops : Cardinality(Of(S \cup {x}, ops)) = Cardinality(Of(S, ops)) + One(x, ops)
    BY <1>3, CountFacts, Zenon
  <2>2. /\ Cardinality(Of(S \cup {x}, Mints)) = Cardinality(Of(S, Mints)) + One(x, Mints)
        /\ Cardinality(Of(S \cup {x}, {"call", "drop"}))
             = Cardinality(Of(S, {"call", "drop"})) + One(x, {"call", "drop"})
    BY <2>1, Zenon
  <2> QED
    BY <1>1, <1>2, <2>2 DEF Weight, Due, One
<1>4. ASSUME x \in S PROVE Weight(S \ {x}) = Weight(S) - Due(x)
  <2>1. \A ops : Cardinality(Of(S \ {x}, ops)) = Cardinality(Of(S, ops)) - One(x, ops)
    BY <1>4, CountFacts, Zenon
  <2>2. /\ Cardinality(Of(S \ {x}, Mints)) = Cardinality(Of(S, Mints)) - One(x, Mints)
        /\ Cardinality(Of(S \ {x}, {"call", "drop"}))
             = Cardinality(Of(S, {"call", "drop"})) - One(x, {"call", "drop"})
    BY <2>1, Zenon
  <2> QED
    BY <1>1, <1>2, <2>2 DEF Weight, Due, One
<1>5. Weight(S \ {x}) \in Nat /\ Weight(S) \in Nat /\ Due(x) \in Nat
  <2>1. /\ Cardinality(Of(S \ {x}, Mints)) \in Nat
        /\ Cardinality(Of(S \ {x}, {"call", "drop"})) \in Nat
    BY <1>1, CountFacts
  <2> QED
    BY <1>1, <2>1 DEF Weight, Due
<1> QED
  BY <1>1, <1>3, <1>4, <1>5

\* What the budget leaves for a click and for each answer.
LEMMA BudgetFacts ==
  ASSUME CoreInv, BudgetInv, CardTypeOK
  PROVE  /\ IsFiniteSet(pending) /\ Weight(pending) \in Nat /\ LoadLeft \in 0..3
         /\ nextRpc \in Nat /\ MaxRpc \in Nat /\ MaxClicks \in Nat /\ clicks \in 0..MaxClicks
         /\ nextRpc + LoadLeft + Weight(pending) + 3 * (MaxClicks - clicks) <= MaxRpc + 1
         /\ nextRpc <= MaxRpc + 1
         /\ clicks < MaxClicks => nextRpc + 1 <= MaxRpc + 1
         /\ \A p \in pending : nextRpc + LoadLeft + Due(p) <= MaxRpc + 1
<1>1. /\ nextRpc \in Nat /\ MaxRpc \in Nat /\ MaxClicks \in Nat /\ clicks \in 0..MaxClicks
      /\ IsFiniteSet(pending)
  BY WorkerAssumption, CardAssumption
     DEF WorkerAssumption, CardAssumption, CoreInv, TypeInv, TypeOK, CardTypeOK, BudgetInv
<1>2. LoadLeft \in 0..3
  BY DEF LoadLeft
<1>3. \A p \in pending : Due(p) \in Nat
  BY DEF Due
<1>4. Weight(pending) \in Nat /\ \A p \in pending : Due(p) <= Weight(pending)
  BY <1>1, WeightFacts
<1>5. nextRpc + LoadLeft + Weight(pending) + 3 * (MaxClicks - clicks) <= MaxRpc + 1
  <2>1. /\ Cardinality(Of(pending, Mints)) \in Nat /\ Cardinality(Of(pending, {"call", "drop"})) \in Nat
        /\ Of(pending, Mints) = PendingOf(Mints) /\ Of(pending, {"call", "drop"}) = PendingOf({"call", "drop"})
    BY <1>1, CountFacts DEF Of, PendingOf
  <2> QED
    BY <1>1, <1>2, <2>1 DEF BudgetInv, Weight
<1> QED
  BY <1>1, <1>2, <1>3, <1>4, <1>5

\* The budget after a turn, from the weight of what is pending.
LEMMA BudgetByWeight ==
  ASSUME IsFiniteSet(pending'), clicks' \in Nat, MaxClicks \in Nat, nextRpc' \in Nat, LoadLeft' \in Nat,
         nextRpc' + LoadLeft' + Weight(pending') + 3 * (MaxClicks - clicks') <= MaxRpc + 1
  PROVE  BudgetInv'
<1>1. /\ Cardinality(Of(pending', Mints)) \in Nat /\ Cardinality(Of(pending', {"call", "drop"})) \in Nat
      /\ Of(pending', Mints) = PendingOf(Mints)' /\ Of(pending', {"call", "drop"}) = PendingOf({"call", "drop"})'
  BY CountFacts DEF Of, PendingOf
<1> QED
  BY <1>1, WorkerAssumption DEF BudgetInv, Weight, WorkerAssumption

\* A click uses up three requests at most.
LEMMA ClickKeepsBudget ==
  ASSUME CoreInv, BudgetInv, CardTypeOK, NEW ps, Postable(ps), Turn(ps, {}),
         clicks < MaxClicks, clicks' = clicks + 1, LoadLeft' = LoadLeft,
         ps = <<>> \/ \E x : ps = <<x>>
  PROVE  BudgetInv'
<1>1. /\ IsFiniteSet(pending) /\ Weight(pending) \in Nat /\ LoadLeft \in 0..3
      /\ nextRpc \in Nat /\ MaxRpc \in Nat /\ MaxClicks \in Nat /\ clicks \in 0..MaxClicks
      /\ nextRpc + LoadLeft + Weight(pending) + 3 * (MaxClicks - clicks) <= MaxRpc + 1
  BY BudgetFacts
<1>2. /\ pending' = pending \cup Posted(ps) /\ nextRpc' = nextRpc + Len(ps)
      /\ \A q \in Posted(ps) : q \notin pending
  BY TurnFacts
<1>3. CASE ps = <<>>
  <2>1. Posted(ps) = {} /\ Len(ps) = 0
    BY <1>1, <1>3, PostedFacts
  <2>2. pending' = pending /\ nextRpc' = nextRpc
    BY <1>1, <1>2, <2>1
  <2> QED
    BY <1>1, <2>2, BudgetByWeight
<1>4. ASSUME NEW x, ps = <<x>> PROVE BudgetInv'
  <2>1. PICK q : q = Request(x, nextRpc)
    OBVIOUS
  <2>2. pending' = pending \cup {q} /\ nextRpc' = nextRpc + 1 /\ q \notin pending
    BY <1>1, <1>2, <1>4, <2>1, PostedFacts
  <2>3. Due(q) \in 0..2
    BY DEF Due
  <2>4. IsFiniteSet(pending') /\ Weight(pending') = Weight(pending) + Due(q)
    BY <1>1, <2>2, WeightFacts
  <2> QED
    BY <1>1, <2>2, <2>3, <2>4, BudgetByWeight
<1> QED
  BY <1>3, <1>4

\* What follows an answer was accounted for with its request.
LEMMA ReplyKeepsBudget ==
  ASSUME CoreInv, BudgetInv, CardTypeOK, NEW ps, Postable(ps), NEW p \in pending, Turn(ps, {p}),
         clicks' = clicks, LoadLeft' \in Nat, Len(ps) + LoadLeft' <= Due(p) + LoadLeft,
         \A q \in Posted(ps) : Due(q) = 0,
         ps = <<>> \/ (\E x : ps = <<x>>) \/ \E x, y : ps = <<x, y>>
  PROVE  BudgetInv'
<1>1. /\ IsFiniteSet(pending) /\ Weight(pending) \in Nat /\ LoadLeft \in 0..3
      /\ nextRpc \in Nat /\ MaxRpc \in Nat /\ MaxClicks \in Nat /\ clicks \in 0..MaxClicks
      /\ nextRpc + LoadLeft + Weight(pending) + 3 * (MaxClicks - clicks) <= MaxRpc + 1
  BY BudgetFacts
<1>2. /\ pending' = (pending \ {p}) \cup Posted(ps) /\ nextRpc' = nextRpc + Len(ps)
      /\ \A q \in Posted(ps) : q \notin pending
  BY TurnFacts
<1> DEFINE kept == pending \ {p}
<1>3. /\ IsFiniteSet(kept) /\ Weight(kept) = Weight(pending) - Due(p) /\ Due(p) \in Nat
      /\ Weight(kept) \in Nat /\ \A q \in Posted(ps) : q \notin kept
  BY <1>1, <1>2, WeightFacts DEF Due
<1>4. Len(ps) \in Nat /\ IsFiniteSet(pending') /\ Weight(pending') = Weight(kept)
  <2>1. CASE ps = <<>>
    BY <1>1, <1>2, <1>3, <2>1, PostedFacts
  <2>2. ASSUME NEW x, ps = <<x>> PROVE <1>4
    <3>1. PICK q : q = Request(x, nextRpc)
      OBVIOUS
    <3>2. pending' = kept \cup {q} /\ q \notin kept /\ Due(q) = 0 /\ Len(ps) = 1
      BY <1>1, <1>2, <1>3, <2>2, <3>1, PostedFacts
    <3> QED
      BY <1>3, <3>2, WeightFacts
  <2>3. ASSUME NEW x, NEW y, ps = <<x, y>> PROVE <1>4
    <3>1. PICK q, r : q = Request(x, nextRpc) /\ r = Request(y, nextRpc + 1)
      OBVIOUS
    <3>2. /\ pending' = (kept \cup {q}) \cup {r} /\ q \notin kept /\ r \notin kept
          /\ Due(q) = 0 /\ Due(r) = 0 /\ Len(ps) = 2
      BY <1>1, <1>2, <1>3, <2>3, <3>1, PostedFacts
    <3>3. q.id = nextRpc /\ r.id = nextRpc + 1
      BY <3>1 DEF Request
    <3>4. IsFiniteSet(kept \cup {q}) /\ Weight(kept \cup {q}) = Weight(kept) + Due(q)
      BY <1>3, <3>2, WeightFacts
    <3>5. q # r
      BY <1>1, <3>3
    <3>6. Weight(pending') = Weight(kept \cup {q}) + Due(r)
      BY <3>2, <3>4, <3>5, WeightFacts
    <3>7. IsFiniteSet(pending')
      BY <3>2, <3>4, WeightFacts
    <3> QED
      BY <1>3, <3>2, <3>4, <3>6, <3>7
  <2> QED
    BY <2>1, <2>2, <2>3
<1> HIDE DEF kept
<1>5. nextRpc' \in Nat /\ nextRpc' + LoadLeft' + Weight(pending') + 3 * (MaxClicks - clicks') <= MaxRpc + 1
  <2>1. PICK w, w1, d, n : w = Weight(pending) /\ w1 = Weight(pending') /\ d = Due(p) /\ n = Len(ps)
    OBVIOUS
  <2>2. w \in Nat /\ d \in Nat /\ n \in Nat /\ w1 = w - d /\ n + LoadLeft' <= d + LoadLeft
    BY <1>1, <1>3, <1>4, <2>1
  <2>3. nextRpc' = nextRpc + n /\ clicks' = clicks
    BY <1>2, <2>1
  <2>4. nextRpc + LoadLeft + w + 3 * (MaxClicks - clicks) <= MaxRpc + 1
    BY <1>1, <2>1
  <2>5. PICK c \in Nat : c = MaxClicks - clicks
    BY <1>1
  <2>6. PICK l \in Nat, l1 \in Nat : l = LoadLeft /\ l1 = LoadLeft'
    BY <1>1
  <2>7. nextRpc + l + w + 3 * c <= MaxRpc + 1 /\ n + l1 <= d + l
    BY <2>2, <2>4, <2>5, <2>6
  <2>8. nextRpc' \in Nat /\ nextRpc' + l1 + w1 + 3 * c <= MaxRpc + 1
    BY <1>1, <2>2, <2>3, <2>7
  <2> QED
    BY <2>1, <2>3, <2>5, <2>6, <2>8
<1> QED
  BY <1>1, <1>4, <1>5, BudgetByWeight

-----------------------------------------------------------------------------
(* What a turn leaves as it was.                                           *)

\* Requests are about handles given out, if the new ones are.
LEMMA TurnKeepsRequests ==
  ASSUME CoreInv, RequestInv, NEW ps, NEW gone, Postable(ps), Turn(ps, gone),
         live' \subseteq 0..(nextId - 1),
         \A q \in Posted(ps) : q.op \in OfHandle => q.h < nextId
  PROVE  RequestInv'
<1>1. /\ pending' = (pending \ gone) \cup Posted(ps) /\ nextId' = nextId
      /\ \A q \in Posted(ps) : WellFormed(q)
  BY TurnFacts DEF workerVars, contractVars
<1> QED
  BY <1>1 DEF RequestInv, WellFormed

\* Replies say what they said: the page neither writes replies nor touches
\* the worker's state.
LEMMA TurnKeepsReplies ==
  ASSUME CoreInv, NEW ps, NEW gone, Postable(ps), Turn(ps, gone)
  PROVE  /\ ReplyInv => ReplyInv'
         /\ AnswerInv => AnswerInv'
         /\ SerialOrder => SerialOrder'
<1>1. /\ UNCHANGED <<contract, nextId, table, cur>>
      /\ ToSet(outbox') \subseteq ToSet(outbox) /\ nextRpc \in Nat
      /\ \A a \in ToSet(outbox') : \A p \in pending' : p.id = a.id => p \in pending
      /\ \A p \in pending : p.id \in Nat /\ p.id < nextRpc
      /\ \A q \in Posted(ps) : q.id \in Nat /\ nextRpc <= q.id
      /\ ToSet(inbox') = ToSet(inbox) \cup Posted(ps) /\ Running' = Running
  BY TurnFacts DEF workerVars, contractVars
<1>2. ReplyInv => ReplyInv'
  BY <1>1 DEF ReplyInv
<1>3. AnswerInv => AnswerInv'
  BY <1>1 DEF AnswerInv, Borrowed
<1>4. SerialOrder => SerialOrder'
  <2> SUFFICES ASSUME SerialOrder PROVE SerialOrder'
    OBVIOUS
  <2>1. \A x, y : Follows(outbox', x, y) => Follows(outbox, x, y)
    <3>1. outbox' = outbox \/ (outbox # <<>> /\ outbox' = Tail(outbox))
      BY DEF Turn
    <3>2. outbox \in Seq(Replies)
      BY DEF CoreInv, TypeInv
    <3> QED
      BY <3>1, <3>2, TailOrder
  <2>2. IdsRise(outbox')
    <3>1. \A x, y : Follows(outbox, x, y) => x.id < y.id
      BY IdOrder DEF SerialOrder
    <3> QED
      BY <2>1, <3>1, IdOrder
  <2>3. ASSUME NEW a \in ToSet(outbox'), NEW q \in ToSet(inbox') \cup Running' PROVE a.id < q.id
    <3>1. a \in ToSet(outbox)
      BY <1>1
    <3>2. PICK p \in pending : p.id = a.id
      BY <3>1 DEF CoreInv, PendingInv
    <3> QED
      BY <1>1, <2>3, <3>1, <3>2 DEF SerialOrder
  <2> QED
    BY <2>2, <2>3 DEF SerialOrder
<1> QED
  BY <1>2, <1>3, <1>4

\* The load waits for the same request.
LEMMA TurnKeepsLoad ==
  ASSUME CoreInv, LoadInv, NEW ps, NEW gone, Postable(ps), Turn(ps, gone),
         UNCHANGED <<awaits, phase>>, \A p \in gone : p.id # awaits,
         \A q \in Posted(ps) : q.op \notin {"boot", "instantiate", "describe"}
  PROVE  /\ LoadInv' /\ LoadLeft' = LoadLeft
         /\ \A op : Awaited(op)' <=> Awaited(op)
<1>1. /\ pending' = (pending \ gone) \cup Posted(ps) /\ contract' = contract
      /\ \A p \in pending : p.id \in Nat /\ p.id < nextRpc
      /\ nextRpc \in Nat /\ \A q \in Posted(ps) : q.id \in Nat /\ nextRpc <= q.id
  BY TurnFacts DEF workerVars, contractVars
<1>2. awaits = None \/ \E p \in pending : p.id = awaits
  BY DEF LoadInv, Awaited
<1>3. None \notin Nat
  BY WorkerAssumption DEF WorkerAssumption
<1>4. \A q \in Posted(ps) : q.id # awaits
  BY <1>1, <1>2, <1>3
<1>5. \A op : Awaited(op)' <=> Awaited(op)
  BY <1>1, <1>4 DEF Awaited
<1>6. LoadInv'
  BY <1>1, <1>5 DEF LoadInv
<1>7. LoadLeft' = LoadLeft
  BY <1>5 DEF LoadLeft
<1> QED
  BY <1>5, <1>6, <1>7

\* The panel, when the turn redraws it and asks for the methods.
LEMMA RedrawKeepsPanel ==
  ASSUME CoreInv, NEW ps, NEW gone, Postable(ps), Turn(ps, gone),
         panel' = <<>>, here' /\ live' # {} => sel' # None,
         sel' # None => \E q \in Posted(ps) : q.op = "implemented" /\ q.h = sel'
  PROVE  PanelInv'
  BY TurnFacts DEF PanelInv, Waits

\* The panel, when the turn leaves it alone.
LEMMA TurnKeepsPanel ==
  ASSUME CoreInv, PanelInv, NEW ps, NEW gone, Postable(ps), Turn(ps, gone),
         UNCHANGED <<panel, here, sel, live>>,
         \A p \in gone : p.op = "implemented" => p.h # sel
  PROVE  PanelInv'
  BY TurnFacts DEF PanelInv, Waits

-----------------------------------------------------------------------------
(* What a turn leaves as it was, when operations do not park.              *)

\* Handles on their way, as positions of the outbox and as its elements.
LEMMA AnnouncedFacts ==
  ASSUME CoreInv PROVE \A h : Announced(h) <=> \E a \in Minting : a.result = h
  BY DEF Announced, Minting, ToSet, CoreInv, TypeInv

\* The table and the cards, by the replies that announce a handle.
CardsByReply ==
  /\ \A h \in DOMAIN table : h \in live \/ \E a \in Minting : a.result = h
  /\ live \ DOMAIN table \subseteq dropping
  /\ \A a \in Minting : /\ a.result \in DOMAIN table /\ a.result \notin live
                        /\ \A b \in Minting : b.result = a.result => a = b
  /\ \A p \in PendingOf({"drop"}) :
       p.h \in dropping /\ \A q \in PendingOf({"drop"}) : p.h = q.h => p = q

\* CardsInv says the same.
LEMMA CardsFacts == ASSUME CoreInv, phase # "gone" PROVE CardsInv <=> CardsByReply
  BY AnnouncedFacts DEF CardsInv, CardsMatchTable, CardsByReply

\* CardsInv says the same in the next state.
LEMMA CardsFactsNext == (CoreInv /\ phase # "gone" => (CardsInv <=> CardsByReply))'
<1>1. CoreInv /\ phase # "gone" => (CardsInv <=> CardsByReply)
  BY CardsFacts
<1> QED
  BY <1>1, PTL

\* The announcements that a turn leaves.
LEMMA TurnMinting ==
  ASSUME CoreInv, NEW ps, NEW gone, Postable(ps), Turn(ps, gone)
  PROVE  Minting' = {a \in Minting : \A p \in gone : p.id # a.id}
<1>1. /\ ToSet(outbox') \subseteq ToSet(outbox) /\ pending' = (pending \ gone) \cup Posted(ps)
      /\ \A a \in ToSet(outbox) : a \in ToSet(outbox') \/ \E p \in gone : p.id = a.id
      /\ \A a \in ToSet(outbox') : /\ \A p \in pending' : p.id = a.id => p \in pending \ gone
                                   /\ \A p \in gone : p.id # a.id
  BY TurnFacts
<1>2. Minting' \subseteq {a \in Minting : \A p \in gone : p.id # a.id}
  BY <1>1 DEF Minting
<1>3. {a \in Minting : \A p \in gone : p.id # a.id} \subseteq Minting'
  BY <1>1 DEF Minting
<1> QED
  BY <1>2, <1>3

\* A turn that neither drops nor learns of a UTXO leaves cards and table agreeing.
LEMMA TurnKeepsCards ==
  ASSUME CoreInv, CardsInv, phase # "gone", phase' # "gone",
         NEW ps, NEW gone, Postable(ps), Turn(ps, gone), UNCHANGED <<live, dropping>>,
         \A p \in gone : /\ p.op # "drop"
                         /\ p.op \in Mints => \A a \in ToSet(outbox) : a.id = p.id => ~a.ok,
         \A q \in Posted(ps) : q.op # "drop"
  PROVE  CardsInv'
<1>1. /\ CoreInv' /\ table' = table /\ gone \subseteq pending
      /\ pending' = (pending \ gone) \cup Posted(ps)
  BY TurnFacts DEF workerVars, contractVars
<1>2. Minting' = Minting
  <2>1. \A a \in Minting, p \in gone : p.id # a.id
    BY <1>1 DEF Minting, CoreInv, PendingInv
  <2> QED
    BY <2>1, TurnMinting
<1>3. PendingOf({"drop"})' = PendingOf({"drop"})
  BY <1>1 DEF PendingOf
<1>4. CardsByReply
  BY CardsFacts
<1>5. CardsByReply'
  BY <1>1, <1>2, <1>3, <1>4 DEF CardsByReply
<1> QED
  BY <1>1, <1>5, CardsFactsNext

\* A turn without a setCardano leaves the form applied.
LEMMA TurnKeepsForm ==
  ASSUME CoreInv, FormInv, NEW ps, NEW gone, Postable(ps), Turn(ps, gone),
         UNCHANGED <<phase, fields>>, \A op : Awaited(op)' <=> Awaited(op),
         \A q \in Posted(ps) : q.op # "setCardano"
  PROVE  FormInv'
<1>1. UNCHANGED <<contract, cardano>> /\ Sets' = Sets
  BY TurnFacts DEF workerVars, contractVars, Sets
<1> QED
  BY <1>1 DEF FormInv

\* A turn leaves the storage of each live UTXO read, being read or about to be,
\* if it asks for that of the new ones and after each call.
LEMMA TurnKeepsStorage ==
  ASSUME CoreInv, StorageInv, NEW ps, NEW gone, Postable(ps), Turn(ps, gone),
         \A h \in live' \cap DOMAIN table :
           \/ \E q \in Posted(ps) : q.op = "storageGet" /\ q.h = h
           \/ /\ h \in live /\ (h \in DOMAIN shown => h \in DOMAIN shown' /\ shown'[h] = shown[h])
              /\ \A p \in gone : p.h = h =>
                   /\ p.op # "storageGet"
                   /\ p.op = "call" => \A a \in ToSet(outbox) : a.id = p.id => ~a.ok
  PROVE  StorageInv'
<1>1. /\ ToSet(outbox') \subseteq ToSet(outbox) /\ pending' = (pending \ gone) \cup Posted(ps)
      /\ \A a \in ToSet(outbox) : a \in ToSet(outbox') \/ \E p \in gone : p.id = a.id
      /\ \A a \in ToSet(outbox') : /\ \A p \in pending' : p.id = a.id => p \in pending \ gone
                                   /\ \A p \in gone : p.id # a.id
      /\ ToSet(inbox') = ToSet(inbox) \cup Posted(ps) /\ Running' = Running
      /\ table' = table /\ gone \subseteq pending
  BY TurnFacts DEF workerVars, contractVars
<1>2. \A p, q \in pending : p.id = q.id => p = q
  BY DEF CoreInv, PendingInv
<1> SUFFICES ASSUME NEW h \in live' \cap DOMAIN table, ~table[h].dead
             PROVE  \/ \E r \in ToSet(inbox') \cup Running' : r.op = "storageGet" /\ r.h = h
                    \/ \E a \in ToSet(outbox'), p \in pending' :
                         a.id = p.id /\ a.ok /\ p.op = "call" /\ p.h = h
                    \/ \E a \in Reads(h)' : /\ a.ok /\ a.result = table[h].version
                                            /\ \A b \in Reads(h)' : b.id <= a.id
                    \/ Reads(h)' = {} /\ h \in DOMAIN shown' /\ shown'[h] = table[h].version
  BY <1>1, Zenon DEF StorageInv
<1>3. CASE \E q \in Posted(ps) : q.op = "storageGet" /\ q.h = h
  BY <1>1, <1>3
<1>4. CASE /\ h \in live /\ (h \in DOMAIN shown => h \in DOMAIN shown' /\ shown'[h] = shown[h])
           /\ \A p \in gone : p.h = h =>
                /\ p.op # "storageGet"
                /\ p.op = "call" => \A a \in ToSet(outbox) : a.id = p.id => ~a.ok
  <2>1. Reads(h)' = Reads(h)
    <3>1. Reads(h)' \subseteq Reads(h)
      BY <1>1 DEF Reads
    <3>2. Reads(h) \subseteq Reads(h)'
      BY <1>1, <1>2, <1>4 DEF Reads
    <3> QED
      BY <3>1, <3>2
  <2>2. ASSUME NEW a \in ToSet(outbox), NEW p \in pending, a.id = p.id, a.ok, p.op = "call", p.h = h
        PROVE  a \in ToSet(outbox') /\ p \in pending'
    BY <1>1, <1>2, <1>4, <2>2
  <2>3. \/ \E r \in ToSet(inbox) \cup Running : r.op = "storageGet" /\ r.h = h
        \/ \E a \in ToSet(outbox), p \in pending : a.id = p.id /\ a.ok /\ p.op = "call" /\ p.h = h
        \/ \E a \in Reads(h) : a.ok /\ a.result = table[h].version /\ \A b \in Reads(h) : b.id <= a.id
        \/ Reads(h) = {} /\ h \in DOMAIN shown /\ shown[h] = table[h].version
    BY <1>4, Zenon DEF StorageInv
  <2> QED
    BY <1>1, <1>4, <2>1, <2>2, <2>3
<1> QED
  BY <1>3, <1>4, Zenon

\* A turn that clears the panel or leaves it offers nothing undeclared.
LEMMA TurnKeepsOffers ==
  ASSUME CoreInv, OnlyCallableOffered, NEW ps, NEW gone, Postable(ps), Turn(ps, gone),
         panel' = <<>> \/ UNCHANGED <<sel, panel>>,
         \A q \in Posted(ps) : q.op = "call" /\ q.h \in DOMAIN table => q.arg \in table[q.h].declared
  PROVE  OnlyCallableOffered'
<1>1. pending' = (pending \ gone) \cup Posted(ps) /\ table' = table
  BY TurnFacts DEF workerVars, contractVars
<1>2. CASE panel' = <<>>
  <2>1. Len(panel') = 0 /\ \A i \in 1..Len(panel') : FALSE
    BY <1>2
  <2> QED
    BY <1>1, <2>1 DEF OnlyCallableOffered
<1>3. CASE UNCHANGED <<sel, panel>>
  BY <1>1, <1>3 DEF OnlyCallableOffered
<1> QED
  BY <1>2, <1>3

-----------------------------------------------------------------------------
(* Turns that change the cards, their storage or the form.                 *)

\* A reply that is read is the oldest there is, and leaves the outbox.
LEMMA HeadFacts ==
  ASSUME CoreInv, NEW ps, NEW p, Postable(ps), Turn(ps, {p})
  PROVE  /\ p \in pending /\ outbox # <<>> /\ outbox' = Tail(outbox)
         /\ Head(outbox) \in Replies /\ p.id = Head(outbox).id
         /\ ToSet(outbox) = {Head(outbox)} \cup ToSet(outbox')
         /\ \A a \in ToSet(outbox') : a.id # p.id
         /\ \A q \in pending : q.id = p.id => q = p
         /\ SerialOrder => \A a \in ToSet(outbox') : Head(outbox).id < a.id
<1>1. p \in pending /\ outbox # <<>> /\ outbox' = Tail(outbox) /\ p.id = Head(outbox).id
  BY DEF Turn
<1>2. outbox \in Seq(Replies)
  BY DEF CoreInv, TypeInv
<1>3. Head(outbox) \in Replies /\ ToSet(outbox) = {Head(outbox)} \cup ToSet(outbox')
  BY <1>1, <1>2, TailFacts
<1>4. \A a \in ToSet(outbox') : a.id # p.id
  BY TurnFacts
<1>5. ASSUME SerialOrder PROVE \A a \in ToSet(outbox') : Head(outbox).id < a.id
  <2>1. \A x, y : Follows(outbox, x, y) => x.id < y.id
    BY <1>5, IdOrder DEF SerialOrder
  <2> QED
    BY <1>1, <1>2, <2>1, TailOrder
<1> QED
  BY <1>1, <1>3, <1>4, <1>5 DEF CoreInv, PendingInv

\* A drop button marks the card whose drop it asks for.
LEMMA DropClickKeepsCards ==
  ASSUME CoreInv, CardsInv, phase # "gone", phase' # "gone",
         NEW ps, Postable(ps), Turn(ps, {}), NEW q, Posted(ps) = {q}, q.op = "drop", q.h \notin dropping,
         live' = live, dropping' = dropping \cup {q.h}
  PROVE  CardsInv'
<1>1. CoreInv' /\ table' = table /\ pending' = pending \cup {q}
  BY TurnFacts DEF workerVars, contractVars
<1>2. Minting' = Minting
  BY TurnMinting
<1>3. PendingOf({"drop"})' = PendingOf({"drop"}) \cup {q}
  BY <1>1 DEF PendingOf
<1>4. CardsByReply
  BY CardsFacts
<1>5. CardsByReply'
  BY <1>1, <1>2, <1>3, <1>4 DEF CardsByReply
<1> QED
  BY <1>1, <1>5, CardsFactsNext

\* The reply to a mint turns the announced handle into a card.
LEMMA MintedKeepsCards ==
  ASSUME CoreInv, CardsInv, phase # "gone", phase' # "gone",
         NEW ps, NEW p, Postable(ps), Turn(ps, {p}), p.op \in Mints, Head(outbox).ok,
         \A q \in Posted(ps) : q.op # "drop",
         live' = live \cup {Head(outbox).result}, dropping' = dropping
  PROVE  CardsInv'
<1> DEFINE a == Head(outbox)
<1>1. CoreInv' /\ table' = table /\ pending' = (pending \ {p}) \cup Posted(ps) /\ p.op # "drop"
  BY TurnFacts DEF workerVars, contractVars, Mints
<1>2. a \in Minting /\ Minting' = Minting \ {a}
  <2>1. a \in Minting
    BY HeadFacts DEF Minting
  <2>2. \A b \in Minting : b.id = p.id <=> b = a
    BY HeadFacts DEF Minting
  <2> QED
    BY <2>1, <2>2, TurnMinting
<1>3. PendingOf({"drop"})' = PendingOf({"drop"})
  BY <1>1, HeadFacts DEF PendingOf
<1>4. CardsByReply
  BY CardsFacts
<1> HIDE DEF a
<1>5. live' = live \cup {a.result}
  BY DEF a
<1>6. CardsByReply'
  <2>1. \A h \in DOMAIN table : h \in live' \/ \E b \in Minting' : b.result = h
    BY <1>2, <1>4, <1>5 DEF CardsByReply
  <2>2. live' \ DOMAIN table \subseteq dropping
    BY <1>2, <1>4, <1>5 DEF CardsByReply
  <2>3. \A c \in Minting' : /\ c.result \in DOMAIN table /\ c.result \notin live'
                            /\ \A b \in Minting' : b.result = c.result => c = b
    BY <1>2, <1>4, <1>5 DEF CardsByReply
  <2> QED
    BY <1>1, <1>3, <1>4, <2>1, <2>2, <2>3 DEF CardsByReply
<1> QED
  BY <1>1, <1>6, CardsFactsNext

\* The reply to a drop removes a card whose UTXO is gone.
LEMMA DroppedKeepsCards ==
  ASSUME CoreInv, CardsInv, AnswerInv, phase # "gone", phase' # "gone",
         NEW ps, NEW p, Postable(ps), Turn(ps, {p}), p.op = "drop",
         \A q \in Posted(ps) : q.op # "drop",
         live' = live \ {p.h}, dropping' = dropping \ {p.h}
  PROVE  CardsInv'
<1>1. CoreInv' /\ table' = table /\ pending' = (pending \ {p}) \cup Posted(ps) /\ p.op \notin Mints
  BY TurnFacts DEF workerVars, contractVars, Mints
<1>2. Minting' = Minting
  <2>1. \A a \in Minting : p.id # a.id
    BY <1>1, HeadFacts DEF Minting
  <2> QED
    BY <2>1, TurnMinting
<1>3. PendingOf({"drop"})' = PendingOf({"drop"}) \ {p} /\ p \in PendingOf({"drop"})
  BY <1>1, HeadFacts DEF PendingOf
<1>4. CardsByReply
  BY CardsFacts
<1>5. p.h \notin DOMAIN table
  BY HeadFacts DEF AnswerInv
<1>6. CardsByReply'
  BY <1>1, <1>2, <1>3, <1>4, <1>5 DEF CardsByReply
<1> QED
  BY <1>1, <1>6, CardsFactsNext

\* The youngest answer to a read is the last to be displayed.
LEMMA ReadKeepsStorage ==
  ASSUME CoreInv, SerialOrder, StorageInv, NEW p, Postable(<<>>), Turn(<<>>, {p}),
         p.op = "storageGet", live' = live,
         shown' = [h \in DOMAIN shown \cup ({p.h} \cap live) |->
                     IF h = p.h THEN Head(outbox).result ELSE shown[h]]
  PROVE  StorageInv'
<1> DEFINE a == Head(outbox)
<1>1. /\ pending' = pending \ {p} /\ p \in pending
      /\ ToSet(inbox') = ToSet(inbox) /\ Running' = Running /\ table' = table
      /\ a \in Replies /\ a.id = p.id /\ ToSet(outbox) = {a} \cup ToSet(outbox')
      /\ \A b \in ToSet(outbox') : b.id # p.id /\ a.id < b.id
      /\ \A q \in pending : q.id = p.id => q = p
  <2>1. nextRpc \in Nat
    BY WorkerAssumption DEF CoreInv, TypeInv, TypeOK, WorkerAssumption
  <2>2. Posted(<<>>) = {}
    BY <2>1, PostedFacts
  <2>3. /\ p \in pending /\ a \in Replies /\ a.id = p.id /\ ToSet(outbox) = {a} \cup ToSet(outbox')
        /\ \A b \in ToSet(outbox') : b.id # p.id /\ a.id < b.id
        /\ \A q \in pending : q.id = p.id => q = p
    BY HeadFacts
  <2>4. /\ pending' = (pending \ {p}) \cup Posted(<<>>) /\ ToSet(inbox') = ToSet(inbox) \cup Posted(<<>>)
        /\ Running' = Running /\ table' = table
    BY TurnFacts DEF workerVars, contractVars
  <2> QED
    BY <2>2, <2>3, <2>4
<1>2. \A b \in ToSet(outbox') : b.id \in Nat
  <2>1. ToSet(outbox') \subseteq ToSet(outbox) /\ ToSet(outbox) \subseteq Replies
    BY <1>1, ElementFacts DEF CoreInv, TypeInv
  <2> QED
    BY <2>1, WorkerAssumption DEF Replies, WorkerAssumption
<1> HIDE DEF a
<1>3. \A h : Reads(h)' = Reads(h) \ {a} /\ (h # p.h => a \notin Reads(h)) /\ a \in Reads(p.h)
  <2> TAKE h
  <2>1. Reads(h)' = Reads(h) \ {a}
    <3>1. Reads(h)' \subseteq Reads(h) \ {a}
      BY <1>1 DEF Reads
    <3>2. Reads(h) \ {a} \subseteq Reads(h)'
      BY <1>1 DEF Reads
    <3> QED
      BY <3>1, <3>2
  <2>2. h # p.h => a \notin Reads(h)
    BY <1>1 DEF Reads
  <2>3. a \in Reads(p.h)
    BY <1>1 DEF Reads
  <2> QED
    BY <2>1, <2>2, <2>3
<1> SUFFICES ASSUME NEW h \in live \cap DOMAIN table, ~table[h].dead
             PROVE  \/ \E r \in ToSet(inbox') \cup Running' : r.op = "storageGet" /\ r.h = h
                    \/ \E b \in ToSet(outbox'), q \in pending' :
                         b.id = q.id /\ b.ok /\ q.op = "call" /\ q.h = h
                    \/ \E b \in Reads(h)' : /\ b.ok /\ b.result = table[h].version
                                            /\ \A c \in Reads(h)' : c.id <= b.id
                    \/ Reads(h)' = {} /\ h \in DOMAIN shown' /\ shown'[h] = table[h].version
  BY <1>1, Zenon DEF StorageInv
<1>4. h \in DOMAIN shown => h \in DOMAIN shown' /\ (h # p.h => shown'[h] = shown[h])
  OBVIOUS
<1>5. h = p.h => h \in DOMAIN shown' /\ shown'[h] = a.result
  BY DEF a
<1>6. CASE \E r \in ToSet(inbox) \cup Running : r.op = "storageGet" /\ r.h = h
  BY <1>1, <1>6
<1>7. CASE \E b \in ToSet(outbox), q \in pending : b.id = q.id /\ b.ok /\ q.op = "call" /\ q.h = h
  BY <1>1, <1>7
<1>8. ASSUME NEW b \in Reads(h), b.ok, b.result = table[h].version, \A c \in Reads(h) : c.id <= b.id
      PROVE  \/ \E d \in Reads(h)' : /\ d.ok /\ d.result = table[h].version
                                     /\ \A c \in Reads(h)' : c.id <= d.id
             \/ Reads(h)' = {} /\ h \in DOMAIN shown' /\ shown'[h] = table[h].version
  <2>1. CASE b = a
    <3>1. h = p.h
      BY <1>3, <2>1
    <3>2. \A c \in Reads(h)' : c \in ToSet(outbox') /\ c.id <= a.id
      BY <1>3, <1>8, <2>1 DEF Reads
    <3>3. Reads(h)' = {}
      BY <1>1, <1>2, <3>2, WorkerAssumption DEF Replies, WorkerAssumption
    <3> QED
      BY <1>5, <1>8, <2>1, <3>1, <3>3
  <2>2. CASE b # a
    BY <1>3, <1>8, <2>2
  <2> QED
    BY <2>1, <2>2
<1>9. CASE Reads(h) = {} /\ h \in DOMAIN shown /\ shown[h] = table[h].version
  BY <1>3, <1>4, <1>9
<1> QED
  BY <1>6, <1>7, <1>8, <1>9, Zenon DEF StorageInv

\* A change of the form goes out after those before it.
LEMMA FieldKeepsForm ==
  ASSUME CoreInv, FormInv, NEW ps, NEW gone, Postable(ps), Turn(ps, gone),
         phase' = phase, \A op : Awaited(op)' <=> Awaited(op),
         NEW q, Posted(ps) = {q}, q.op = "setCardano", q.arg = fields'
  PROVE  FormInv'
<1>1. /\ UNCHANGED <<contract, cardano>> /\ Sets' = Sets \cup {q}
      /\ \A r \in Sets : r.id < q.id
  <2>1. \A r \in ToSet(inbox) : r.id \in Nat /\ r.id < nextRpc
    BY TurnFacts DEF CoreInv, PendingInv
  <2> QED
    BY <2>1, TurnFacts DEF workerVars, contractVars, Sets
<1>2. \A r \in Sets' : (\A o \in Sets' : o.id <= r.id) => r = q
  <2>1. \A r \in Sets : r.id \in Nat
    BY TurnFacts DEF CoreInv, PendingInv, Sets
  <2> QED
    BY <1>1, <2>1, TurnFacts
<1> QED
  BY <1>1, <1>2 DEF FormInv

-----------------------------------------------------------------------------
(* The clicks.                                                             *)

\* The parts of the invariant while the worker is there.
LEMMA LiveFacts ==
  ASSUME CardInv, phase # "gone"
  PROVE  /\ CoreInv /\ LoadInv /\ RequestInv /\ ReplyInv /\ PanelInv /\ BudgetInv /\ CardTypeOK
         /\ ~Suspends => SerialInv /\ OnlyCallableOffered
         /\ nextRpc \in Nat /\ nextId \in Nat /\ log \in Seq(Entries)
         /\ live \in SUBSET Nat /\ live \subseteq Ids /\ 0..(nextId - 1) \subseteq Ids
         /\ \A h \in live : h < nextId
         /\ sel \in {None} \cup live /\ None \notin Nat /\ None \notin live
<1>1. /\ CoreInv /\ LoadInv /\ RequestInv /\ ReplyInv /\ PanelInv /\ BudgetInv /\ CardTypeOK
      /\ ~Suspends => SerialInv /\ OnlyCallableOffered
  BY DEF CardInv, PageInv
<1>2. /\ MaxRpc \in Nat /\ nextRpc \in Nat /\ nextId \in 0..MaxRpc /\ log \in Seq(Entries)
      /\ None \notin Nat
  BY <1>1, WorkerAssumption DEF CoreInv, TypeInv, TypeOK, Ids, WorkerAssumption
<1>3. live \subseteq 0..(nextId - 1) /\ sel \in {None} \cup live
  BY <1>1 DEF RequestInv, CardTypeOK
<1>4. 0..(nextId - 1) \subseteq 0..MaxRpc
  BY <1>2
<1>5. live \in SUBSET Nat /\ \A h \in live : h < nextId
  BY <1>2, <1>3
<1>6. live \subseteq 0..MaxRpc
  BY <1>3, <1>4, Zenon
<1>7. live \subseteq Ids /\ 0..(nextId - 1) \subseteq Ids
  BY <1>4, <1>6 DEF Ids
<1>8. nextId \in Nat
  BY <1>2
<1>9. None \notin live
  BY <1>2, <1>5, Zenon
<1> QED
  BY <1>1, <1>2, <1>3, <1>5, <1>7, <1>8, <1>9

\* What a turn that was looked into keeps.
LEMMA TurnKeepsCard ==
  ASSUME CardInv, phase # "gone", phase' # "gone",
         NEW ps, NEW gone, Postable(ps), Turn(ps, gone),
         CardTypeOK', BudgetInv', LoadInv', PanelInv', live' \subseteq 0..(nextId - 1),
         \A q \in Posted(ps) : q.op \in OfHandle => q.h < nextId,
         ~Suspends => CardsInv' /\ FormInv' /\ StorageInv' /\ OnlyCallableOffered'
  PROVE  CardInv'
<1>1. CoreInv /\ RequestInv /\ ReplyInv /\ (~Suspends => SerialInv)
  BY LiveFacts
<1>2. CoreInv' /\ RequestInv' /\ ReplyInv'
  BY <1>1, TurnFacts, TurnKeepsRequests, TurnKeepsReplies
<1>3. ~Suspends => SerialInv'
  BY <1>1, TurnKeepsReplies DEF SerialInv
<1> QED
  BY <1>2, <1>3 DEF CardInv, PageInv

\* What a click may ask for: nothing, or one thing that no load asks for.
Clickable(ps) ==
  \/ ps = <<>>
  \/ \E x \in Payloads(Ids) : /\ ps = <<x>> /\ x.op \notin {"boot", "instantiate", "describe"}
                              /\ x.op \in OfHandle => x.h < nextId

\* A click is a turn that settles nothing and can be paid for.
LEMMA ClickTurn ==
  ASSUME CardInv, Click, phase' = phase, live' = live, log' \in Seq(Entries),
         NEW ps, Clickable(ps), Post(ps)
  PROVE  /\ Postable(ps) /\ Turn(ps, {}) /\ BudgetInv' /\ LoadInv'
         /\ \A op : Awaited(op)' <=> Awaited(op)
         /\ \A q \in Posted(ps) : q.op \in OfHandle => q.h < nextId
         /\ ~Suspends => StorageInv'
<1>1. /\ CoreInv /\ LoadInv /\ BudgetInv /\ CardTypeOK /\ (~Suspends => SerialInv)
      /\ nextRpc \in Nat /\ phase # "gone" /\ clicks < MaxClicks /\ clicks' = clicks + 1
  BY LiveFacts DEF Click
<1>2. nextRpc <= MaxRpc + 1 /\ nextRpc + 1 <= MaxRpc + 1
  BY <1>1, BudgetFacts
<1>3. /\ Postable(ps)
      /\ ps = <<>> \/ \E x : ps = <<x>>
      /\ \A q \in Posted(ps) : /\ q.op \notin {"boot", "instantiate", "describe"}
                               /\ q.op \in OfHandle => q.h < nextId
  <2>1. CASE ps = <<>>
    <3>1. Plain("new") \in Payloads(Ids)
      BY PayloadFacts DEF Mints
    <3>2. Postable(<<>>) /\ Posted(<<>>) = {}
      BY <1>1, <1>2, <3>1, PostableFacts, PostedFacts
    <3> QED
      BY <2>1, <3>2
  <2>2. ASSUME NEW x \in Payloads(Ids), ps = <<x>>, x.op \notin {"boot", "instantiate", "describe"},
               x.op \in OfHandle => x.h < nextId
        PROVE  <1>3
    <3>1. Posted(<<x>>) = {Request(x, nextRpc)} /\ Postable(<<x>>)
      BY <1>1, <1>2, <2>2, PostableFacts, PostedFacts
    <3> QED
      BY <2>2, <3>1 DEF Request
  <2> QED
    BY <2>1, <2>2 DEF Clickable
<1>4. Turn(ps, {})
  BY DEF Turn, Post, Posted, Click
<1>5. LoadInv' /\ LoadLeft' = LoadLeft /\ \A op : Awaited(op)' <=> Awaited(op)
  BY <1>1, <1>3, <1>4, TurnKeepsLoad DEF Click
<1>6. BudgetInv'
  BY <1>1, <1>3, <1>4, <1>5, ClickKeepsBudget
<1>7. ~Suspends => StorageInv'
  BY <1>1, <1>3, <1>4, TurnKeepsStorage DEF Click, SerialInv
<1> QED
  BY <1>3, <1>4, <1>5, <1>6, <1>7

\* A click that leaves the selection alone and drops nothing.
LEMMA ClickKeepsCard ==
  ASSUME CardInv, Click, log' \in Seq(Entries), NEW ps, Clickable(ps), Post(ps),
         UNCHANGED <<phase, here, live, dropping, sel, panel>>, fields' \in Contexts,
         \A q \in Posted(ps) :
           /\ q.op # "drop"
           /\ ~Suspends /\ q.op = "call" /\ q.h \in DOMAIN table => q.arg \in table[q.h].declared,
         \/ UNCHANGED fields /\ \A q \in Posted(ps) : q.op # "setCardano"
         \/ \E q : Posted(ps) = {q} /\ q.op = "setCardano" /\ q.arg = fields'
  PROVE  CardInv'
<1>1. /\ Postable(ps) /\ Turn(ps, {}) /\ BudgetInv' /\ LoadInv'
      /\ \A op : Awaited(op)' <=> Awaited(op)
      /\ \A q \in Posted(ps) : q.op \in OfHandle => q.h < nextId
      /\ ~Suspends => StorageInv'
  BY ClickTurn
<1>2. /\ CoreInv /\ PanelInv /\ CardTypeOK /\ (~Suspends => SerialInv /\ OnlyCallableOffered)
      /\ phase # "gone" /\ RequestInv
  BY LiveFacts DEF Click
<1>3. CardTypeOK'
  BY <1>2, CardAssumption DEF CardTypeOK, Click, CardAssumption
<1>4. PanelInv'
  BY <1>1, <1>2, TurnKeepsPanel
<1>5. ~Suspends => CardsInv'
  BY <1>1, <1>2, TurnKeepsCards DEF SerialInv
<1>6. ~Suspends => FormInv'
  BY <1>1, <1>2, TurnKeepsForm, FieldKeepsForm DEF SerialInv
<1>7. ~Suspends => OnlyCallableOffered'
  BY <1>1, <1>2, TurnKeepsOffers
<1> QED
  BY <1>1, <1>2, <1>3, <1>4, <1>5, <1>6, <1>7, TurnKeepsCard DEF RequestInv

\* A click that redraws the panel.
LEMMA RedrawClickKeepsCard ==
  ASSUME CardInv, Click, log' = log, here' \in BOOLEAN, panel' = <<>>,
         UNCHANGED <<phase, fields, live, dropping>>,
         sel' \in {None} \cup live, sel' # None => here', here' /\ live # {} => sel' # None,
         Post(Asked(sel'))
  PROVE  CardInv'
<1> DEFINE ps == Asked(sel')
<1>1. /\ CoreInv /\ PanelInv /\ CardTypeOK /\ (~Suspends => SerialInv /\ OnlyCallableOffered)
      /\ phase # "gone" /\ RequestInv /\ log \in Seq(Entries) /\ nextRpc \in Nat
      /\ live \subseteq Ids /\ \A h \in live : h < nextId
  BY LiveFacts DEF Click
<1>2. /\ Clickable(ps)
      /\ \A q \in Posted(ps) : q.op = "implemented"
      /\ sel' # None => \E q \in Posted(ps) : q.op = "implemented" /\ q.h = sel'
  <2>1. CASE sel' = None
    <3>1. ps = <<>> /\ Posted(ps) = {}
      BY <1>1, <2>1, PostedFacts DEF Asked
    <3> QED
      BY <2>1, <3>1 DEF Clickable
  <2>2. CASE sel' # None
    <3>1. PICK x : x = On("implemented", sel')
      OBVIOUS
    <3>2. x \in Payloads(Ids) /\ x.op = "implemented" /\ x.h = sel' /\ x.h < nextId /\ ps = <<x>>
      BY <1>1, <2>2, <3>1, PayloadFacts DEF Asked, On
    <3>3. Posted(<<x>>) = {Request(x, nextRpc)}
      BY <1>1, PostedFacts
    <3>4. Posted(ps) = {Request(x, nextRpc)}
      BY <3>2, <3>3, Zenon
    <3>5. Request(x, nextRpc).op = "implemented" /\ Request(x, nextRpc).h = sel'
      BY <3>2 DEF Request
    <3>6. Clickable(ps)
      BY <3>2 DEF Clickable
    <3> HIDE DEF ps
    <3> QED
      BY <3>4, <3>5, <3>6
  <2> QED
    BY <2>1, <2>2
<1> HIDE DEF ps
<1>3. Post(ps)
  BY DEF ps
<1>4. /\ Postable(ps) /\ Turn(ps, {}) /\ BudgetInv' /\ LoadInv'
      /\ \A op : Awaited(op)' <=> Awaited(op)
      /\ \A q \in Posted(ps) : q.op \in OfHandle => q.h < nextId
      /\ ~Suspends => StorageInv'
  BY <1>1, <1>2, <1>3, ClickTurn
<1>5. CardTypeOK'
  <2>1. \A i \in 1..Len(panel') : FALSE
    OBVIOUS
  <2> QED
    BY <1>1, <2>1, CardAssumption DEF CardTypeOK, Click, CardAssumption
<1>6. PanelInv'
  BY <1>1, <1>2, <1>4, RedrawKeepsPanel
<1>7. ~Suspends => CardsInv'
  BY <1>1, <1>2, <1>4, TurnKeepsCards DEF SerialInv
<1>8. ~Suspends => FormInv'
  BY <1>1, <1>2, <1>4, TurnKeepsForm DEF SerialInv
<1>9. ~Suspends => OnlyCallableOffered'
  BY <1>1, <1>2, <1>4, TurnKeepsOffers
<1> QED
  BY <1>1, <1>4, <1>5, <1>6, <1>7, <1>8, <1>9, TurnKeepsCard DEF RequestInv

\* A single request is postable for a click.
LEMMA PostsOne ==
  ASSUME nextRpc \in Nat, NEW x \in Payloads(Ids), x.op \notin {"boot", "instantiate", "describe"},
         x.op \in OfHandle => x.h < nextId
  PROVE  /\ Clickable(<<x>>)
         /\ Posted(<<x>>) = {Request(x, nextRpc)}
         /\ Request(x, nextRpc).op = x.op /\ Request(x, nextRpc).h = x.h /\ Request(x, nextRpc).arg = x.arg
  BY PostedFacts DEF Clickable, Request

\* A Construct or Load button.
LEMMA MintClickKeepsCard ==
  ASSUME CardInv, NEW op \in Mints, ClickMint(op) PROVE CardInv'
<1>1. nextRpc \in Nat /\ log \in Seq(Entries) /\ CardTypeOK
  BY LiveFacts DEF ClickMint, Click
<1>2. PICK x : x = Plain(op)
  OBVIOUS
<1>3. x \in Payloads(Ids) /\ x.op = op /\ op \in {"new", "load"}
  BY <1>2, PayloadFacts DEF Plain, Mints
<1>4. /\ Clickable(<<x>>)
      /\ \A q \in Posted(<<x>>) : q.op = op
  BY <1>1, <1>3, PostsOne DEF OfHandle
<1>5. Post(<<x>>)
  BY <1>2 DEF ClickMint
<1> QED
  BY <1>1, <1>3, <1>4, <1>5, ClickKeepsCard DEF ClickMint, CardTypeOK

\* A method button: what it calls was offered, so the gate lets it through.
LEMMA MethodClickKeepsCard ==
  ASSUME CardInv, NEW m \in Methods, ClickMethod(m) PROVE CardInv'
<1>1. /\ nextRpc \in Nat /\ log \in Seq(Entries) /\ PanelInv /\ CardTypeOK
      /\ ~Suspends => OnlyCallableOffered
      /\ live \subseteq Ids /\ sel \in {None} \cup live /\ \A h \in live : h < nextId
  BY LiveFacts DEF ClickMethod, Click
<1>2. sel # None
  BY <1>1 DEF ClickMethod, PanelInv
<1>3. PICK x : x = [op |-> "call", h |-> sel, arg |-> m]
  OBVIOUS
<1>4. x \in Payloads(Ids) /\ x.op = "call" /\ x.h = sel /\ x.arg = m
  BY <1>1, <1>2, <1>3, PayloadFacts
<1>5. ~Suspends /\ sel \in DOMAIN table => m \in table[sel].declared
  BY <1>1 DEF ClickMethod, OnlyCallableOffered
<1>6. Clickable(<<x>>) /\ \A q \in Posted(<<x>>) : q.op = "call" /\ q.h = sel /\ q.arg = m
  BY <1>1, <1>2, <1>4, PostsOne
<1>7. Post(<<x>>)
  BY <1>3 DEF ClickMethod
<1> QED
  BY <1>1, <1>5, <1>6, <1>7, ClickKeepsCard DEF ClickMethod, CardTypeOK

\* Typing in the Cardano form.
LEMMA FieldClickKeepsCard ==
  ASSUME CardInv, NEW c \in Contexts, ChangeField(c) PROVE CardInv'
<1>1. nextRpc \in Nat /\ log \in Seq(Entries)
  BY LiveFacts DEF ChangeField, Click
<1>2. PICK x : x = Cardano(c)
  OBVIOUS
<1>3. x \in Payloads(Ids) /\ x.op = "setCardano" /\ x.arg = c
  BY <1>2, PayloadFacts DEF Cardano
<1>4. PICK q : q = Request(x, nextRpc)
  OBVIOUS
<1>5. Clickable(<<x>>) /\ Posted(<<x>>) = {q} /\ q.op = "setCardano" /\ q.arg = c
  BY <1>1, <1>3, <1>4, PostsOne DEF OfHandle
<1>6. Post(<<x>>)
  BY <1>2 DEF ChangeField
<1> QED
  BY <1>1, <1>5, <1>6, ClickKeepsCard DEF ChangeField

\* The Clear button of the log.
LEMMA ClearLogKeepsCard == ASSUME CardInv, ClearLog PROVE CardInv'
<1>1. /\ nextRpc \in Nat /\ CardTypeOK /\ inbox \in Seq(Requests)
  BY LiveFacts DEF ClearLog, Click, CoreInv, TypeInv, TypeOK
<1>2. Posted(<<>>) = {} /\ Len(<<>>) = 0 /\ Clickable(<<>>)
  BY <1>1, PostedFacts DEF Clickable
<1>3. Numbered(<<>>) = <<>>
  BY DEF Numbered
<1>4. Post(<<>>)
  BY <1>1, <1>2, <1>3 DEF Post, Posted, ClearLog
<1>5. log' \in Seq(Entries)
  BY DEF ClearLog
<1> QED
  BY <1>1, <1>2, <1>4, <1>5, ClickKeepsCard DEF ClearLog, CardTypeOK

\* Selecting, redrawing and moving the panel.
LEMMA PanelClicksKeepCard ==
  ASSUME CardInv, (\E h \in live : SelectUtxo(h)) \/ OtherContract \/ SwitchContract
  PROVE  CardInv'
<1>1. phase # "gone"
  BY DEF SelectUtxo, OtherContract, SwitchContract, Click
<1>2. CardTypeOK /\ live \in SUBSET Nat /\ None \notin live /\ sel \in {None} \cup live
  BY <1>1, LiveFacts
<1>3. ASSUME NEW h \in live, SelectUtxo(h) PROVE CardInv'
  <2>1. Post(Asked(sel'))
    BY <1>3, Zenon DEF SelectUtxo
  <2> QED
    BY <1>2, <1>3, <2>1, RedrawClickKeepsCard DEF SelectUtxo, Click, CardTypeOK
<1>4. CASE OtherContract
  <2>1. sel' = sel
    BY <1>2, <1>4 DEF OtherContract, Redraw, Selection, CardTypeOK
  <2>2. Post(Asked(sel'))
    BY <1>4, <2>1, Zenon DEF OtherContract
  <2> QED
    BY <1>2, <1>4, <2>1, <2>2, RedrawClickKeepsCard DEF OtherContract, Redraw, Click, CardTypeOK
<1>5. CASE SwitchContract
  <2>1. sel' \in {None} \cup live /\ (sel' # None => here') /\ (here' /\ live # {} => sel' # None)
    BY <1>2, <1>5 DEF SwitchContract
  <2> QED
    BY <1>2, <1>5, <2>1, RedrawClickKeepsCard DEF SwitchContract, Click, CardTypeOK
<1> QED
  BY <1>3, <1>4, <1>5

\* The drop button of a card.
LEMMA DropClickKeepsCard ==
  ASSUME CardInv, NEW h \in live, ClickDrop(h) PROVE CardInv'
<1>1. /\ CoreInv /\ PanelInv /\ CardTypeOK /\ (~Suspends => SerialInv /\ OnlyCallableOffered)
      /\ phase # "gone" /\ RequestInv /\ log \in Seq(Entries) /\ nextRpc \in Nat
      /\ h \in Ids /\ h < nextId
  BY LiveFacts DEF ClickDrop, Click
<1>2. PICK x : x = On("drop", h)
  OBVIOUS
<1>3. x \in Payloads(Ids) /\ x.op = "drop" /\ x.h = h
  BY <1>1, <1>2, PayloadFacts DEF On
<1>4. PICK q : q = Request(x, nextRpc)
  OBVIOUS
<1>5. Clickable(<<x>>) /\ Posted(<<x>>) = {q} /\ q.op = "drop" /\ q.h = h
  BY <1>1, <1>3, <1>4, PostsOne
<1>6. Post(<<x>>) /\ dropping' = dropping \cup {q.h} /\ q.h \notin dropping
  BY <1>2, <1>5 DEF ClickDrop
<1>7. Click /\ UNCHANGED <<phase, fields, live, here, sel, panel, log, awaits, shown>>
  BY DEF ClickDrop, Click
<1>8. /\ Postable(<<x>>) /\ Turn(<<x>>, {}) /\ BudgetInv' /\ LoadInv'
      /\ \A op : Awaited(op)' <=> Awaited(op)
      /\ ~Suspends => StorageInv'
  BY <1>1, <1>5, <1>6, <1>7, ClickTurn
<1>9. CardTypeOK'
  BY <1>1, <1>5, <1>6, <1>7, CardAssumption DEF CardTypeOK, Click, CardAssumption
<1>10. PanelInv'
  BY <1>1, <1>7, <1>8, TurnKeepsPanel
<1>11. ~Suspends => CardsInv'
  BY <1>1, <1>5, <1>6, <1>7, <1>8, DropClickKeepsCards DEF SerialInv
<1>12. ~Suspends => FormInv'
  BY <1>1, <1>5, <1>7, <1>8, TurnKeepsForm DEF SerialInv
<1>13. ~Suspends => OnlyCallableOffered'
  BY <1>1, <1>5, <1>7, <1>8, TurnKeepsOffers
<1> QED
  BY <1>1, <1>5, <1>7, <1>8, <1>9, <1>10, <1>11, <1>12, <1>13, TurnKeepsCard DEF RequestInv

\* The terminate button: the worker and all its messages are gone.
LEMMA TerminateKeepsCard == ASSUME CardInv, ClickTerminate PROVE CardInv'
<1>1. CardTypeOK /\ phase' = "gone" /\ inbox' = <<>> /\ outbox' = <<>> /\ cur' = None
  BY DEF CardInv, ClickTerminate
<1>2. CardTypeOK'
  BY <1>1, CardAssumption DEF CardTypeOK, ClickTerminate, CardAssumption
<1>3. ~Suspends => OnlyCallableOffered'
  BY DEF CardInv, ClickTerminate, OnlyCallableOffered, contractVars, proxyVars
<1> QED
  BY <1>1, <1>2, <1>3 DEF CardInv

\* Every user action.
LEMMA UserKeepsCard == ASSUME CardInv, User PROVE CardInv'
  BY MintClickKeepsCard, MethodClickKeepsCard, FieldClickKeepsCard, ClearLogKeepsCard,
     PanelClicksKeepCard, DropClickKeepsCard, TerminateKeepsCard DEF User

-----------------------------------------------------------------------------
(* The replies.                                                            *)

\* A reply that is settled makes a turn.
LEMMA SettleTurn ==
  ASSUME CardInv, outbox # <<>>, NEW p \in pending, NEW ps, Settle(p, Head(outbox), ps),
         UNCHANGED workerVars
  PROVE  phase # "gone" /\ Turn(ps, {p}) /\ Head(outbox) \in Replies /\ p.id = Head(outbox).id
<1>1. phase # "gone"
  BY DEF CardInv
<1>2. CoreInv /\ log \in Seq(Entries)
  BY <1>1, LiveFacts
<1>3. outbox \in Seq(Replies) /\ TypeOK
  BY <1>2 DEF CoreInv, TypeInv
<1>4. Head(outbox) \in Replies /\ Head(outbox) \in ToSet(outbox)
  BY <1>3, TailFacts
<1>5. log' \in Seq(Entries)
  BY <1>2, <1>3, <1>4, ShownFacts, ConcatFacts DEF Settle
<1> QED
  BY <1>1, <1>4, <1>5 DEF Turn, Settle, Settled, Posted

\* What an answer outside the load is followed by: reads of storage and
\* queries of methods, as many as are due.
Query(x) == x \in Payloads(Ids) /\ x.op \in {"storageGet", "implemented"} /\ x.h < nextId
Followup(p, ps) ==
  \/ ps = <<>>
  \/ Due(p) >= 1 /\ \E x : ps = <<x>> /\ Query(x)
  \/ Due(p) = 2 /\ \E x, y : ps = <<x, y>> /\ Query(x) /\ Query(y)

\* What every reply but those of the load leaves alone.
LEMMA ReplyTurn ==
  ASSUME CardInv, outbox # <<>>, NEW p \in pending, NEW ps, Settle(p, Head(outbox), ps),
         UNCHANGED <<workerVars, clicks, awaits, phase>>, Followup(p, ps),
         p.op \notin {"boot", "instantiate", "setCardano", "describe"} \/ p.id # awaits
  PROVE  /\ Postable(ps) /\ Turn(ps, {p}) /\ BudgetInv' /\ LoadInv' /\ phase' # "gone"
         /\ \A op : Awaited(op)' <=> Awaited(op)
         /\ \A q \in Posted(ps) : q.op \in {"storageGet", "implemented"} /\ q.h < nextId
<1>1. phase # "gone" /\ Turn(ps, {p})
  BY SettleTurn
<1>2. /\ CoreInv /\ LoadInv /\ BudgetInv /\ CardTypeOK /\ nextRpc \in Nat /\ None \notin Nat
      /\ MaxRpc \in Nat
  BY <1>1, LiveFacts, WorkerAssumption DEF WorkerAssumption
<1>3. p.id # awaits
  <2>1. p.id \in Nat
    BY <1>2, WorkerAssumption DEF CoreInv, TypeInv, TypeOK, Requests, WorkerAssumption
  <2>2. \A q \in pending : q.id = p.id => q = p
    BY <1>2 DEF CoreInv, PendingInv
  <2> QED
    BY <1>2, <2>1, <2>2 DEF LoadInv, Awaited
<1>4. nextRpc <= MaxRpc + 1 /\ nextRpc + Due(p) <= MaxRpc + 1 /\ Due(p) \in 0..2
  <2>1. nextRpc + LoadLeft + Due(p) <= MaxRpc + 1 /\ LoadLeft \in 0..3 /\ nextRpc <= MaxRpc + 1
    BY <1>2, BudgetFacts
  <2> QED
    BY <1>2, <2>1 DEF Due
<1>5. ASSUME NEW x, NEW id PROVE /\ Query(x) => Request(x, id).op \in {"storageGet", "implemented"}
                                 /\ Query(x) => Request(x, id).h < nextId
  BY DEF Query, Request
<1>6. /\ Postable(ps) /\ Len(ps) <= Due(p)
      /\ \A q \in Posted(ps) : q.op \in {"storageGet", "implemented"} /\ q.h < nextId
      /\ ps = <<>> \/ (\E x : ps = <<x>>) \/ \E x, y : ps = <<x, y>>
  <2>1. CASE ps = <<>>
    <3>1. Plain("new") \in Payloads(Ids)
      BY PayloadFacts DEF Mints
    <3>2. Postable(<<>>) /\ Posted(<<>>) = {} /\ Len(<<>>) = 0
      BY <1>2, <1>4, <3>1, PostableFacts, PostedFacts
    <3> QED
      BY <1>4, <2>1, <3>2
  <2>2. ASSUME NEW x, ps = <<x>>, Query(x), Due(p) >= 1 PROVE <1>6
    <3>1. Posted(<<x>>) = {Request(x, nextRpc)} /\ Len(<<x>>) = 1
      BY <1>2, PostedFacts
    <3>2. Postable(<<x>>)
      <4>1. nextRpc + 1 <= MaxRpc + 1 /\ x \in Payloads(Ids) /\ x.op # "instantiate"
        BY <1>2, <1>4, <2>2 DEF Query
      <4> QED
        BY <1>2, <4>1, PostableFacts
    <3> QED
      BY <1>5, <2>2, <3>1, <3>2
  <2>3. ASSUME NEW x, NEW y, ps = <<x, y>>, Query(x), Query(y), Due(p) = 2 PROVE <1>6
    <3>1. Posted(<<x, y>>) = {Request(x, nextRpc), Request(y, nextRpc + 1)} /\ Len(<<x, y>>) = 2
      BY <1>2, PostedFacts
    <3>2. Postable(<<x, y>>)
      BY <1>2, <1>4, <2>3, PostableFacts DEF Query
    <3> QED
      BY <1>5, <2>3, <3>1, <3>2
  <2> QED
    BY <2>1, <2>2, <2>3 DEF Followup
<1>7. LoadInv' /\ LoadLeft' = LoadLeft /\ \A op : Awaited(op)' <=> Awaited(op)
  BY <1>1, <1>2, <1>3, <1>6, TurnKeepsLoad
<1>8. BudgetInv'
  <2>1. LoadLeft \in Nat
    BY <1>2, BudgetFacts
  <2>2. \A q \in Posted(ps) : Due(q) = 0
    BY <1>6 DEF Due, Mints
  <2> QED
    BY <1>1, <1>2, <1>4, <1>6, <1>7, <2>1, <2>2, ReplyKeepsBudget
<1> QED
  BY <1>1, <1>6, <1>7, <1>8

\* The replies that are only reported, and a call that succeeded.
LEMMA CalledKeepsCard ==
  ASSUME CardInv, outbox # <<>>, NEW p \in pending, UNCHANGED <<workerVars, clicks>>,
         Called(p, Head(outbox)) \/ Reported(p, Head(outbox))
  PROVE  CardInv'
<1> DEFINE a == Head(outbox)
<1>1. phase # "gone"
  BY DEF CardInv
<1>2. /\ CoreInv /\ RequestInv /\ PanelInv /\ CardTypeOK /\ (~Suspends => SerialInv /\ OnlyCallableOffered)
      /\ nextRpc \in Nat
  BY <1>1, LiveFacts
<1>3. UNCHANGED <<phase, awaits, fields, live, dropping, shown, here, sel, panel>>
  BY DEF Called, Reported
<1>4. PICK ps : /\ Settle(p, a, ps) /\ Followup(p, ps)
                /\ p.op \notin {"boot", "instantiate", "setCardano", "describe"} \/ p.id # awaits
                /\ p.op \notin {"drop", "storageGet", "implemented"}
                /\ p.op \in Mints => ~a.ok
                /\ p.op = "call" /\ a.ok => \E q \in Posted(ps) : q.op = "storageGet" /\ q.h = p.h
  <2>1. CASE Called(p, a)
    <3>1. PICK x : x = On("storageGet", p.h)
      OBVIOUS
    <3>2. p.op = "call" /\ a.ok /\ Settle(p, a, <<x>>)
      BY <2>1, <3>1 DEF Called
    <3>3. p.h \in Ids /\ p.h < nextId
      BY <1>2, <3>2 DEF RequestInv, WellFormed, OfHandle
    <3>4. Query(x) /\ x.op = "storageGet" /\ x.h = p.h
      BY <3>1, <3>3, PayloadFacts DEF Query, On
    <3>5. Due(p) = 1
      BY <3>2 DEF Due, Mints
    <3>6. Posted(<<x>>) = {Request(x, nextRpc)}
      BY <1>2, PostedFacts
    <3>7. \E q \in Posted(<<x>>) : q.op = "storageGet" /\ q.h = p.h
      <4>1. Request(x, nextRpc).op = "storageGet" /\ Request(x, nextRpc).h = p.h
        BY <3>4 DEF Request
      <4> QED
        BY <3>6, <4>1
    <3> QED
      BY <3>2, <3>4, <3>5, <3>7 DEF Followup, Mints
  <2>2. CASE Reported(p, a)
    BY <2>2 DEF Reported, Followup, Mints
  <2> QED
    BY <2>1, <2>2
<1>5. /\ Postable(ps) /\ Turn(ps, {p}) /\ BudgetInv' /\ LoadInv' /\ phase' # "gone"
      /\ \A op : Awaited(op)' <=> Awaited(op)
      /\ \A q \in Posted(ps) : q.op \in {"storageGet", "implemented"} /\ q.h < nextId
  BY <1>3, <1>4, ReplyTurn
<1>6. \A b \in ToSet(outbox) : b.id = p.id => b = a
  BY <1>2, <1>5, HeadFacts
<1> HIDE DEF a
<1>7. CardTypeOK'
  BY <1>2, <1>3 DEF CardTypeOK
<1>8. PanelInv'
  BY <1>2, <1>3, <1>4, <1>5, TurnKeepsPanel
<1>9. ~Suspends => CardsInv'
  BY <1>1, <1>2, <1>3, <1>4, <1>5, <1>6, TurnKeepsCards DEF SerialInv
<1>10. ~Suspends => FormInv'
  BY <1>2, <1>3, <1>5, TurnKeepsForm DEF SerialInv
<1>11. ~Suspends => StorageInv'
  BY <1>2, <1>3, <1>4, <1>5, <1>6, TurnKeepsStorage DEF SerialInv
<1>12. ~Suspends => OnlyCallableOffered'
  BY <1>2, <1>3, <1>5, TurnKeepsOffers
<1> QED
  BY <1>1, <1>2, <1>3, <1>5, <1>7, <1>8, <1>9, <1>10, <1>11, <1>12, TurnKeepsCard DEF RequestInv

\* Replies after which nothing is posted.
LEMMA LastReply ==
  ASSUME CardInv, outbox # <<>>, NEW p \in pending, UNCHANGED <<workerVars, clicks, awaits, phase>>,
         Settle(p, Head(outbox), <<>>), p.op \in {"implemented", "storageGet"}
  PROVE  /\ phase # "gone" /\ phase' # "gone" /\ Postable(<<>>) /\ Turn(<<>>, {p}) /\ BudgetInv' /\ LoadInv'
         /\ \A op : Awaited(op)' <=> Awaited(op)
         /\ Posted(<<>>) = {}
<1>1. phase # "gone"
  BY DEF CardInv
<1>2. nextRpc \in Nat
  BY <1>1, LiveFacts
<1> QED
  BY <1>1, <1>2, ReplyTurn, PostedFacts DEF Followup

\* Methods are appended to the panel only for the UTXO still selected, and were
\* declared by it.
LEMMA MethodsKnownKeepsCard ==
  ASSUME CardInv, outbox # <<>>, NEW p \in pending, UNCHANGED <<workerVars, clicks>>,
         MethodsKnown(p, Head(outbox))
  PROVE  CardInv'
<1> DEFINE a == Head(outbox)
<1>1. /\ phase # "gone" /\ phase' # "gone" /\ Postable(<<>>) /\ Turn(<<>>, {p}) /\ BudgetInv' /\ LoadInv'
      /\ \A op : Awaited(op)' <=> Awaited(op)
      /\ Posted(<<>>) = {}
  BY LastReply DEF MethodsKnown
<1>2. /\ CoreInv /\ RequestInv /\ ReplyInv /\ PanelInv /\ CardTypeOK
      /\ ~Suspends => SerialInv /\ OnlyCallableOffered
      /\ nextRpc \in Nat /\ None \notin Nat
  BY <1>1, LiveFacts
<1>3. /\ p.op = "implemented" /\ UNCHANGED <<phase, awaits, fields, live, dropping, shown, here, sel>>
      /\ panel' = IF sel # p.h THEN panel
                  ELSE Append(panel, [enabled |-> IF a.ok THEN a.result ELSE Methods])
  BY DEF MethodsKnown
<1>4. a \in ToSet(outbox) /\ a.id = p.id /\ a.ok \in BOOLEAN
  BY <1>1, <1>2, HeadFacts DEF Replies
<1>5. a.ok => a.result \in SUBSET Methods
  BY <1>2, <1>3, <1>4 DEF ReplyInv
<1>6. PICK m \in SUBSET Methods : m = IF a.ok THEN a.result ELSE Methods
  BY <1>5
<1>7. (sel = p.h => panel' = Append(panel, [enabled |-> m])) /\ (sel # p.h => panel' = panel)
  BY <1>3, <1>6
<1>8. panel \in Seq([enabled : SUBSET Methods]) /\ [enabled |-> m] \in [enabled : SUBSET Methods]
  BY <1>2 DEF PanelInv
<1> HIDE DEF a
<1>9. panel' \in Seq([enabled : SUBSET Methods])
  <2>1. PICK S, e : S = [enabled : SUBSET Methods] /\ e = [enabled |-> m]
    OBVIOUS
  <2>2. panel \in Seq(S) /\ e \in S
    BY <1>8, <2>1
  <2>3. Append(panel, e) \in Seq(S)
    BY <2>2, AppendFacts
  <2> QED
    BY <1>7, <2>1, <2>2, <2>3
<1>10. CardTypeOK'
  <2>1. \A i \in 1..Len(panel') : panel'[i] \in [enabled : SUBSET Methods]
    BY <1>9, ElementOfSeq
  <2>2. \A i \in 1..Len(panel') : panel'[i].enabled \subseteq Methods
    BY <2>1
  <2> QED
    BY <1>2, <1>3, <2>2 DEF CardTypeOK
<1>11. PanelInv'
  <2>1. CASE sel # p.h
    BY <1>1, <1>2, <1>3, <2>1, TurnKeepsPanel
  <2>2. CASE sel = p.h
    <3>1. p.h \in Nat
      BY <1>2, <1>3, WorkerAssumption DEF RequestInv, WellFormed, OfHandle, Ids, WorkerAssumption
    <3>2. panel' # <<>> /\ sel # None
      BY <1>2, <1>7, <1>8, <2>2, <3>1
    <3> QED
      BY <1>2, <1>3, <1>9, <3>2 DEF PanelInv
  <2> QED
    BY <2>1, <2>2
<1>12. ~Suspends => OnlyCallableOffered'
  <2> SUFFICES ASSUME ~Suspends PROVE OnlyCallableOffered'
    OBVIOUS
  <2>1. OnlyCallableOffered /\ AnswerInv
    BY <1>2 DEF SerialInv
  <2>2. CASE sel # p.h
    BY <1>1, <1>2, <1>3, <2>1, <2>2, TurnKeepsOffers
  <2>3. CASE sel = p.h
    <3>1. sel \in DOMAIN table => m \subseteq table[sel].declared
      BY <1>3, <1>4, <1>6, <2>1, <2>3 DEF AnswerInv
    <3>2. ASSUME NEW i \in 1..Len(panel'), sel \in DOMAIN table
          PROVE  panel'[i].enabled \subseteq table[sel].declared
      <4>1. \/ i \in 1..Len(panel) /\ panel'[i] = panel[i]
            \/ panel'[i] = [enabled |-> m]
        BY <1>7, <1>8, <2>3
      <4> QED
        BY <2>1, <3>1, <3>2, <4>1 DEF OnlyCallableOffered
    <3>3. table' = table /\ pending' \subseteq pending
      BY <1>1, <1>2, TurnFacts DEF workerVars, contractVars
    <3> QED
      BY <1>3, <2>1, <3>2, <3>3 DEF OnlyCallableOffered
  <2> QED
    BY <2>2, <2>3
<1>13. ~Suspends => CardsInv' /\ FormInv' /\ StorageInv'
  <2> SUFFICES ASSUME ~Suspends PROVE CardsInv' /\ FormInv' /\ StorageInv'
    OBVIOUS
  <2>1. CardsInv'
    BY <1>1, <1>2, <1>3, TurnKeepsCards DEF SerialInv, Mints
  <2>2. FormInv'
    BY <1>1, <1>2, <1>3, TurnKeepsForm DEF SerialInv
  <2>3. StorageInv'
    BY <1>1, <1>2, <1>3, TurnKeepsStorage DEF SerialInv
  <2> QED
    BY <2>1, <2>2, <2>3
<1> QED
  BY <1>1, <1>2, <1>3, <1>10, <1>11, <1>12, <1>13, TurnKeepsCard DEF RequestInv

\* The answer to a read is displayed.
LEMMA StorageReadKeepsCard ==
  ASSUME CardInv, outbox # <<>>, NEW p \in pending, UNCHANGED <<workerVars, clicks>>,
         StorageRead(p, Head(outbox))
  PROVE  CardInv'
<1>1. /\ phase # "gone" /\ phase' # "gone" /\ Postable(<<>>) /\ Turn(<<>>, {p}) /\ BudgetInv' /\ LoadInv'
      /\ \A op : Awaited(op)' <=> Awaited(op)
      /\ Posted(<<>>) = {}
  BY LastReply DEF StorageRead
<1>2. /\ CoreInv /\ RequestInv /\ PanelInv /\ CardTypeOK
      /\ ~Suspends => SerialInv /\ OnlyCallableOffered
  BY <1>1, LiveFacts
<1>3. /\ p.op = "storageGet" /\ UNCHANGED <<phase, awaits, fields, live, dropping, here, sel, panel>>
      /\ shown' = [h \in DOMAIN shown \cup ({p.h} \cap live) |->
                     IF h = p.h THEN Head(outbox).result ELSE shown[h]]
  BY DEF StorageRead
<1>4. CardTypeOK'
  <2>1. DOMAIN shown' \subseteq live
    BY <1>2, <1>3 DEF CardTypeOK
  <2> QED
    BY <1>2, <1>3, <2>1 DEF CardTypeOK
<1>5. PanelInv'
  BY <1>1, <1>2, <1>3, TurnKeepsPanel
<1>6. ~Suspends => CardsInv'
  BY <1>1, <1>2, <1>3, TurnKeepsCards DEF SerialInv, Mints
<1>7. ~Suspends => FormInv'
  BY <1>1, <1>2, <1>3, TurnKeepsForm DEF SerialInv
<1>8. ~Suspends => StorageInv'
  BY <1>1, <1>2, <1>3, ReadKeepsStorage DEF SerialInv
<1>9. ~Suspends => OnlyCallableOffered'
  BY <1>1, <1>2, <1>3, TurnKeepsOffers
<1> QED
  BY <1>1, <1>2, <1>3, <1>4, <1>5, <1>6, <1>7, <1>8, <1>9, TurnKeepsCard DEF RequestInv

\* What a redraw of the panel asks for.
LEMMA RedrawFacts ==
  ASSUME CardInv, phase # "gone", NEW hs \in SUBSET Nat, hs \subseteq 0..(nextId - 1), Redraw(hs), here' = here
  PROVE  /\ live' = hs /\ panel' = <<>> /\ sel' \in {None} \cup hs
         /\ sel' # None => here'
         /\ here' /\ live' # {} => sel' # None
         /\ sel' = None => Asked(sel') = <<>>
         /\ sel' # None => /\ Asked(sel') = <<On("implemented", sel')>>
                           /\ Query(On("implemented", sel'))
<1>1. live' = hs /\ panel' = <<>> /\ sel' = Selection(sel, hs)
  BY DEF Redraw
<1>2. /\ sel' \in {None} \cup hs
      /\ sel' # None => here'
      /\ here' /\ live' # {} => sel' # None
  BY <1>1, SelectionFacts
<1>3. ASSUME sel' # None PROVE Query(On("implemented", sel'))
  <2>1. sel' \in Ids /\ sel' < nextId
    <3>1. 0..(nextId - 1) \subseteq Ids /\ nextId \in Nat
      BY LiveFacts
    <3>2. sel' \in 0..(nextId - 1)
      BY <1>2, <1>3
    <3> QED
      BY <3>1, <3>2
  <2> QED
    BY <2>1, PayloadFacts DEF Query, On
<1> QED
  BY <1>1, <1>2, <1>3 DEF Asked

\* The answer to a drop.
LEMMA DroppedKeepsCard ==
  ASSUME CardInv, outbox # <<>>, NEW p \in pending, UNCHANGED <<workerVars, clicks>>,
         Dropped(p, Head(outbox))
  PROVE  CardInv'
<1>1. phase # "gone"
  BY DEF CardInv
<1>2. /\ CoreInv /\ RequestInv /\ PanelInv /\ CardTypeOK
      /\ ~Suspends => SerialInv /\ OnlyCallableOffered
      /\ nextRpc \in Nat /\ live \in SUBSET Nat
  BY <1>1, LiveFacts
<1>3. /\ p.op = "drop" /\ Redraw(live \ {p.h}) /\ Settle(p, Head(outbox), Asked(sel'))
      /\ UNCHANGED <<here, phase, awaits, fields>> /\ dropping' = dropping \ {p.h}
      /\ shown' = [h \in DOMAIN shown \ {p.h} |-> shown[h]]
  BY DEF Dropped
<1> DEFINE ps == Asked(sel')
<1>4. live \ {p.h} \in SUBSET Nat /\ live \ {p.h} \subseteq 0..(nextId - 1)
  BY <1>2 DEF RequestInv
<1>5. /\ live' = live \ {p.h} /\ panel' = <<>> /\ sel' \in {None} \cup live'
      /\ sel' # None => here'
      /\ here' /\ live' # {} => sel' # None
      /\ sel' = None => ps = <<>>
      /\ sel' # None => ps = <<On("implemented", sel')>> /\ Query(On("implemented", sel'))
  BY <1>1, <1>3, <1>4, RedrawFacts
<1>6. /\ Followup(p, ps)
      /\ sel' # None => \E q \in Posted(ps) : q.op = "implemented" /\ q.h = sel'
  <2>1. Due(p) = 1
    BY <1>3 DEF Due, Mints
  <2>2. Followup(p, ps)
    <3> HIDE DEF ps
    <3> QED
      BY <1>5, <2>1 DEF Followup
  <2>3. ASSUME sel' # None PROVE \E q \in Posted(ps) : q.op = "implemented" /\ q.h = sel'
    <3>1. PICK q : q = Request(On("implemented", sel'), nextRpc)
      OBVIOUS
    <3>2. q.op = "implemented" /\ q.h = sel'
      BY <3>1 DEF Request, On
    <3>3. Posted(<<On("implemented", sel')>>) = {q}
      BY <1>2, <3>1, PostedFacts
    <3>4. Posted(ps) = {q}
      BY <1>5, <2>3, <3>3, Zenon
    <3> HIDE DEF ps
    <3> QED
      BY <3>2, <3>4
  <2> QED
    BY <2>2, <2>3
<1> HIDE DEF ps
<1>7. Settle(p, Head(outbox), ps)
  BY <1>3 DEF ps
<1>8. /\ Postable(ps) /\ Turn(ps, {p}) /\ BudgetInv' /\ LoadInv' /\ phase' # "gone"
      /\ \A op : Awaited(op)' <=> Awaited(op)
      /\ \A q \in Posted(ps) : q.op \in {"storageGet", "implemented"} /\ q.h < nextId
  BY <1>3, <1>6, <1>7, ReplyTurn
<1>9. CardTypeOK'
  <2>1. DOMAIN shown' \subseteq live' /\ dropping' \subseteq live'
    BY <1>2, <1>3, <1>5 DEF CardTypeOK
  <2>2. \A i \in 1..Len(panel') : FALSE
    BY <1>5
  <2>3. live' \subseteq Ids
    BY <1>2, <1>5 DEF CardTypeOK
  <2> QED
    BY <1>2, <1>3, <1>5, <2>1, <2>2, <2>3 DEF CardTypeOK
<1>10. PanelInv'
  BY <1>2, <1>5, <1>6, <1>8, RedrawKeepsPanel
<1>11. ~Suspends => CardsInv'
  BY <1>1, <1>2, <1>3, <1>5, <1>8, DroppedKeepsCards DEF SerialInv
<1>12. ~Suspends => FormInv'
  BY <1>2, <1>3, <1>8, TurnKeepsForm DEF SerialInv
<1>13. ~Suspends => StorageInv'
  <2>1. \A h \in live' : h \in live /\ h # p.h /\ (h \in DOMAIN shown => h \in DOMAIN shown' /\ shown'[h] = shown[h])
    BY <1>3, <1>5
  <2> QED
    BY <1>2, <1>8, <2>1, TurnKeepsStorage DEF SerialInv
<1>14. ~Suspends => OnlyCallableOffered'
  BY <1>2, <1>5, <1>8, TurnKeepsOffers
<1>15. live' \subseteq 0..(nextId - 1)
  BY <1>4, <1>5
<1> QED
  BY <1>1, <1>8, <1>9, <1>10, <1>11, <1>12, <1>13, <1>14, <1>15, TurnKeepsCard

\* The answer to a mint.
LEMMA MintedKeepsCard ==
  ASSUME CardInv, outbox # <<>>, NEW p \in pending, UNCHANGED <<workerVars, clicks>>,
         Minted(p, Head(outbox))
  PROVE  CardInv'
<1> DEFINE h0 == Head(outbox).result
           x == On("storageGet", h0)
           ps == <<x>> \o Asked(sel')
<1>1. phase # "gone"
  BY DEF CardInv
<1>2. /\ CoreInv /\ RequestInv /\ ReplyInv /\ PanelInv /\ CardTypeOK
      /\ ~Suspends => SerialInv /\ OnlyCallableOffered
      /\ nextRpc \in Nat /\ live \in SUBSET Nat /\ nextId \in Nat /\ 0..(nextId - 1) \subseteq Ids
  BY <1>1, LiveFacts
<1>3. /\ p.op \in Mints /\ Head(outbox).ok /\ Redraw(live \cup {h0}) /\ Settle(p, Head(outbox), ps)
      /\ UNCHANGED <<here, phase, awaits, fields, dropping, shown>>
  BY DEF Minted
<1>4. h0 \in 0..(nextId - 1)
  <2>1. Turn(ps, {p}) /\ p.id = Head(outbox).id
    BY <1>3, SettleTurn
  <2>2. outbox \in Seq(Replies)
    BY <1>2 DEF CoreInv, TypeInv
  <2>3. Head(outbox) \in ToSet(outbox)
    BY <2>2, TailFacts
  <2> QED
    BY <1>2, <1>3, <2>1, <2>3 DEF ReplyInv
<1> HIDE DEF h0
<1>5. live \cup {h0} \in SUBSET Nat /\ live \cup {h0} \subseteq 0..(nextId - 1)
  BY <1>2, <1>4 DEF RequestInv
<1>6. /\ live' = live \cup {h0} /\ panel' = <<>> /\ sel' \in {None} \cup live'
      /\ sel' # None => here'
      /\ here' /\ live' # {} => sel' # None
      /\ sel' = None => Asked(sel') = <<>>
      /\ sel' # None => Asked(sel') = <<On("implemented", sel')>> /\ Query(On("implemented", sel'))
  BY <1>1, <1>3, <1>5, RedrawFacts
<1>7. Query(x) /\ x.op = "storageGet" /\ x.h = h0
  <2>1. h0 \in Ids /\ h0 < nextId
    BY <1>2, <1>4
  <2> QED
    BY <2>1, PayloadFacts DEF Query, On
<1> HIDE DEF x
<1>8. /\ Followup(p, ps)
      /\ sel' # None => \E q \in Posted(ps) : q.op = "implemented" /\ q.h = sel'
      /\ \E q \in Posted(ps) : q.op = "storageGet" /\ q.h = h0
  <2>1. Due(p) = 2
    BY <1>3 DEF Due
  <2>2. PICK q : q = Request(x, nextRpc)
    OBVIOUS
  <2>3. q.op = "storageGet" /\ q.h = h0
    BY <1>7, <2>2 DEF Request
  <2>4. CASE sel' = None
    <3>1. ps = <<x>>
      BY <1>6, <2>4
    <3>2. Posted(<<x>>) = {q}
      BY <1>2, <2>2, PostedFacts
    <3>3. Posted(ps) = {q}
      BY <3>1, <3>2, Zenon
    <3> HIDE DEF ps
    <3> QED
      BY <1>7, <2>1, <2>3, <2>4, <3>1, <3>3 DEF Followup
  <2>5. CASE sel' # None
    <3>1. PICK y : y = On("implemented", sel')
      OBVIOUS
    <3>2. ps = <<x, y>> /\ Query(y)
      <4>1. Asked(sel') = <<y>> /\ Query(y)
        BY <1>6, <2>5, <3>1
      <4>2. <<x>> \o <<y>> = <<x, y>>
        BY Pairs
      <4> QED
        BY <4>1, <4>2, Zenon
    <3>3. PICK r : r = Request(y, nextRpc + 1)
      OBVIOUS
    <3>4. r.op = "implemented" /\ r.h = sel'
      BY <3>1, <3>3 DEF Request, On
    <3>5. Posted(<<x, y>>) = {q, r}
      BY <1>2, <2>2, <3>3, PostedFacts
    <3>6. Posted(ps) = {q, r}
      BY <3>2, <3>5, Zenon
    <3> HIDE DEF ps
    <3> QED
      BY <1>7, <2>1, <2>3, <3>2, <3>4, <3>6 DEF Followup
  <2> QED
    BY <2>4, <2>5
<1> HIDE DEF ps
<1>9. /\ Postable(ps) /\ Turn(ps, {p}) /\ BudgetInv' /\ LoadInv' /\ phase' # "gone"
      /\ \A op : Awaited(op)' <=> Awaited(op)
      /\ \A q \in Posted(ps) : q.op \in {"storageGet", "implemented"} /\ q.h < nextId
  BY <1>3, <1>8, ReplyTurn DEF Mints
<1>10. CardTypeOK'
  <2>1. DOMAIN shown' \subseteq live' /\ dropping' \subseteq live'
    BY <1>2, <1>3, <1>6 DEF CardTypeOK
  <2>2. \A i \in 1..Len(panel') : FALSE
    BY <1>6
  <2>3. live' \subseteq Ids
    BY <1>2, <1>4, <1>6 DEF CardTypeOK
  <2> QED
    BY <1>2, <1>3, <1>6, <2>1, <2>2, <2>3 DEF CardTypeOK
<1>11. PanelInv'
  BY <1>2, <1>6, <1>8, <1>9, RedrawKeepsPanel
<1>12. ~Suspends => CardsInv'
  BY <1>1, <1>2, <1>3, <1>6, <1>9, MintedKeepsCards DEF SerialInv, h0
<1>13. ~Suspends => FormInv'
  BY <1>2, <1>3, <1>9, TurnKeepsForm DEF SerialInv
<1>14. ~Suspends => StorageInv'
  <2>1. p.op # "storageGet" /\ p.op # "call"
    BY <1>3 DEF Mints
  <2> QED
    BY <1>2, <1>3, <1>6, <1>8, <1>9, <2>1, TurnKeepsStorage DEF SerialInv
<1>15. ~Suspends => OnlyCallableOffered'
  BY <1>2, <1>6, <1>9, TurnKeepsOffers
<1>16. live' \subseteq 0..(nextId - 1)
  BY <1>5, <1>6
<1> QED
  BY <1>1, <1>9, <1>10, <1>11, <1>12, <1>13, <1>14, <1>15, <1>16, TurnKeepsCard

\* The request that the load waits for.
LEMMA AwaitedFacts ==
  ASSUME CoreInv, LoadInv, NEW p \in pending, p.id = awaits
  PROVE  /\ p.id \in Nat /\ phase = "loading" /\ p.op \in {"boot", "instantiate", "setCardano", "describe"}
         /\ \A op : Awaited(op) <=> op = p.op
         /\ \A q \in pending \ {p} : q.op \notin {"boot", "instantiate", "describe"} /\ q.id # awaits
         /\ LoadLeft = IF p.op = "boot" THEN 3 ELSE IF p.op = "instantiate" THEN 2
                       ELSE IF p.op = "setCardano" THEN 1 ELSE 0
<1>1. p.id \in Nat /\ None \notin Nat
  BY WorkerAssumption DEF CoreInv, TypeInv, TypeOK, Requests, WorkerAssumption
<1>2. \A q \in pending : q.id = p.id => q = p
  BY DEF CoreInv, PendingInv
<1>3. \A op : Awaited(op) <=> op = p.op
  BY <1>2 DEF Awaited
<1>4. phase = "loading" /\ p.op \in {"boot", "instantiate", "setCardano", "describe"}
  BY <1>1, <1>3 DEF LoadInv
<1>5. LoadLeft = IF p.op = "boot" THEN 3 ELSE IF p.op = "instantiate" THEN 2
                 ELSE IF p.op = "setCardano" THEN 1 ELSE 0
  BY <1>3 DEF LoadLeft
<1> QED
  BY <1>1, <1>2, <1>3, <1>4, <1>5 DEF LoadInv

\* The load ends, with an error or after describe.
LEMMA LoadEnds ==
  ASSUME CoreInv, LoadInv, NEW p \in pending, p.id = awaits, Postable(<<>>), Turn(<<>>, {p}),
         awaits' = None, phase' \in {"failed", "ready"}, phase' = "ready" => p.op = "describe",
         fields' = fields
  PROVE  /\ LoadInv' /\ LoadLeft' = 0
         /\ FormInv => FormInv'
<1>1. /\ \A q \in pending \ {p} : q.op \notin {"boot", "instantiate", "describe"}
      /\ \A op : Awaited(op) <=> op = p.op
  BY AwaitedFacts
<1>2. nextRpc \in Nat /\ None \notin Nat
  BY WorkerAssumption DEF CoreInv, TypeInv, TypeOK, WorkerAssumption
<1>3. Posted(<<>>) = {}
  BY <1>2, PostedFacts
<1>4. /\ pending' = pending \ {p} /\ UNCHANGED <<contract, cardano>> /\ ToSet(inbox') = ToSet(inbox)
      /\ \A q \in pending : q.id \in Nat
  <2>1. /\ pending' = (pending \ {p}) \cup Posted(<<>>) /\ ToSet(inbox') = ToSet(inbox) \cup Posted(<<>>)
        /\ \A q \in pending : q.id \in Nat
    BY TurnFacts
  <2>2. UNCHANGED <<contract, cardano>>
    BY DEF Turn, workerVars, contractVars
  <2> QED
    BY <1>3, <2>1, <2>2
<1>5. \A op : ~Awaited(op)'
  BY <1>2, <1>4 DEF Awaited
<1>6. LoadInv' /\ LoadLeft' = 0
  BY <1>1, <1>4, <1>5 DEF LoadInv, LoadLeft
<1>7. FormInv => FormInv'
  BY <1>1, <1>4, <1>5 DEF FormInv, Sets
<1> QED
  BY <1>6, <1>7

\* The load goes on with its next request.
LEMMA LoadGoesOn ==
  ASSUME CoreInv, LoadInv, ReplyInv, NEW p \in pending, p.id = awaits,
         NEW x, Postable(<<x>>), Turn(<<x>>, {p}), Head(outbox).ok,
         awaits' = nextRpc, phase' = "loading", fields' = fields,
         \/ p.op = "boot" /\ x.op = "instantiate"
         \/ p.op = "instantiate" /\ x.op = "setCardano" /\ x.arg = fields
         \/ p.op = "setCardano" /\ x.op = "describe"
  PROVE  /\ LoadInv' /\ LoadLeft' \in Nat /\ 1 + LoadLeft' <= LoadLeft
         /\ FormInv => FormInv'
<1>1. /\ \A q \in pending \ {p} : q.op \notin {"boot", "instantiate", "describe"}
      /\ \A op : Awaited(op) <=> op = p.op
      /\ LoadLeft = IF p.op = "boot" THEN 3 ELSE IF p.op = "instantiate" THEN 2
                    ELSE IF p.op = "setCardano" THEN 1 ELSE 0
  BY AwaitedFacts
<1>2. nextRpc \in Nat /\ None \notin Nat
  BY WorkerAssumption DEF CoreInv, TypeInv, TypeOK, WorkerAssumption
<1>3. PICK q : q = Request(x, nextRpc)
  OBVIOUS
<1>4. Posted(<<x>>) = {q} /\ q.op = x.op /\ q.arg = x.arg /\ q.id = nextRpc
  BY <1>2, <1>3, PostedFacts DEF Request
<1>5. /\ pending' = (pending \ {p}) \cup {q} /\ UNCHANGED <<contract, cardano>>
      /\ ToSet(inbox') = ToSet(inbox) \cup {q}
      /\ \A o \in pending : o.id \in Nat /\ o.id < nextRpc
  BY <1>4, TurnFacts DEF workerVars, contractVars
<1>6. \A op : Awaited(op)' <=> op = x.op
  <2>1. \A o \in pending' : o.id = awaits' <=> o = q
    BY <1>2, <1>4, <1>5
  <2> QED
    BY <1>4, <1>5, <2>1 DEF Awaited
<1>7. LoadInv'
  BY <1>1, <1>4, <1>5, <1>6 DEF LoadInv
<1>8. LoadLeft' = IF x.op = "boot" THEN 3 ELSE IF x.op = "instantiate" THEN 2
                  ELSE IF x.op = "setCardano" THEN 1 ELSE 0
  BY <1>6 DEF LoadLeft
<1>10. phase' = "loading" /\ (Awaited("setCardano") \/ Awaited("describe") => p.op = "setCardano")
  BY <1>1
<1>9. ASSUME FormInv PROVE FormInv'
  <2>1. \A r \in ToSet(inbox) : r.id \in Nat /\ r.id < q.id
    BY <1>4, <1>5 DEF CoreInv, PendingInv
  <2>2. CASE p.op = "boot"
    <3>1. ~Awaited("setCardano")' /\ ~Awaited("describe")'
      BY <1>6, <2>2
    <3> QED
      BY <1>10, <3>1 DEF FormInv
  <2>3. CASE p.op = "instantiate"
    <3>1. contract
      <4>1. Head(outbox) \in ToSet(outbox) /\ Head(outbox).id = p.id
        BY HeadFacts
      <4> QED
        BY <2>3, <4>1 DEF ReplyInv
    <3>2. Sets' = Sets \cup {q} /\ q.arg = fields
      BY <1>4, <1>5, <2>3 DEF Sets
    <3>3. \A r \in Sets' : (\A o \in Sets' : o.id <= r.id) => r = q
      BY <1>2, <1>4, <2>1, <3>2 DEF Sets
    <3> QED
      BY <1>5, <3>1, <3>2, <3>3 DEF FormInv
  <2>4. CASE p.op = "setCardano"
    <3>1. Sets' = Sets
      BY <1>4, <1>5, <2>4 DEF Sets
    <3>2. Awaited("setCardano")
      BY <1>1, <2>4
    <3> QED
      BY <1>5, <1>9, <3>1, <3>2 DEF FormInv
  <2> QED
    BY <2>2, <2>3, <2>4
<1> QED
  BY <1>1, <1>7, <1>8, <1>9

\* A step of addContract.
LEMMA LoadKeepsCard ==
  ASSUME CardInv, outbox # <<>>, NEW p \in pending, UNCHANGED <<workerVars, clicks>>,
         LoadStep(p, Head(outbox))
  PROVE  CardInv'
<1> DEFINE a == Head(outbox)
           ps == IF a.ok THEN NextOfLoad(p.op) ELSE <<>>
<1>1. phase # "gone"
  BY DEF CardInv
<1>2. /\ CoreInv /\ LoadInv /\ RequestInv /\ ReplyInv /\ PanelInv /\ BudgetInv /\ CardTypeOK
      /\ ~Suspends => SerialInv /\ OnlyCallableOffered
      /\ nextRpc \in Nat /\ MaxRpc \in Nat
  BY <1>1, LiveFacts, WorkerAssumption DEF WorkerAssumption
<1>3. /\ p.id = awaits /\ Settle(p, a, ps)
      /\ awaits' = IF ps = <<>> THEN None ELSE nextRpc
      /\ phase' = IF ~a.ok THEN "failed" ELSE IF ps = <<>> THEN "ready" ELSE "loading"
      /\ UNCHANGED <<fields, live, dropping, shown, here, sel, panel>>
  BY DEF LoadStep
<1>4. /\ p.op \in {"boot", "instantiate", "setCardano", "describe"}
      /\ \A op : Awaited(op) <=> op = p.op
      /\ \A q \in pending \ {p} : q.op \notin {"boot", "instantiate", "describe"}
      /\ LoadLeft = IF p.op = "boot" THEN 3 ELSE IF p.op = "instantiate" THEN 2
                    ELSE IF p.op = "setCardano" THEN 1 ELSE 0
  BY <1>2, <1>3, AwaitedFacts
<1>5. nextRpc <= MaxRpc + 1 /\ nextRpc + LoadLeft <= MaxRpc + 1 /\ LoadLeft \in 0..3
  <2>1. Due(p) = 0
    BY <1>4 DEF Due, Mints
  <2> QED
    BY <1>2, <2>1, BudgetFacts
<1>6. Turn(ps, {p})
  BY <1>3, SettleTurn
<1>7. fields \in Contexts
  BY <1>2 DEF CardTypeOK
<1>8. \/ ps = <<>> /\ awaits' = None /\ phase' \in {"failed", "ready"} /\ (phase' = "ready" => p.op = "describe")
      \/ \E x : /\ ps = <<x>> /\ a.ok /\ awaits' = nextRpc /\ phase' = "loading"
                /\ \/ p.op = "boot" /\ x = Plain("instantiate")
                   \/ p.op = "instantiate" /\ x = Cardano(fields)
                   \/ p.op = "setCardano" /\ x = Plain("describe")
  <2>1. CASE ~a.ok
    BY <1>3, <2>1
  <2>2. CASE a.ok /\ p.op = "boot"
    <3>1. ps = <<Plain("instantiate")>> /\ ps # <<>>
      BY <2>2 DEF NextOfLoad
    <3> QED
      BY <1>3, <2>2, <3>1
  <2>3. CASE a.ok /\ p.op = "instantiate"
    <3>1. ps = <<Cardano(fields)>> /\ ps # <<>>
      BY <2>3 DEF NextOfLoad
    <3> QED
      BY <1>3, <2>3, <3>1
  <2>4. CASE a.ok /\ p.op = "setCardano"
    <3>1. ps = <<Plain("describe")>> /\ ps # <<>>
      BY <2>4 DEF NextOfLoad
    <3> QED
      BY <1>3, <2>4, <3>1
  <2>5. CASE a.ok /\ p.op = "describe"
    <3>1. ps = <<>>
      BY <2>5 DEF NextOfLoad
    <3> QED
      BY <1>3, <2>5, <3>1
  <2> QED
    BY <1>4, <2>1, <2>2, <2>3, <2>4, <2>5
<1> HIDE DEF a, ps
<1>9. /\ Postable(ps) /\ LoadInv' /\ LoadLeft' \in Nat /\ Len(ps) + LoadLeft' <= Due(p) + LoadLeft
      /\ ~Suspends => FormInv'
      /\ \A q \in Posted(ps) : q.op \in {"instantiate", "describe", "setCardano"}
      /\ ps = <<>> \/ (\E x : ps = <<x>>) \/ \E x, y : ps = <<x, y>>
  <2>0. Due(p) = 0
    BY <1>4 DEF Due, Mints
  <2>1. CASE /\ ps = <<>> /\ awaits' = None /\ phase' \in {"failed", "ready"}
             /\ phase' = "ready" => p.op = "describe"
    <3>1. Plain("describe") \in Payloads(Ids)
      BY PayloadFacts
    <3>2. Postable(<<>>) /\ Posted(<<>>) = {} /\ Len(<<>>) = 0
      BY <1>2, <1>5, <3>1, PostableFacts, PostedFacts
    <3>3. LoadInv' /\ LoadLeft' = 0 /\ (FormInv => FormInv')
      BY <1>2, <1>3, <1>6, <2>1, <3>2, LoadEnds
    <3> QED
      BY <1>2, <1>5, <2>0, <2>1, <3>2, <3>3 DEF SerialInv
  <2>2. ASSUME NEW x, ps = <<x>>, a.ok, awaits' = nextRpc, phase' = "loading",
               \/ p.op = "boot" /\ x = Plain("instantiate")
               \/ p.op = "instantiate" /\ x = Cardano(fields)
               \/ p.op = "setCardano" /\ x = Plain("describe")
        PROVE  <1>9
    <3>1. /\ x \in Payloads(Ids)
          /\ \/ p.op = "boot" /\ x.op = "instantiate"
             \/ p.op = "instantiate" /\ x.op = "setCardano" /\ x.arg = fields
             \/ p.op = "setCardano" /\ x.op = "describe"
      BY <1>7, <2>2, PayloadFacts DEF Plain, Cardano
    <3>2. nextRpc + 1 <= MaxRpc + 1
      BY <1>2, <1>4, <1>5, <3>1
    <3>3. x.op = "instantiate" => ~contract /\ \A r \in ToSet(inbox) : r.op # "instantiate"
      <4> SUFFICES ASSUME x.op = "instantiate"
                   PROVE  ~contract /\ \A r \in ToSet(inbox) : r.op # "instantiate"
        OBVIOUS
      <4>1. p.op = "boot"
        BY <3>1
      <4>2. ~contract
        BY <1>2, <1>4, <4>1 DEF LoadInv
      <4>3. ToSet(inbox) \subseteq pending
        BY <1>2 DEF CoreInv, PendingInv
      <4> QED
        BY <1>4, <4>1, <4>2, <4>3
    <3>4. Postable(<<x>>)
      BY <1>2, <3>1, <3>2, <3>3, PostableFacts
    <3>5. LoadInv' /\ LoadLeft' \in Nat /\ 1 + LoadLeft' <= LoadLeft /\ (FormInv => FormInv')
      BY <1>2, <1>3, <1>6, <2>2, <3>1, <3>4, LoadGoesOn DEF a
    <3>6. Posted(<<x>>) = {Request(x, nextRpc)} /\ Len(<<x>>) = 1
      BY <1>2, PostedFacts
    <3>7. Request(x, nextRpc).op \in {"instantiate", "describe", "setCardano"}
      BY <3>1 DEF Request
    <3>8. Postable(ps) /\ Posted(ps) = {Request(x, nextRpc)} /\ Len(ps) = 1
      BY <2>2, <3>4, <3>6, Zenon
    <3>9. \A q \in Posted(ps) : q.op \in {"instantiate", "describe", "setCardano"}
      BY <3>7, <3>8
    <3>10. Len(ps) + LoadLeft' <= Due(p) + LoadLeft
      <4>1. PICK l \in Nat, l1 \in Nat : l = LoadLeft /\ l1 = LoadLeft'
        BY <1>5, <3>5
      <4>2. PICK d \in Nat, n \in Nat : d = Due(p) /\ n = Len(ps) /\ d = 0 /\ n = 1
        BY <2>0, <3>8
      <4>3. 1 + l1 <= l
        BY <3>5, <4>1, Zenon
      <4>4. n + l1 <= d + l
        BY <4>2, <4>3
      <4> QED
        BY <4>1, <4>2, <4>4, Zenon
    <3>11. ~Suspends => FormInv'
      BY <1>2, <3>5 DEF SerialInv
    <3> QED
      BY <2>2, <3>5, <3>8, <3>9, <3>10, <3>11
  <2> QED
    BY <1>8, <2>1, <2>2
<1>10. BudgetInv'
  <2>1. \A q \in Posted(ps) : Due(q) = 0
    BY <1>9 DEF Due, Mints
  <2> QED
    BY <1>2, <1>6, <1>9, <2>1, ReplyKeepsBudget
<1>11. CardTypeOK' /\ phase' # "gone"
  <2>1. awaits' \in {None} \cup 0..MaxRpc
    BY <1>2, <1>5, <1>8, <1>9, <1>4
  <2>2. phase' \in {"loading", "ready", "failed"}
    BY <1>8
  <2> QED
    BY <1>2, <1>3, <2>1, <2>2 DEF CardTypeOK
<1>12. PanelInv'
  BY <1>2, <1>3, <1>4, <1>6, <1>9, TurnKeepsPanel
<1>13. ~Suspends => CardsInv'
  BY <1>1, <1>2, <1>3, <1>4, <1>6, <1>9, <1>11, TurnKeepsCards DEF SerialInv, Mints
<1>14. ~Suspends => StorageInv'
  BY <1>2, <1>3, <1>4, <1>6, <1>9, TurnKeepsStorage DEF SerialInv
<1>15. ~Suspends => OnlyCallableOffered'
  BY <1>2, <1>3, <1>6, <1>9, TurnKeepsOffers
<1>16. \A q \in Posted(ps) : q.op \notin OfHandle
  BY <1>9 DEF OfHandle
<1> QED
  BY <1>1, <1>2, <1>3, <1>6, <1>9, <1>10, <1>11, <1>12, <1>13, <1>14, <1>15, <1>16, TurnKeepsCard
     DEF RequestInv

\* Every reply the page reads.
LEMMA ReplyKeepsCard == ASSUME CardInv, OnReply PROVE CardInv'
  BY LoadKeepsCard, MintedKeepsCard, CalledKeepsCard, DroppedKeepsCard, MethodsKnownKeepsCard,
     StorageReadKeepsCard DEF OnReply

-----------------------------------------------------------------------------
(* What a step of the worker does: it starts or runs an operation, or it   *)
(* answers a request.                                                      *)

Held == ToSet(inbox) \cup Running
DropHeld == Borrowed /\ cur.req.op = "drop" => cur.req.h \notin DOMAIN table

Quiet ==
  /\ outbox' = outbox /\ Held' = Held /\ UNCHANGED <<contract, nextId, cardano>>
  /\ DOMAIN table' \subseteq DOMAIN table /\ \A h \in DOMAIN table' : table'[h] = table[h]
  /\ \A h \in DOMAIN table \ DOMAIN table' : \E q \in Held : q.op = "drop" /\ q.h = h
  /\ DropHeld => DropHeld'

\* Request r goes from the worker to its reply a; with no operation parked it
\* was the oldest.
Answered(r, a) ==
  /\ r \in pending /\ a \in Replies /\ a.id = r.id /\ outbox' = Append(outbox, a)
  /\ Held = {r} \cup Held' /\ r \notin Held'
  /\ ~Suspends => ~Borrowed' /\ \A q \in Held' : r.id < q.id

\* What the answered request did.
Effect(r, a) ==
  /\ r.op \in Mints /\ a.ok =>
       a.result = nextId /\ nextId' = nextId + 1 /\ DOMAIN table' = DOMAIN table \cup {nextId}
  /\ ~(r.op \in Mints /\ a.ok) => nextId' = nextId /\ DOMAIN table' = DOMAIN table
  /\ \A h \in DOMAIN table :
       /\ table[h].declared \subseteq table'[h].declared /\ (table[h].dead => table'[h].dead)
       /\ table'[h].version = table[h].version \/ (r.op = "call" /\ r.h = h /\ a.ok)
  /\ r.op = "instantiate" /\ a.ok => contract'
  /\ contract' = contract \/ (r.op = "instantiate" /\ contract')
  /\ r.op # "setCardano" => cardano' = cardano
  /\ r.op = "implemented" /\ a.ok => r.h \in DOMAIN table /\ a.result = table[r.h].declared

\* What an answer says of the table when no operation parks: only one about a
\* UTXO that is gone is refused.
Verdict(r, a) ==
  /\ r.op = "setCardano" /\ contract => cardano' = r.arg
  /\ r.op = "implemented" /\ ~a.ok => r.h \notin DOMAIN table
  /\ r.op = "drop" /\ DropHeld => r.h \notin DOMAIN table
  /\ r.op = "storageGet" /\ r.h \in DOMAIN table =>
       (a.ok /\ a.result = table[r.h].version) \/ table'[r.h].dead

Served(r, a) == Answered(r, a) /\ Effect(r, a) /\ (~Suspends => Verdict(r, a))

\* An answer at once.
LEMMA AnsweredAtOnce ==
  ASSUME CoreInv, NEW r, Taken(r), Suspends \/ ~Borrowed, cur' = cur,
         NEW ok \in BOOLEAN, NEW x \in Results, Reply(r.id, ok, x, <<>>)
  PROVE  \E a : Answered(r, a) /\ a.ok = ok /\ a.result = x
<1> DEFINE a == [id |-> r.id, ok |-> ok, result |-> x, events |-> <<>>]
<1>1. /\ r \in pending /\ ToSet(inbox) = {r} \cup ToSet(inbox') /\ r.id \in 0..MaxRpc
      /\ \A q \in ToSet(inbox') : q.id \in Nat /\ r.id < q.id
      /\ Borrowed => cur.req.id \in Nat /\ cur.req.id < r.id
  BY TakenFacts
<1>2. a \in Replies /\ a.id = r.id /\ a.ok = ok /\ a.result = x /\ outbox' = Append(outbox, a)
  BY <1>1 DEF Replies, Reply
<1> HIDE DEF a
<1>3. r.id \in Nat /\ Running' = Running /\ (Borrowed' <=> Borrowed)
  BY <1>1, WorkerAssumption DEF WorkerAssumption, Running, Borrowed
<1>4. Held = {r} \cup Held' /\ r \notin Held'
  <2>1. \A q \in Running : q # r
    BY <1>1, <1>3 DEF Running
  <2>2. \A q \in ToSet(inbox') : q # r
    BY <1>1, <1>3
  <2> QED
    BY <1>1, <1>3, <2>1, <2>2 DEF Held
<1>5. ~Suspends => ~Borrowed' /\ \A q \in Held' : r.id < q.id
  BY <1>1, <1>3 DEF Held, Running
<1> QED
  BY <1>1, <1>2, <1>4, <1>5 DEF Answered

\* Requests that do not enter the guest are answered at once.
LEMMA AnswersAreServed ==
  ASSUME CoreInv, NEW r, Taken(r), Suspends \/ ~Borrowed,
         \/ BootRuntime(r) \/ Refuse(r) \/ Instantiate(r) \/ Describe(r)
         \/ ImplementedMethods(r) \/ SetCardano(r)
  PROVE  \E a : Served(r, a)
<1>1. None \in Results /\ TRUE \in BOOLEAN /\ FALSE \in BOOLEAN
  BY DEF Results
<1>2. ASSUME NEW ok \in BOOLEAN, NEW x \in Results, Answer(r, ok, x)
      PROVE  \E a : Answered(r, a) /\ a.ok = ok /\ a.result = x
  <2>1. Reply(r.id, ok, x, <<>>) /\ cur' = cur
    BY <1>2, DrainedFacts, Zenon DEF Answer, CoreInv, TypeInv
  <2> QED
    BY <2>1, AnsweredAtOnce
<1>3. DOMAIN table # {} => contract /\ boot # "failed"
  BY DEF CoreInv, BeginInv
<1>4. contract => boot # "failed"
  BY DEF CoreInv, BeginInv
<1>5. CASE BootRuntime(r)
  <2>1. PICK ok \in BOOLEAN : Reply(r.id, ok, None, <<>>)
    BY <1>5 DEF BootRuntime
  <2>2. cur' = cur /\ r.op = "boot" /\ UNCHANGED contractVars
    BY <1>5 DEF BootRuntime
  <2>3. PICK a : Answered(r, a)
    BY <1>1, <2>1, <2>2, AnsweredAtOnce
  <2> QED
    BY <2>2, <2>3 DEF Served, Effect, Verdict, contractVars, Mints
<1>6. CASE Refuse(r)
  <2>1. PICK a : Answered(r, a) /\ a.ok = FALSE
    BY <1>1, <1>2, <1>6 DEF Refuse
  <2>2. UNCHANGED contractVars /\ (Refused(r) \/ MayBeMalformed(r))
    BY <1>6 DEF Refuse
  <2>3. Effect(r, a)
    BY <2>1, <2>2 DEF Effect, contractVars
  <2>4. ASSUME ~Suspends PROVE Verdict(r, a)
    <3>1. r.op \in {"implemented", "drop", "storageGet", "setCardano"} =>
            Refused(r) /\ r.op # "instantiate" /\ r.op # "call"
      BY <2>2 DEF MayBeMalformed, Mints
    <3>2. r.op \in {"implemented", "drop", "storageGet"} => r.h \notin DOMAIN table
      BY <1>3, <2>4, <3>1 DEF Refused
    <3>3. r.op = "setCardano" => ~contract
      BY <1>4, <2>4, <3>1 DEF Refused, OfHandle
    <3> QED
      BY <3>2, <3>3 DEF Verdict
  <2> QED
    BY <2>1, <2>3, <2>4 DEF Served
<1>7. CASE Instantiate(r)
  <2>1. PICK a : Answered(r, a)
    BY <1>1, <1>2, <1>7 DEF Instantiate
  <2> QED
    BY <1>7, <2>1 DEF Served, Effect, Verdict, Instantiate, Mints
<1>8. CASE Describe(r)
  <2>1. PICK a : Answered(r, a)
    BY <1>1, <1>2, <1>8 DEF Describe
  <2> QED
    BY <1>8, <2>1 DEF Served, Effect, Verdict, Describe, Mints, contractVars
<1>9. CASE ImplementedMethods(r)
  <2>1. r.h \in DOMAIN table
    BY <1>9 DEF ImplementedMethods, Refused, OfHandle
  <2>2. table[r.h].declared \in Results
    BY <2>1 DEF Results, CoreInv, TypeInv, TypeOK, IsMap, Utxos
  <2>3. PICK a : Answered(r, a) /\ a.ok = TRUE /\ a.result = table[r.h].declared
    BY <1>1, <1>2, <1>9, <2>2 DEF ImplementedMethods
  <2>4. r.op = "implemented" /\ UNCHANGED contractVars
    BY <1>9 DEF ImplementedMethods
  <2> QED
    BY <2>1, <2>3, <2>4 DEF Served, Effect, Verdict, Mints, contractVars
<1>10. CASE SetCardano(r)
  <2>1. PICK a : Answered(r, a)
    BY <1>1, <1>2, <1>10 DEF SetCardano
  <2> QED
    BY <1>10, <2>1 DEF Served, Effect, Verdict, SetCardano, Mints
<1> QED
  BY <1>5, <1>6, <1>7, <1>8, <1>9, <1>10

\* An operation that starts keeps its request in the worker, and only a drop
\* takes a UTXO with it.
LEMMA StartsAreQuiet ==
  ASSUME CoreInv, NEW r, Taken(r),
         New(r) \/ LoadUtxo(r) \/ CallMethod(r) \/ StorageGet(r) \/ DropResource(r)
  PROVE  Quiet
<1>1. PICK u \in Utxos :
        Start(r, u) /\ \/ r.op # "drop" /\ table' = table
                       \/ r.op = "drop" /\ table' = [i \in DOMAIN table \ {r.h} |-> table[i]]
  <2>1. Fresh \in Utxos
    BY WorkerAssumption DEF Fresh, Utxos, CoreInv, TypeInv, TypeOK, WorkerAssumption
  <2>2. \A h \in DOMAIN table : table[h] \in Utxos
    BY DEF CoreInv, TypeInv, TypeOK, IsMap
  <2>3. r.op \in OfHandle /\ ~Refused(r) => r.h \in DOMAIN table
    BY DEF Refused
  <2>4. CallMethod(r) \/ StorageGet(r) \/ DropResource(r) => r.op \in OfHandle /\ ~Refused(r)
    BY DEF CallMethod, StorageGet, DropResource, Start, OfHandle
  <2> QED
    BY <2>1, <2>2, <2>3, <2>4 DEF New, LoadUtxo, CallMethod, StorageGet, DropResource
<1>2. r \in Requests /\ r \in pending /\ ToSet(inbox) = {r} \cup ToSet(inbox') /\ r.op \notin {"boot", "instantiate"}
  BY TakenFacts DEF New, LoadUtxo, CallMethod, StorageGet, DropResource
<1>3. ~Borrowed /\ cur' = [req |-> r, utxo |-> u] /\ UNCHANGED <<outbox, contract, nextId, cardano>>
  BY <1>1, <1>2 DEF Start, Refused
<1>4. Borrowed' /\ cur'.req = r
  <2>1. cur'.req = r
    BY <1>3
  <2>2. cur' # None
    BY <1>1, <1>2, <1>3, NoneIsNoOperation DEF NoneIsNoOperation
  <2> QED
    BY <2>1, <2>2 DEF Borrowed
<1>5. Held' = Held
  BY <1>2, <1>3, <1>4 DEF Held, Running
<1>6. r \in Held
  BY <1>2 DEF Held
<1>7. /\ DOMAIN table' \subseteq DOMAIN table /\ \A h \in DOMAIN table' : table'[h] = table[h]
      /\ \A h \in DOMAIN table \ DOMAIN table' : r.op = "drop" /\ r.h = h
      /\ r.op = "drop" => r.h \notin DOMAIN table'
  BY <1>1
<1> QED
  BY <1>3, <1>4, <1>5, <1>6, <1>7 DEF Quiet, DropHeld

\* So does an operation that goes on.
LEMMA RunIsQuiet ==
  ASSUME CoreInv, EmitEvent \/ \E m \in Methods : ImplementsMethod(m)
  PROVE  Quiet
<1>1. /\ Borrowed /\ cur.req \in Requests /\ cur.utxo \in Utxos
      /\ cur = [req |-> cur.req, utxo |-> cur.utxo]
  BY RunningFacts DEF EmitEvent, ImplementsMethod, Runs
<1>2. UNCHANGED <<inbox, outbox, contractVars>>
  BY DEF EmitEvent, ImplementsMethod
<1>3. cur' \in [req : Requests, utxo : Utxos] /\ cur'.req = cur.req
  <2>1. CASE EmitEvent
    BY <1>1, <2>1 DEF EmitEvent
  <2>2. ASSUME NEW m \in Methods, ImplementsMethod(m) PROVE <1>3
    BY <1>1, <2>2 DEF ImplementsMethod, Utxos
  <2> QED
    BY <2>1, <2>2
<1>4. Borrowed' /\ Running' = Running
  BY <1>1, <1>3, NoneIsNoOperation DEF Borrowed, Running, NoneIsNoOperation
<1> QED
  BY <1>1, <1>2, <1>3, <1>4 DEF Quiet, Held, DropHeld, contractVars

\* An operation that is over.
LEMMA FinishIsServed ==
  ASSUME CoreInv, NEW ok \in BOOLEAN, Finish(ok)
  PROVE  \E a : Served(cur.req, a)
<1> DEFINE r == cur.req
<1> SUFFICES \E a : Served(r, a)
  OBVIOUS
<1>1. /\ r \in Requests /\ cur.utxo \in Utxos /\ Borrowed /\ r.id \in Nat
      /\ r.op \in Mints \cup {"call", "storageGet", "drop"} /\ nextId \in Nat
      /\ r.id \in 0..MaxRpc
      /\ \A q \in ToSet(inbox) : q.id \in Nat /\ r.id < q.id
  BY RunningFacts, WorkerAssumption DEF Finish, WorkerAssumption
<1>2. /\ UNCHANGED <<inbox, contract, cardano>> /\ cur' = None /\ ~Borrowed'
      /\ events \in Seq(Entries)
  BY FinishedReply DEF Borrowed, CoreInv, TypeInv, TypeOK
<1>3. Held = {r} \cup Held' /\ r \notin Held' /\ (\A q \in Held' : r.id < q.id) /\ r \in pending
  BY <1>1, <1>2 DEF Held, Running, Borrowed, CoreInv, PendingInv
<1>4. ASSUME NEW x, x \in Results, Resolve(ok, x)
      PROVE  \E a : Answered(r, a) /\ a.ok = ok /\ (ok => a.result = x)
  <2>1. PICK y \in Results : y = IF ok THEN x ELSE None
    BY <1>4 DEF Results
  <2>2. Reply(r.id, ok, y, events)
    BY <1>4, <2>1, Zenon DEF Resolve, Drains
  <2> DEFINE a == [id |-> r.id, ok |-> ok, result |-> y, events |-> events]
  <2>3. a \in Replies /\ a.id = r.id /\ a.ok = ok /\ a.result = y /\ outbox' = Append(outbox, a)
    BY <1>1, <1>2, <2>2 DEF Replies, Reply
  <2> HIDE DEF a
  <2>4. Answered(r, a)
    BY <1>2, <1>3, <2>3 DEF Answered
  <2> QED
    BY <2>1, <2>3, <2>4
<1>5. \A h \in DOMAIN table : table[h] \in Utxos
  BY DEF CoreInv, TypeInv, TypeOK, IsMap
<1>6. r.op \in {"call", "storageGet"} =>
        /\ r.h \in DOMAIN table /\ cur.utxo.version = table[r.h].version
        /\ table[r.h].declared \subseteq cur.utxo.declared /\ cur.utxo.dead = table[r.h].dead
  BY <1>1 DEF CoreInv, HandleInv
<1> HIDE DEF r
<1>7. ASSUME NEW u, UNCHANGED nextId, table' = [table EXCEPT ![r.h] = u], r.op \in {"call", "storageGet"},
             u.declared = cur.utxo.declared, u.dead = (cur.utxo.dead \/ ~ok),
             u.version = cur.utxo.version \/ (ok /\ r.op = "call"),
             NEW a, Answered(r, a), a.ok = ok,
             r.op = "storageGet" /\ ok => a.result = cur.utxo.version
      PROVE  Served(r, a)
  <2>1. /\ DOMAIN table' = DOMAIN table /\ table'[r.h] = u
        /\ \A h \in DOMAIN table : h # r.h => table'[h] = table[h]
    BY <1>6, <1>7
  <2>2. \A h \in DOMAIN table :
          /\ table[h].declared \subseteq table'[h].declared /\ (table[h].dead => table'[h].dead)
          /\ table'[h].version = table[h].version \/ (r.op = "call" /\ r.h = h /\ a.ok)
    <3> TAKE h \in DOMAIN table
    <3>1. CASE h # r.h
      BY <2>1, <3>1
    <3>2. CASE h = r.h
      BY <1>6, <1>7, <2>1, <3>2
    <3> QED
      BY <3>1, <3>2
  <2>3. Effect(r, a)
    BY <1>2, <1>7, <2>1, <2>2 DEF Effect, Mints
  <2>4. Verdict(r, a)
    BY <1>6, <1>7, <2>1 DEF Verdict
  <2> QED
    BY <1>7, <2>3, <2>4 DEF Served
<1>8. CASE ConstructUtxo(ok)
  <2>1. PICK a : Answered(r, a) /\ a.ok = ok /\ (ok => a.result = nextId)
    BY <1>1, <1>4, <1>8 DEF ConstructUtxo, Results
  <2>2. r.op \in Mints /\ r.op \notin {"call", "storageGet", "drop", "implemented", "setCardano", "instantiate"}
    BY <1>8 DEF ConstructUtxo, Mints, r
  <2>3. /\ ok => nextId' = nextId + 1 /\ DOMAIN table' = DOMAIN table \cup {nextId}
                 /\ \A h \in DOMAIN table : h # nextId => table'[h] = table[h]
        /\ ~ok => nextId' = nextId /\ table' = table
    BY <1>8 DEF ConstructUtxo
  <2>4. nextId \notin DOMAIN table
    BY <1>1 DEF CoreInv, HandleInv
  <2>5. Effect(r, a)
    BY <1>2, <2>1, <2>2, <2>3, <2>4 DEF Effect
  <2> QED
    BY <2>1, <2>2, <2>5 DEF Served, Verdict
<1>9. CASE CallAsync(ok)
  <2>1. PICK a : Answered(r, a) /\ a.ok = ok
    BY <1>4, <1>9 DEF CallAsync, Results
  <2>2. PICK t : t = Trapped(cur.utxo, ok)
    OBVIOUS
  <2>3. /\ t \in Utxos /\ t.version = cur.utxo.version /\ t.declared = cur.utxo.declared
        /\ t.dead = (cur.utxo.dead \/ ~ok)
    BY <1>1, <2>2, TrappedFacts
  <2>4. PICK v : v = IF ok THEN t.version + 1 ELSE t.version
    OBVIOUS
  <2>5. PICK u : u = [t EXCEPT !.version = v]
    OBVIOUS
  <2>6. /\ u.declared = cur.utxo.declared /\ u.dead = (cur.utxo.dead \/ ~ok)
        /\ u.version = cur.utxo.version \/ ok
    BY <2>3, <2>4, <2>5 DEF Utxos
  <2>7. table' = [table EXCEPT ![r.h] = u] /\ UNCHANGED nextId /\ r.op = "call"
    <3>1. u = [t EXCEPT !.version = IF ok THEN @ + 1 ELSE @]
      BY <2>4, <2>5, Zenon
    <3> QED
      BY <1>9, <2>2, <3>1, Zenon DEF CallAsync, r
  <2> QED
    BY <1>7, <2>1, <2>6, <2>7
<1>10. CASE GetAsync(ok)
  <2>1. cur.utxo.version \in Results
    BY <1>1, WorkerAssumption DEF Results, Utxos, WorkerAssumption
  <2>2. PICK a : Answered(r, a) /\ a.ok = ok /\ (ok => a.result = cur.utxo.version)
    BY <1>4, <1>10, <2>1 DEF GetAsync
  <2>3. PICK u : u = Trapped(cur.utxo, ok)
    OBVIOUS
  <2>4. /\ u.version = cur.utxo.version /\ u.declared = cur.utxo.declared
        /\ u.dead = (cur.utxo.dead \/ ~ok)
    BY <1>1, <2>3, TrappedFacts
  <2>5. table' = [table EXCEPT ![r.h] = u] /\ UNCHANGED nextId /\ r.op = "storageGet"
    BY <1>10, <2>3, Zenon DEF GetAsync, r
  <2> QED
    BY <1>7, <2>2, <2>4, <2>5
<1>11. CASE DropAsync(ok)
  <2>1. PICK a : Answered(r, a) /\ a.ok = ok
    BY <1>4, <1>11 DEF DropAsync, Results
  <2>2. UNCHANGED <<table, nextId>> /\ r.op = "drop"
    BY <1>11 DEF DropAsync, r
  <2>3. Effect(r, a)
    BY <1>2, <2>2 DEF Effect, Mints
  <2>4. Verdict(r, a)
    BY <1>1, <2>2 DEF Verdict, DropHeld, r
  <2> QED
    BY <2>1, <2>3, <2>4 DEF Served
<1> QED
  BY <1>8, <1>9, <1>10, <1>11 DEF Finish, r

\* Every step of the worker.
LEMMA WorkerMoves ==
  ASSUME CoreInv, WorkerStep
  PROVE  /\ CoreInv' /\ UNCHANGED proxyVars /\ ~(inbox = <<>> /\ cur = None)
         /\ Quiet \/ \E r, a : Served(r, a)
<1>1. CoreInv'
  BY WorkerStepKeepsCore
<1>2. UNCHANGED proxyVars /\ ~(inbox = <<>> /\ cur = None)
  BY DEF WorkerStep, OnMessage, EmitEvent, ImplementsMethod, Finish, Runs, Borrowed
<1>3. ASSUME OnMessage PROVE Quiet \/ \E r, a : Served(r, a)
  <2> DEFINE r == Head(inbox)
  <2>1. Taken(r) /\ (Suspends \/ ~Borrowed)
    BY <1>3 DEF OnMessage, Taken
  <2>2. \/ BootRuntime(r) \/ Refuse(r) \/ Instantiate(r) \/ Describe(r)
        \/ ImplementedMethods(r) \/ SetCardano(r)
        \/ New(r) \/ LoadUtxo(r) \/ CallMethod(r) \/ StorageGet(r) \/ DropResource(r)
    BY <1>3 DEF OnMessage
  <2> HIDE DEF r
  <2> QED
    BY <2>1, <2>2, AnswersAreServed, StartsAreQuiet
<1> QED
  BY <1>1, <1>2, <1>3, RunIsQuiet, FinishIsServed DEF WorkerStep

-----------------------------------------------------------------------------
(* What a step of the worker keeps.                                        *)

\* The reply joins the outbox, after the others, and is the only one to its request.
LEMMA AnsweredFacts ==
  ASSUME CoreInv, NEW r, NEW a, Answered(r, a)
  PROVE  /\ ToSet(outbox') = ToSet(outbox) \cup {a} /\ a.id = r.id /\ a.id \in Nat
         /\ r \in pending /\ r \in Held
         /\ \A b \in ToSet(outbox) : b.id # r.id /\ b # a
         /\ \A p \in pending : p.id = r.id => p = r
         /\ \A x, y : Follows(outbox', x, y) <=>
                        Follows(outbox, x, y) \/ (x \in ToSet(outbox) /\ y = a)
<1>1. a \in Replies /\ a.id = r.id /\ r \in pending /\ r \in Held /\ outbox' = Append(outbox, a)
  BY DEF Answered
<1>2. outbox \in Seq(Replies)
  BY DEF CoreInv, TypeInv
<1>3. ToSet(outbox') = ToSet(outbox) \cup {a}
  BY <1>1, <1>2, AppendFacts
<1>4. \A x, y : Follows(outbox', x, y) <=> Follows(outbox, x, y) \/ (x \in ToSet(outbox) /\ y = a)
  BY <1>1, <1>2, AppendOrder
<1>5. \A b \in ToSet(outbox) : b.id # r.id
  BY <1>1 DEF CoreInv, PendingInv, Held
<1>6. a.id \in Nat
  BY <1>1, WorkerAssumption DEF Replies, WorkerAssumption
<1>7. \A p \in pending : p.id = r.id => p = r
  BY <1>1 DEF CoreInv, PendingInv
<1> QED
  BY <1>1, <1>3, <1>4, <1>5, <1>6, <1>7

\* What holds of any worker: the page changes nothing meanwhile.
LEMMA WorkerKeepsPage ==
  ASSUME PageInv, CoreInv', UNCHANGED <<proxyVars, pageVars>>, Quiet \/ \E r, a : Served(r, a)
  PROVE  PageInv' /\ nextId \in Nat /\ nextId <= nextId'
         /\ \A op : Awaited(op)' <=> Awaited(op)
<1>1. CoreInv /\ LoadInv /\ RequestInv /\ ReplyInv /\ PanelInv /\ BudgetInv
  BY DEF PageInv
<1>2. /\ UNCHANGED <<nextRpc, pending, log>>
      /\ UNCHANGED <<phase, awaits, fields, live, dropping, shown, here, sel, panel, clicks>>
  BY DEF proxyVars, pageVars
<1>3. nextId \in Nat /\ nextId' \in Nat
  BY <1>1, WorkerAssumption DEF CoreInv, TypeInv, TypeOK, Ids, WorkerAssumption
<1>4. nextId <= nextId'
  BY <1>3 DEF Quiet, Served, Effect
<1>5. \A op : Awaited(op)' <=> Awaited(op)
  BY <1>2 DEF Awaited
<1>6. contract' = contract \/ (contract' /\ \E r \in pending : r.op = "instantiate")
  BY DEF Quiet, Served, Effect, Answered
<1>7. LoadInv'
  <2>1. CASE contract' = contract
    BY <1>1, <1>2, <1>5, <2>1 DEF LoadInv
  <2>2. ASSUME NEW r \in pending, r.op = "instantiate" PROVE ~Awaited("boot")
    <3>1. r.id = awaits
      BY <1>1, <2>2 DEF LoadInv
    <3> QED
      BY <1>1, <2>2, <3>1 DEF Awaited, CoreInv, PendingInv
  <2> QED
    BY <1>1, <1>2, <1>5, <1>6, <2>1, <2>2 DEF LoadInv
<1>8. RequestInv'
  <2>1. live' \subseteq 0..(nextId' - 1)
    <3>0. \A m, n \in Nat : m <= n => \A i \in 0..(m - 1) : i \in 0..(n - 1)
      OBVIOUS
    <3>1. \A i \in 0..(nextId - 1) : i \in 0..(nextId' - 1)
      BY <1>3, <1>4, <3>0, Zenon
    <3>2. live \subseteq 0..(nextId - 1) /\ live' = live
      BY <1>1, <1>2 DEF RequestInv
    <3> QED
      BY <3>1, <3>2, Zenon
  <2>2. \A p \in pending : p.op \in OfHandle => p.h \in Nat /\ p.h < nextId'
    BY <1>1, <1>3, <1>4, WorkerAssumption DEF RequestInv, WellFormed, Ids, WorkerAssumption
  <2> QED
    BY <1>1, <1>2, <2>1, <2>2 DEF RequestInv, WellFormed
<1>9. ReplyInv'
  <2>1. CASE Quiet
    BY <1>1, <1>2, <2>1 DEF Quiet, ReplyInv
  <2>2. ASSUME NEW r, NEW a, Served(r, a) PROVE ReplyInv'
    <3>1. /\ ToSet(outbox') = ToSet(outbox) \cup {a} /\ a.id = r.id
          /\ \A p \in pending : p.id = r.id => p = r
      BY <1>1, <2>2, AnsweredFacts DEF Served
    <3>2. ASSUME a.ok
          PROVE  /\ r.op = "instantiate" => contract'
                 /\ r.op \in Mints => a.result \in 0..(nextId' - 1)
                 /\ r.op = "implemented" => a.result \in SUBSET Methods
      <4>1. r.op = "instantiate" => contract'
        BY <2>2, <3>2 DEF Served, Effect
      <4>2. r.op \in Mints => a.result \in 0..(nextId' - 1)
        <5>1. r.op \in Mints => a.result = nextId /\ nextId' = nextId + 1
          BY <2>2, <3>2 DEF Served, Effect
        <5> QED
          BY <1>3, <5>1
      <4>3. r.op = "implemented" => a.result \in SUBSET Methods
        <5>1. r.op = "implemented" => r.h \in DOMAIN table /\ a.result = table[r.h].declared
          BY <2>2, <3>2 DEF Served, Effect
        <5> QED
          BY <1>1, <5>1 DEF CoreInv, TypeInv, TypeOK, IsMap, Utxos
      <4> QED
        BY <4>1, <4>2, <4>3
    <3>3. ASSUME NEW b \in ToSet(outbox), NEW p \in pending, b.id = p.id, b.ok
          PROVE  /\ p.op = "instantiate" => contract'
                 /\ p.op \in Mints => b.result \in 0..(nextId' - 1)
                 /\ p.op = "implemented" => b.result \in SUBSET Methods
      <4>1. /\ p.op = "instantiate" => contract
            /\ p.op \in Mints => b.result \in 0..(nextId - 1)
            /\ p.op = "implemented" => b.result \in SUBSET Methods
        BY <1>1, <3>3 DEF ReplyInv
      <4> QED
        BY <1>3, <1>4, <1>6, <4>1
    <3>4. \A b \in ToSet(outbox'), p \in pending : b.id = p.id /\ b.ok =>
            /\ p.op = "instantiate" => contract'
            /\ p.op \in Mints => b.result \in 0..(nextId' - 1)
            /\ p.op = "implemented" => b.result \in SUBSET Methods
      BY <3>1, <3>2, <3>3
    <3> QED
      BY <1>2, <3>4 DEF ReplyInv
  <2> QED
    BY <2>1, <2>2
<1>10. PanelInv'
  BY <1>1, <1>2 DEF PanelInv, Waits
<1>11. BudgetInv'
  BY <1>1, <1>2, <1>5 DEF BudgetInv, PendingOf, LoadLeft
<1> QED
  BY <1>3, <1>4, <1>5, <1>7, <1>8, <1>9, <1>10, <1>11 DEF PageInv

\* Replies stay in the order of their requests, and go on saying the truth about
\* the table: handles are not reused and methods stay declared.
LEMMA WorkerKeepsReplies ==
  ASSUME CoreInv, RequestInv, SerialOrder, AnswerInv, ~Suspends, UNCHANGED pending,
         Quiet \/ \E r, a : Served(r, a)
  PROVE  SerialOrder' /\ AnswerInv'
<1>1. DropHeld /\ (AnswerInv' <=>
        /\ DropHeld'
        /\ \A a \in ToSet(outbox'), p \in pending : a.id = p.id =>
             /\ p.op = "drop" \/ (p.op = "implemented" /\ ~a.ok) => p.h \notin DOMAIN table'
             /\ p.op = "implemented" /\ a.ok /\ p.h \in DOMAIN table'
                  => a.result \subseteq table'[p.h].declared)
  BY DEF AnswerInv, DropHeld
<1>2. \A p \in pending : p.op \in OfHandle => p.h \in Nat /\ p.h < nextId
  BY WorkerAssumption DEF RequestInv, WellFormed, Ids, WorkerAssumption
<1>3. nextId \in Nat
  BY WorkerAssumption DEF CoreInv, TypeInv, TypeOK, Ids, WorkerAssumption
<1>4. CASE Quiet
  <2>1. SerialOrder'
    BY <1>4 DEF Quiet, SerialOrder, Held
  <2>2. AnswerInv'
    BY <1>1, <1>4 DEF Quiet, AnswerInv
  <2> QED
    BY <2>1, <2>2
<1>5. ASSUME NEW r, NEW a, Served(r, a) PROVE SerialOrder' /\ AnswerInv'
  <2>1. /\ ToSet(outbox') = ToSet(outbox) \cup {a} /\ a.id = r.id /\ r \in Held
        /\ \A p \in pending : p.id = r.id => p = r
        /\ \A x, y : Follows(outbox', x, y) <=>
                       Follows(outbox, x, y) \/ (x \in ToSet(outbox) /\ y = a)
    BY <1>5, AnsweredFacts DEF Served
  <2>2. Held = {r} \cup Held' /\ (\A q \in Held' : r.id < q.id) /\ ~Borrowed'
    BY <1>5 DEF Served, Answered
  <2>3. IdsRise(outbox) /\ \A b \in ToSet(outbox), q \in Held : b.id < q.id
    BY DEF SerialOrder, Held
  <2>4. IdsRise(outbox')
    <3>1. \A x, y : Follows(outbox, x, y) => x.id < y.id
      BY <2>3, IdOrder
    <3>2. \A x, y : Follows(outbox', x, y) => x.id < y.id
      BY <2>1, <2>3, <3>1
    <3> QED
      BY <3>2, IdOrder
  <2>5. SerialOrder'
    <3>1. \A b \in ToSet(outbox'), q \in Held' : b.id < q.id
      BY <2>1, <2>2, <2>3
    <3> QED
      BY <2>4, <3>1 DEF SerialOrder, Held
  <2>6. ASSUME NEW h \in Nat, h < nextId
        PROVE  /\ h \in DOMAIN table' <=> h \in DOMAIN table
               /\ h \in DOMAIN table => table[h].declared \subseteq table'[h].declared
    <3>1. \/ DOMAIN table' = DOMAIN table \cup {nextId}
          \/ DOMAIN table' = DOMAIN table
      BY <1>5 DEF Served, Effect
    <3> QED
      BY <1>3, <1>5, <2>6, <3>1 DEF Served, Effect
  <2>7. ASSUME NEW b \in ToSet(outbox), NEW p \in pending, b.id = p.id
        PROVE  /\ p.op = "drop" \/ (p.op = "implemented" /\ ~b.ok) => p.h \notin DOMAIN table'
               /\ p.op = "implemented" /\ b.ok /\ p.h \in DOMAIN table'
                    => b.result \subseteq table'[p.h].declared
    <3>1. /\ p.op = "drop" \/ (p.op = "implemented" /\ ~b.ok) => p.h \notin DOMAIN table
          /\ p.op = "implemented" /\ b.ok /\ p.h \in DOMAIN table
                    => b.result \subseteq table[p.h].declared
      BY <2>7 DEF AnswerInv
    <3>2. p.op \in {"drop", "implemented"} => p.h \in Nat /\ p.h < nextId
      BY <1>2 DEF OfHandle
    <3> QED
      BY <2>6, <3>1, <3>2
  <2>8. /\ r.op = "drop" \/ (r.op = "implemented" /\ ~a.ok) => r.h \notin DOMAIN table'
        /\ r.op = "implemented" /\ a.ok /\ r.h \in DOMAIN table'
             => a.result \subseteq table'[r.h].declared
    <3>1. /\ r.op = "drop" \/ (r.op = "implemented" /\ ~a.ok) => r.h \notin DOMAIN table
          /\ r.op = "implemented" /\ a.ok => r.h \in DOMAIN table /\ a.result = table[r.h].declared
      BY <1>1, <1>5 DEF Served, Effect, Verdict
    <3>2. r.op \in {"drop", "implemented"} => r.h \in Nat /\ r.h < nextId
      BY <1>2, <1>5 DEF OfHandle, Served, Answered
    <3> QED
      BY <2>6, <3>1, <3>2
  <2>9. DropHeld'
    BY <2>2 DEF DropHeld
  <2>10. \A b \in ToSet(outbox'), p \in pending : b.id = p.id =>
           /\ p.op = "drop" \/ (p.op = "implemented" /\ ~b.ok) => p.h \notin DOMAIN table'
           /\ p.op = "implemented" /\ b.ok /\ p.h \in DOMAIN table'
                => b.result \subseteq table'[p.h].declared
    BY <2>1, <2>7, <2>8
  <2> QED
    BY <1>1, <2>5, <2>9, <2>10
<1> QED
  BY <1>4, <1>5

\* What the panel offers stays declared.
LEMMA WorkerKeepsOffers ==
  ASSUME CoreInv, RequestInv, CardTypeOK, OnlyCallableOffered, UNCHANGED <<pending, pageVars>>,
         Quiet \/ \E r, a : Served(r, a)
  PROVE  OnlyCallableOffered'
<1>1. \A p \in pending : p.op = "call" => p.h \in Nat /\ p.h < nextId
  BY WorkerAssumption DEF RequestInv, WellFormed, OfHandle, Ids, WorkerAssumption
<1>2. nextId \in Nat /\ None \notin Nat
  BY WorkerAssumption DEF CoreInv, TypeInv, TypeOK, Ids, WorkerAssumption
<1>3. \A h \in DOMAIN table' : h = nextId \/ (h \in DOMAIN table /\ table[h].declared \subseteq table'[h].declared)
  BY DEF Quiet, Served, Effect
<1>4. sel # nextId
  BY <1>2 DEF CardTypeOK, RequestInv
<1>5. UNCHANGED <<sel, panel>>
  BY DEF pageVars
<1>6. sel \in DOMAIN table' =>
        \A i \in 1..Len(panel) : panel[i].enabled \subseteq table'[sel].declared
  BY <1>3, <1>4 DEF OnlyCallableOffered
<1>7. \A p \in pending : p.op = "call" /\ p.h \in DOMAIN table' => p.arg \in table'[p.h].declared
  BY <1>1, <1>2, <1>3 DEF OnlyCallableOffered
<1> QED
  BY <1>5, <1>6, <1>7 DEF OnlyCallableOffered

\* A mint is announced, a drop takes a UTXO whose card is marked.
LEMMA WorkerKeepsCards ==
  ASSUME CoreInv, CoreInv', RequestInv, CardTypeOK, CardsInv, phase # "gone",
         UNCHANGED <<proxyVars, pageVars>>, Quiet \/ \E r, a : Served(r, a)
  PROVE  CardsInv'
<1>1. CardsByReply
  BY CardsFacts
<1>2. UNCHANGED <<pending, phase, live, dropping>> /\ PendingOf({"drop"})' = PendingOf({"drop"})
  BY DEF proxyVars, pageVars, PendingOf
<1>3. live \subseteq 0..(nextId - 1) /\ DOMAIN table \subseteq 0..(nextId - 1) /\ nextId \in Nat
  BY WorkerAssumption DEF RequestInv, CoreInv, HandleInv, TypeInv, TypeOK, Ids, WorkerAssumption
<1>4. nextId \notin live /\ nextId \notin DOMAIN table
  BY <1>3
<1>5. CASE Quiet
  <2>1. Minting' = Minting
    BY <1>2, <1>5 DEF Quiet, Minting
  <2>2. ASSUME NEW h \in DOMAIN table \ DOMAIN table' PROVE h \in dropping /\ h \in live
    <3>1. PICK q \in Held : q.op = "drop" /\ q.h = h
      BY <1>5 DEF Quiet
    <3>2. q \in PendingOf({"drop"})
      BY <3>1 DEF Held, PendingOf, CoreInv, PendingInv
    <3>3. h \in dropping
      BY <1>1, <3>1, <3>2 DEF CardsByReply
    <3> QED
      BY <3>3 DEF CardTypeOK
  <2>3. DOMAIN table' \subseteq DOMAIN table
    BY <1>5 DEF Quiet
  <2>4. CardsByReply'
    BY <1>1, <1>2, <2>1, <2>2, <2>3 DEF CardsByReply
  <2> QED
    BY <1>2, <2>4, CardsFactsNext
<1>6. ASSUME NEW r, NEW a, Served(r, a) PROVE CardsInv'
  <2>1. /\ ToSet(outbox') = ToSet(outbox) \cup {a} /\ a.id = r.id /\ r \in pending
        /\ \A b \in ToSet(outbox) : b # a
        /\ \A p \in pending : p.id = r.id => p = r
    BY <1>6, AnsweredFacts DEF Served
  <2>2. CASE a.ok /\ r.op \in Mints
    <3>1. Minting' = Minting \cup {a} /\ a \notin Minting
      BY <1>2, <2>1, <2>2 DEF Minting
    <3>2. a.result = nextId /\ DOMAIN table' = DOMAIN table \cup {nextId}
      BY <1>6, <2>2 DEF Served, Effect
    <3>3. \A h \in DOMAIN table' : h \in live \/ \E b \in Minting' : b.result = h
      BY <1>1, <3>1, <3>2 DEF CardsByReply
    <3>4. \A b \in Minting : b.result \in DOMAIN table /\ b.result \notin live /\ b.result # nextId
      BY <1>1, <1>4 DEF CardsByReply
    <3>5. \A b \in Minting' : /\ b.result \in DOMAIN table' /\ b.result \notin live
                              /\ \A c \in Minting' : c.result = b.result => b = c
      BY <1>1, <1>4, <3>1, <3>2, <3>4 DEF CardsByReply
    <3>6. CardsByReply'
      BY <1>1, <1>2, <3>2, <3>3, <3>5 DEF CardsByReply
    <3> QED
      BY <1>2, <3>6, CardsFactsNext
  <2>3. CASE ~(a.ok /\ r.op \in Mints)
    <3>1. Minting' = Minting
      BY <1>2, <2>1, <2>3 DEF Minting
    <3>2. DOMAIN table' = DOMAIN table
      BY <1>6, <2>3 DEF Served, Effect
    <3>3. CardsByReply'
      BY <1>1, <1>2, <3>1, <3>2 DEF CardsByReply
    <3> QED
      BY <1>2, <3>3, CardsFactsNext
  <2> QED
    BY <2>2, <2>3
<1> QED
  BY <1>5, <1>6

\* setCardano requests take effect oldest first.
LEMMA WorkerKeepsForm ==
  ASSUME CoreInv, CoreInv', FormInv, ~Suspends, UNCHANGED <<proxyVars, pageVars>>,
         \A op : Awaited(op)' <=> Awaited(op), Quiet \/ \E r, a : Served(r, a)
  PROVE  FormInv'
<1>1. Sets = {q \in Held : q.op = "setCardano"} /\ Sets' = {q \in Held' : q.op = "setCardano"}
  <2>1. \A q \in Running : q.op # "setCardano"
    BY DEF Running, CoreInv, OrderInv, Mints
  <2>2. \A q \in Running' : q.op # "setCardano"
    BY DEF Running, CoreInv, OrderInv, Mints
  <2> QED
    BY <2>1, <2>2 DEF Sets, Held
<1>2. phase' = phase /\ fields' = fields
  BY DEF pageVars
<1> SUFFICES ASSUME phase = "ready" \/ Awaited("setCardano") \/ Awaited("describe")
             PROVE  /\ contract'
                    /\ \A r \in Sets' : (\A q \in Sets' : q.id <= r.id) => r.arg = fields
                    /\ Sets' = {} => cardano' = fields
  BY <1>2 DEF FormInv
<1>3. /\ contract
      /\ \A r \in Sets : (\A q \in Sets : q.id <= r.id) => r.arg = fields
      /\ Sets = {} => cardano = fields
  BY DEF FormInv
<1>4. CASE Quiet
  BY <1>1, <1>3, <1>4 DEF Quiet
<1>5. ASSUME NEW s, NEW a, Served(s, a)
      PROVE  /\ contract'
             /\ \A r \in Sets' : (\A q \in Sets' : q.id <= r.id) => r.arg = fields
             /\ Sets' = {} => cardano' = fields
  <2>1. /\ contract' /\ (s.op # "setCardano" => cardano' = cardano)
        /\ s.op = "setCardano" => cardano' = s.arg
    BY <1>3, <1>5 DEF Served, Effect, Verdict
  <2>2. Held = {s} \cup Held' /\ s \notin Held' /\ \A q \in Held' : s.id < q.id
    BY <1>5 DEF Served, Answered
  <2>3. CASE s.op # "setCardano"
    BY <1>1, <1>3, <2>1, <2>2, <2>3
  <2>4. CASE s.op = "setCardano"
    <3>1. Sets = {s} \cup Sets' /\ \A q \in Sets' : s.id < q.id
      BY <1>1, <2>2, <2>4
    <3>2. \A q \in Sets : q.id \in Nat
      <4>1. ToSet(inbox) \subseteq Requests
        BY ElementFacts DEF CoreInv, TypeInv, TypeOK
      <4> QED
        BY <4>1, WorkerAssumption DEF Sets, Requests, WorkerAssumption
    <3>3. Sets' = {} => cardano' = fields
      BY <1>3, <2>1, <2>4, <3>1, <3>2
    <3>4. \A r \in Sets' : (\A q \in Sets' : q.id <= r.id) => \A q \in Sets : q.id <= r.id
      BY <3>1, <3>2
    <3> QED
      BY <1>3, <2>1, <3>1, <3>3, <3>4
  <2> QED
    BY <2>3, <2>4
<1> QED
  BY <1>4, <1>5

\* The replies to a read that a step leaves or adds.
LEMMA ReadsServed ==
  ASSUME CoreInv, NEW r, NEW a, Served(r, a), UNCHANGED pending
  PROVE  \A h : Reads(h)' = IF r.op = "storageGet" /\ r.h = h THEN Reads(h) \cup {a} ELSE Reads(h)
<1>1. /\ ToSet(outbox') = ToSet(outbox) \cup {a} /\ a.id = r.id /\ r \in pending
      /\ \A p \in pending : p.id = r.id => p = r
  BY AnsweredFacts DEF Served
<1> QED
  BY <1>1 DEF Reads

\* A read answers the present version, and a call that changes it is announced.
LEMMA WorkerKeepsStorage ==
  ASSUME CoreInv, CoreInv', RequestInv, SerialOrder, StorageInv, ~Suspends,
         UNCHANGED <<proxyVars, pageVars>>, Quiet \/ \E r, a : Served(r, a)
  PROVE  StorageInv'
<1>1. UNCHANGED <<pending, live, shown>>
  BY DEF proxyVars, pageVars
<1>2. nextId \notin live
  BY WorkerAssumption DEF RequestInv, CoreInv, TypeInv, TypeOK, Ids, WorkerAssumption
<1> DEFINE Stored(h) ==
      \/ \E q \in Held : q.op = "storageGet" /\ q.h = h
      \/ \E b \in ToSet(outbox), p \in pending : b.id = p.id /\ b.ok /\ p.op = "call" /\ p.h = h
      \/ \E b \in Reads(h) : b.ok /\ b.result = table[h].version /\ \A c \in Reads(h) : c.id <= b.id
      \/ Reads(h) = {} /\ h \in DOMAIN shown /\ shown[h] = table[h].version
<1>3. \A h \in live \cap DOMAIN table : ~table[h].dead => Stored(h)
  BY DEF StorageInv, Held
<1> SUFFICES ASSUME NEW h \in live \cap DOMAIN table', ~table'[h].dead PROVE Stored(h)'
  BY <1>1 DEF StorageInv, Held
<1>4. CASE Quiet
  <2>1. h \in DOMAIN table /\ table'[h] = table[h] /\ Held' = Held /\ outbox' = outbox
    BY <1>4 DEF Quiet
  <2>2. Reads(h)' = Reads(h)
    BY <1>1, <2>1 DEF Reads
  <2>3. Stored(h)
    BY <1>3, <2>1
  <2> QED
    BY <1>1, <2>1, <2>2, <2>3
<1>5. ASSUME NEW r, NEW a, Served(r, a) PROVE Stored(h)'
  <2>1. h \in DOMAIN table
    BY <1>2, <1>5 DEF Served, Effect
  <2>2. /\ ~table[h].dead
        /\ table'[h].version = table[h].version \/ (r.op = "call" /\ r.h = h /\ a.ok)
    BY <1>5, <2>1 DEF Served, Effect
  <2>3. /\ ToSet(outbox') = ToSet(outbox) \cup {a} /\ a.id = r.id /\ r \in pending /\ r \in Held
        /\ a.id \in Nat
    BY <1>5, AnsweredFacts DEF Served
  <2>4. Held = {r} \cup Held'
    BY <1>5 DEF Served, Answered
  <2>5. Reads(h)' = IF r.op = "storageGet" /\ r.h = h THEN Reads(h) \cup {a} ELSE Reads(h)
    BY <1>1, <1>5, ReadsServed
  <2>6. CASE r.op = "call" /\ r.h = h /\ a.ok
    BY <1>1, <2>3, <2>6
  <2>7. CASE r.op = "storageGet" /\ r.h = h
    <3>1. a.ok /\ a.result = table[h].version /\ table'[h].version = table[h].version
      BY <1>5, <2>1, <2>2, <2>7 DEF Served, Verdict
    <3>2. \A c \in Reads(h)' : c.id <= a.id
      <4>1. \A c \in ToSet(outbox) : c.id < a.id /\ c.id \in Nat
        <5>1. ToSet(outbox) \subseteq Replies
          BY ElementFacts DEF CoreInv, TypeInv
        <5>2. \A c \in ToSet(outbox) : c.id < r.id
          BY <2>3 DEF SerialOrder, Held
        <5> QED
          BY <2>3, <5>1, <5>2, WorkerAssumption DEF Replies, WorkerAssumption
      <4> QED
        BY <2>3, <2>5, <2>7, <4>1 DEF Reads
    <3>3. a \in Reads(h)'
      BY <2>5, <2>7
    <3> QED
      BY <3>1, <3>2, <3>3
  <2>8. CASE ~(r.op = "call" /\ r.h = h /\ a.ok) /\ ~(r.op = "storageGet" /\ r.h = h)
    <3>1. Reads(h)' = Reads(h) /\ table'[h].version = table[h].version
      BY <2>2, <2>5, <2>8
    <3>2. Stored(h)
      BY <1>3, <2>1, <2>2
    <3>3. \A q \in Held : q.op = "storageGet" /\ q.h = h => q \in Held'
      BY <2>4, <2>8
    <3>4. ToSet(outbox) \subseteq ToSet(outbox')
      BY <2>3
    <3> QED
      BY <1>1, <3>1, <3>2, <3>3, <3>4
  <2> QED
    BY <2>6, <2>7, <2>8
<1> QED
  BY <1>4, <1>5

\* Every step of the worker.
LEMMA WorkerKeepsCard == ASSUME CardInv, WorkerStep, UNCHANGED pageVars PROVE CardInv'
<1>1. phase # "gone" /\ phase' = phase
  <2>1. ~(inbox = <<>> /\ cur = None)
    BY DEF WorkerStep, OnMessage, EmitEvent, ImplementsMethod, Finish, Runs, Borrowed
  <2> QED
    BY <2>1 DEF CardInv, pageVars
<1>2. PageInv /\ CoreInv /\ RequestInv /\ CardTypeOK /\ (~Suspends => SerialInv /\ OnlyCallableOffered)
  BY <1>1 DEF CardInv, PageInv
<1>3. CoreInv' /\ UNCHANGED proxyVars /\ pending' = pending /\ (Quiet \/ \E r, a : Served(r, a))
  BY <1>2, WorkerMoves DEF proxyVars
<1>4. PageInv' /\ \A op : Awaited(op)' <=> Awaited(op)
  BY <1>2, <1>3, WorkerKeepsPage
<1>5. CardTypeOK'
  BY <1>2 DEF CardTypeOK, pageVars
<1>6. ASSUME ~Suspends PROVE SerialInv' /\ OnlyCallableOffered'
  <2>1. SerialInv /\ OnlyCallableOffered
    BY <1>2, <1>6
  <2>2. SerialOrder' /\ AnswerInv'
    BY <1>2, <1>3, <1>6, <2>1, WorkerKeepsReplies DEF SerialInv
  <2>3. CardsInv'
    BY <1>1, <1>2, <1>3, <2>1, WorkerKeepsCards DEF SerialInv
  <2>4. FormInv'
    BY <1>2, <1>3, <1>4, <1>6, <2>1, WorkerKeepsForm DEF SerialInv
  <2>5. StorageInv'
    BY <1>2, <1>3, <1>6, <2>1, WorkerKeepsStorage DEF SerialInv
  <2>6. OnlyCallableOffered'
    BY <1>2, <1>3, <2>1, WorkerKeepsOffers
  <2> QED
    BY <2>2, <2>3, <2>4, <2>5, <2>6 DEF SerialInv
<1> QED
  BY <1>1, <1>4, <1>5, <1>6 DEF CardInv

-----------------------------------------------------------------------------
(* The card in every reachable state.                                      *)

\* A card that was just added, with its boot message under way.
LEMMA InitCard == CardInit => CardInv
<1> SUFFICES ASSUME CardInit PROVE CardInv
  OBVIOUS
<1> DEFINE b == Request(Boot, 0)
<1>1. b.id = 0 /\ b.op = "boot" /\ WellFormed(b) /\ b.op \notin OfHandle
  BY WorkerAssumption DEF Request, Boot, OfHandle, WellFormed, WorkerAssumption
<1>2. /\ pending = {b} /\ inbox = <<b>> /\ outbox = <<>> /\ table = <<>> /\ cur = None /\ contract = FALSE
      /\ nextRpc = 1 /\ nextId = 0
      /\ phase = "loading" /\ awaits = 0 /\ fields = Default /\ live = {} /\ dropping = {} /\ shown = <<>>
      /\ here \in BOOLEAN /\ sel = None /\ panel = <<>> /\ clicks = 0
  BY DEF CardInit, Init
<1>3. CoreInv
  BY InitCore DEF CardInit
<1>4. MaxRpc \in Nat /\ MaxClicks \in Nat /\ MaxRpc >= 3 + 3 * MaxClicks /\ Default \in Contexts
  BY WorkerAssumption, CardAssumption DEF WorkerAssumption, CardAssumption
<1> HIDE DEF b
<1>5. ToSet(inbox) = {b} /\ ToSet(outbox) = {} /\ DOMAIN table = {} /\ DOMAIN shown = {} /\ Running = {}
  BY <1>2, EmptyFacts DEF ToSet, Running, Borrowed
<1>6. Len(panel) = 0 /\ \A i \in 1..Len(panel) : FALSE
  BY <1>2
<1>7. CardTypeOK
  BY <1>2, <1>4, <1>5, <1>6 DEF CardTypeOK
<1>8. \A op : Awaited(op) <=> op = "boot"
  BY <1>1, <1>2 DEF Awaited
<1>9. LoadInv
  BY <1>1, <1>2, <1>8 DEF LoadInv
<1>10. RequestInv /\ ReplyInv
  BY <1>1, <1>2, <1>5 DEF RequestInv, ReplyInv
<1>11. PanelInv
  BY <1>2 DEF PanelInv
<1>12. BudgetInv
  <2>1. IsFiniteSet(pending)
    BY <1>2, FS_Singleton
  <2>2. PendingOf(Mints) = {} /\ PendingOf({"call", "drop"}) = {}
    BY <1>1, <1>2 DEF PendingOf, Mints
  <2>3. Cardinality({}) = 0
    BY FS_EmptySet
  <2>4. LoadLeft = 3
    BY <1>8 DEF LoadLeft
  <2>5. Cardinality(PendingOf(Mints)) = 0 /\ Cardinality(PendingOf({"call", "drop"})) = 0
    BY <2>2, <2>3, Zenon
  <2>6. nextRpc + LoadLeft + 2 * Cardinality(PendingOf(Mints)) + Cardinality(PendingOf({"call", "drop"}))
          + 3 * (MaxClicks - clicks) <= MaxRpc + 1
    BY <1>2, <1>4, <2>4, <2>5
  <2> QED
    BY <2>1, <2>6 DEF BudgetInv
<1>13. OnlyCallableOffered
  BY <1>2, <1>5 DEF OnlyCallableOffered
<1>14. SerialOrder /\ AnswerInv /\ StorageInv
  BY <1>2, <1>5, EmptyFacts DEF SerialOrder, IdsRise, AnswerInv, StorageInv, Borrowed
<1>15. CardsInv
  <2>1. Minting = {} /\ PendingOf({"drop"}) = {}
    BY <1>1, <1>2, <1>5 DEF Minting, PendingOf
  <2>2. CardsByReply
    BY <1>2, <1>5, <2>1 DEF CardsByReply
  <2> QED
    BY <1>2, <1>3, <2>2, CardsFacts
<1>16. FormInv
  BY <1>2, <1>8 DEF FormInv
<1> QED
  BY <1>2, <1>3, <1>7, <1>9, <1>10, <1>11, <1>12, <1>13, <1>14, <1>15, <1>16 DEF CardInv, PageInv, SerialInv

\* A step that changes nothing.
LEMMA StutterKeepsCard == ASSUME CardInv, UNCHANGED cardVars PROVE CardInv'
<1>1. UNCHANGED <<nextRpc, pending, log, inbox, outbox, boot, contract, table, nextId, cardano, events, cur,
                  emitted, phase, awaits, fields, live, dropping, shown, here, sel, panel, clicks>>
  BY DEF cardVars, vars, proxyVars, workerVars, contractVars, pageVars
<1>2. CoreInv => CoreInv'
  BY <1>1 DEF CoreInv, TypeInv, TypeOK, OrderInv, BeginInv, BoundInv, Behind, HandleInv, PendingInv,
              Running, Borrowed, EventInv
<1>3. PageInv => PageInv'
  BY <1>1, <1>2 DEF PageInv, LoadInv, RequestInv, ReplyInv, PanelInv, BudgetInv, Awaited, LoadLeft, PendingOf, Waits
<1>4. SerialInv => SerialInv'
  BY <1>1 DEF SerialInv, SerialOrder, AnswerInv, CardsInv, FormInv, StorageInv, CardsMatchTable, Announced,
              Minting, PendingOf, Sets, Reads, Running, Borrowed, Awaited
<1> QED
  BY <1>1, <1>3, <1>4 DEF CardInv, CardTypeOK, OnlyCallableOffered

\* Every step, and every stuttering step, keeps the invariant.
LEMMA NextKeepsCard == CardInv /\ [CardNext]_cardVars => CardInv'
  BY UserKeepsCard, ReplyKeepsCard, WorkerKeepsCard, StutterKeepsCard DEF CardNext

\* The card's invariant, in every state of the page and its worker.
THEOREM CardInvariant == CardSpec => []CardInv
  BY InitCard, NextKeepsCard, PTL DEF CardSpec

\* The page's variables stay in their domains, and the requests it makes
\* within their bound.
THEOREM CardTypeCorrect == CardSpec => []CardTypeOK
<1>1. CardInv => CardTypeOK
  BY DEF CardInv
<1> QED
  BY <1>1, CardInvariant, PTL

\* A ready card with no query outstanding offers the methods of the UTXO that
\* is selected, also when operations park and replies come late or out of order.
THEOREM PanelNeverEmpty == CardSpec => []PanelIsDrawn
<1>1. CardInv => PanelIsDrawn
  BY DEF CardInv, PageInv, PanelInv, PanelIsDrawn
<1> QED
  BY <1>1, CardInvariant, PTL

\* With no operation parked: every UTXO the runtime keeps has a card or one on
\* its way, and a card whose UTXO is gone is being dropped.
THEOREM NoUtxoWithoutCard == ASSUME ~Suspends PROVE CardSpec => []CardsMatchTable
<1>1. CardInv => CardsMatchTable
  BY DEF CardInv, SerialInv, CardsInv, CardsMatchTable
<1> QED
  BY <1>1, CardInvariant, PTL

\* With no operation parked: a ready card's runtime mints with the context
\* that the form shows as soon as no setCardano is on its way.
THEOREM FormReachesRuntime == ASSUME ~Suspends PROVE CardSpec => []FormIsApplied
<1>1. ASSUME CardInv, phase = "ready", ~(\E p \in pending : p.op = "setCardano") PROVE cardano = fields
  <2>1. CoreInv /\ FormInv
    BY <1>1 DEF CardInv, PageInv, SerialInv
  <2>2. Sets = {}
    BY <1>1, <2>1 DEF Sets, CoreInv, PendingInv
  <2> QED
    BY <1>1, <2>1, <2>2 DEF FormInv
<1>2. CardInv => FormIsApplied
  BY <1>1 DEF FormIsApplied
<1> QED
  BY <1>2, CardInvariant, PTL

\* With no operation parked: the storage on a card is the UTXO's current one
\* as soon as no call and no read of it is outstanding.
THEOREM StorageNeverStale == ASSUME ~Suspends PROVE CardSpec => []StorageIsCurrent
<1>1. ASSUME CardInv, phase # "gone", NEW h \in live \cap DOMAIN table, ~table[h].dead,
             ~Waits("storageGet", h), ~(\E p \in pending : p.op = "call" /\ p.h = h)
      PROVE  h \in DOMAIN shown /\ shown[h] = table[h].version
  <2>1. ToSet(inbox) \cup Running \subseteq pending /\ StorageInv
    BY <1>1 DEF CardInv, PageInv, SerialInv, CoreInv, PendingInv
  <2>2. Reads(h) = {}
    BY <1>1 DEF Reads, Waits
  <2>3. ~(\E r \in ToSet(inbox) \cup Running : r.op = "storageGet" /\ r.h = h)
    BY <1>1, <2>1 DEF Waits
  <2> QED
    BY <1>1, <2>1, <2>2, <2>3 DEF StorageInv
<1>2. CardInv => StorageIsCurrent
  BY <1>1 DEF StorageIsCurrent
<1> QED
  BY <1>2, CardInvariant, PTL

\* With no operation parked: every method the panel offers is one that the
\* selected UTXO declared, and no call made from it is refused by the gate.
THEOREM OffersOnlyDeclared == ASSUME ~Suspends PROVE CardSpec => []OnlyCallableOffered
<1>1. CardInv => OnlyCallableOffered
  BY DEF CardInv
<1> QED
  BY <1>1, CardInvariant, PTL

\* While the worker is there, each request the page waits on is in one place
\* only, also though the page posts the next ones in the turn that reads a reply.
THEOREM CardAnsweredOnce == CardSpec => [](phase # "gone" => OneAnswer)
<1>1. CardInv => (phase # "gone" => OneAnswer)
  BY CoreOneAnswer DEF CardInv, PageInv
<1> QED
  BY <1>1, CardInvariant, PTL
=============================================================================
