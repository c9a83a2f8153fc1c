-------------------------- MODULE WebWorkerProofs ---------------------------
(***************************************************************************)
(* TLAPS proofs about WebWorker, for every set of methods and contexts,    *)
(* any number of requests and events, and operations that park or not.     *)
(***************************************************************************)
EXTENDS WebWorkerInv, SeqFacts

-----------------------------------------------------------------------------
(* The page.  These lemmas are about any page: one that posts any requests *)
(* (ps) in a turn, with or without reading a reply first.                  *)

\* The order of the numbers, by which element follows which.
LEMMA IdOrder ==
  \A s : /\ IdsRise(s) <=> \A x, y : Follows(s, x, y) => x.id < y.id
         /\ IdsDiffer(s) <=> \A x, y : Follows(s, x, y) => x.id # y.id
  BY DEF IdsRise, IdsDiffer, Follows

(* What a page may post: requests that fit below the bound, and no second  *)
(* one that instantiates.                                                  *)
Postable(ps) ==
  /\ ps \in Seq(Payloads(Ids)) /\ nextRpc + Len(ps) <= MaxRpc + 1
  /\ (\E i \in DOMAIN ps : ps[i].op = "instantiate") =>
       Len(ps) = 1 /\ ~contract /\ \A r \in ToSet(inbox) : r.op # "instantiate"

\* Requests are numbered from nextRpc on.
LEMMA NumberedFacts ==
  ASSUME TypeOK, NEW ps, Postable(ps)
  PROVE  /\ Numbered(ps) \in Seq(Requests) /\ IdsRise(Numbered(ps))
         /\ \A q \in ToSet(Numbered(ps)) : \E i \in DOMAIN ps : q = Request(ps[i], nextRpc + i - 1)
         /\ nextRpc + Len(ps) \in 1..(MaxRpc + 1) /\ nextRpc <= nextRpc + Len(ps)
         /\ \A r \in ToSet(Numbered(ps)) :
              WellFormed(r) /\ r.id \in Nat /\ nextRpc <= r.id /\ r.id < nextRpc + Len(ps)
<1> DEFINE n == Len(ps)
           q == Numbered(ps)
<1>1. /\ n \in Nat /\ DOMAIN ps = 1..n /\ \A i \in 1..n : ps[i] \in Payloads(Ids)
      /\ nextRpc \in Nat \ {0} /\ MaxRpc \in Nat /\ nextRpc + n <= MaxRpc + 1
  BY LenProperties, ElementOfSeq, WorkerAssumption DEF Postable, TypeOK, WorkerAssumption
<1>2. q = [i \in 1..n |-> Request(ps[i], nextRpc + i - 1)]
  BY DEF Numbered
<1>3. ASSUME NEW i \in 1..n
      PROVE  /\ q[i] \in Requests /\ WellFormed(q[i])
             /\ q[i].id = nextRpc + i - 1
  <2>1. q[i] = [id |-> nextRpc + i - 1, op |-> ps[i].op, h |-> ps[i].h, arg |-> ps[i].arg]
    BY <1>2 DEF Request
  <2>2. nextRpc + i - 1 \in 1..MaxRpc
    BY <1>1
  <2>3. ps[i] \in Payloads(Ids) /\ ps[i].op # "boot"
    BY <1>1 DEF Payloads, Mints, OfHandle
  <2>4. /\ ps[i].h \in Ids \cup {None} /\ ps[i].arg \in Methods \cup Contexts \cup {None}
        /\ ps[i].op \in OfHandle => ps[i].h \in Ids
        /\ ps[i].op = "call" => ps[i].arg \in Methods
        /\ ps[i].op = "setCardano" => ps[i].arg \in Contexts
    BY <2>3 DEF Payloads, Mints, OfHandle
  <2>5. ps[i].op \in {p.op : p \in Payloads(Ids)} \cup {"boot"}
    BY <2>3
  <2>6. q[i] \in Requests
    BY <2>1, <2>2, <2>4, <2>5 DEF Requests
  <2>7. WellFormed(q[i])
    BY <2>1, <2>2, <2>3, <2>4 DEF WellFormed
  <2> QED
    BY <2>1, <2>6, <2>7
<1>4. q \in Seq(Requests) /\ DOMAIN q = 1..n
  BY <1>1, <1>2, <1>3
<1> HIDE DEF n, q
<1>5. IdsRise(q)
  BY <1>1, <1>3, <1>4 DEF IdsRise
<1>6. \A r \in ToSet(q) : WellFormed(r) /\ r.id \in Nat /\ nextRpc <= r.id /\ r.id < nextRpc + n
  BY <1>1, <1>3, <1>4 DEF ToSet
<1>7. \A r \in ToSet(q) : \E i \in DOMAIN ps : r = Request(ps[i], nextRpc + i - 1)
  BY <1>1, <1>2, <1>4 DEF ToSet
<1> QED
  BY <1>1, <1>4, <1>5, <1>6, <1>7 DEF q, n

\* A turn of the page keeps the invariant: what it posts is younger than all
\* that waits, and a reply it reads is the one of the request it settles.
LEMMA PageStep ==
  ASSUME CoreInv, NEW ps, Postable(ps),
         nextRpc' = nextRpc + Len(ps), inbox' = inbox \o Numbered(ps),
         log' \in Seq(Entries), UNCHANGED workerVars,
         \/ pending' = pending \cup ToSet(Numbered(ps)) /\ outbox' = outbox
         \/ \E p \in pending :
              /\ outbox # <<>> /\ p.id = Head(outbox).id /\ outbox' = Tail(outbox)
              /\ pending' = (pending \ {p}) \cup ToSet(Numbered(ps))
  PROVE  CoreInv'
<1> USE DEF CoreInv
<1> DEFINE new == ToSet(Numbered(ps))
<1>1. /\ Numbered(ps) \in Seq(Requests) /\ IdsRise(Numbered(ps))
      /\ nextRpc' \in 1..(MaxRpc + 1) /\ nextRpc <= nextRpc'
      /\ nextRpc \in Nat \ {0}
      /\ \A r \in new : WellFormed(r) /\ r.id \in Nat /\ nextRpc <= r.id /\ r.id < nextRpc'
  BY NumberedFacts DEF TypeInv, TypeOK
<1>2. /\ inbox' \in Seq(Requests) /\ ToSet(inbox') = ToSet(inbox) \cup new
      /\ \A x, y : Follows(inbox', x, y) <=> \/ Follows(inbox, x, y) \/ Follows(Numbered(ps), x, y)
                                             \/ x \in ToSet(inbox) /\ y \in new
  BY <1>1, ConcatFacts DEF TypeInv, TypeOK
<1>3. new \subseteq Requests /\ ToSet(inbox) \subseteq Requests
  BY <1>1, ElementFacts DEF TypeInv, TypeOK
<1>4. PICK kept \in SUBSET pending :
        /\ pending' = kept \cup new
        /\ outbox' \in Seq(Replies) /\ IdsDiffer(outbox')
        /\ ToSet(inbox) \cup Running \subseteq kept
        /\ \A p \in kept : p \in ToSet(inbox) \cup Running \/ \E a \in ToSet(outbox') : a.id = p.id
        /\ \A a \in ToSet(outbox') : a \in ToSet(outbox) /\ \E p \in kept : a.id = p.id
  <2>1. CASE pending' = pending \cup new /\ outbox' = outbox
    BY <2>1 DEF PendingInv, TypeInv
  <2>2. ASSUME NEW p \in pending, outbox # <<>>, p.id = Head(outbox).id, outbox' = Tail(outbox),
               pending' = (pending \ {p}) \cup new
        PROVE  /\ outbox' \in Seq(Replies) /\ IdsDiffer(outbox')
               /\ ToSet(inbox) \cup Running \subseteq pending \ {p}
               /\ \A k \in pending \ {p} : \/ k \in ToSet(inbox) \cup Running
                                           \/ \E a \in ToSet(outbox') : a.id = k.id
               /\ \A a \in ToSet(outbox') : a \in ToSet(outbox) /\ \E k \in pending \ {p} : a.id = k.id
    <3>1. /\ outbox' \in Seq(Replies) /\ Head(outbox) \in Replies
          /\ ToSet(outbox) = {Head(outbox)} \cup ToSet(outbox')
      BY <2>2, TailFacts DEF TypeInv
    <3>2. \A x, y : Follows(outbox, x, y) <=>
            Follows(outbox', x, y) \/ (x = Head(outbox) /\ y \in ToSet(outbox'))
      BY <2>2, TailOrder DEF TypeInv
    <3>3. IdsDiffer(outbox') /\ \A a \in ToSet(outbox') : a.id # p.id
      <4>1. \A x, y : Follows(outbox, x, y) => x.id # y.id
        BY IdOrder DEF PendingInv
      <4>2. \A x, y : Follows(outbox', x, y) => x.id # y.id
        BY <3>2, <4>1
      <4>3. IdsDiffer(outbox')
        BY <4>2, IdOrder
      <4>4. \A a \in ToSet(outbox') : Head(outbox).id # a.id
        BY <3>2, <4>1
      <4> QED
        BY <2>2, <4>3, <4>4
    <3>4. ToSet(inbox) \cup Running \subseteq pending \ {p}
      BY <2>2, <3>1 DEF PendingInv
    <3>5. ASSUME NEW k \in pending \ {p}, k \notin ToSet(inbox) \cup Running
          PROVE  \E a \in ToSet(outbox') : a.id = k.id
      <4>1. PICK a \in ToSet(outbox) : a.id = k.id
        BY <3>5 DEF PendingInv
      <4>2. a # Head(outbox)
        BY <2>2, <4>1 DEF PendingInv
      <4> QED
        BY <3>1, <4>1, <4>2
    <3>6. ASSUME NEW a \in ToSet(outbox')
          PROVE  a \in ToSet(outbox) /\ \E k \in pending \ {p} : a.id = k.id
      BY <3>1, <3>3 DEF PendingInv
    <3> QED
      BY <3>1, <3>3, <3>4, <3>5, <3>6
  <2>3. CASE \E p \in pending :
               /\ outbox # <<>> /\ p.id = Head(outbox).id /\ outbox' = Tail(outbox)
               /\ pending' = (pending \ {p}) \cup new
    <3>1. PICK p \in pending : /\ outbox # <<>> /\ p.id = Head(outbox).id /\ outbox' = Tail(outbox)
                               /\ pending' = (pending \ {p}) \cup new
      BY <2>3
    <3> WITNESS pending \ {p} \in SUBSET pending
    <3> QED
      BY <2>2, <3>1
  <2> QED
    BY <2>1, <2>3
<1> HIDE DEF new
<1> USE DEF workerVars, contractVars
<1>5. TypeInv'
  <2>1. pending' \subseteq Requests
    BY <1>3, <1>4 DEF TypeInv, TypeOK
  <2>2. \A a \in ToSet(outbox') : a.id \in 0..MaxRpc /\ a.ok \in BOOLEAN /\ a.events \in Seq(Entries)
    BY <1>4 DEF TypeInv, TypeOK
  <2> QED
    BY <1>1, <1>2, <1>4, <2>1, <2>2 DEF TypeInv, TypeOK
<1>6. OrderInv'
  <2>1. IdsRise(inbox')
    <3> SUFFICES ASSUME NEW x, NEW y, Follows(inbox', x, y) PROVE x.id < y.id
      BY IdOrder
    <3>1. CASE Follows(inbox, x, y) \/ Follows(Numbered(ps), x, y)
      BY <1>1, <3>1, IdOrder DEF OrderInv
    <3>2. CASE x \in ToSet(inbox) /\ y \in new
      <4>1. x.id < nextRpc /\ x.id \in Nat
        BY <1>3, <3>2, WorkerAssumption DEF OrderInv, Requests, WorkerAssumption
      <4> QED
        BY <1>1, <3>2, <4>1
    <3> QED
      BY <1>2, <3>1, <3>2
  <2>2. \A r \in ToSet(inbox') : WellFormed(r) /\ r.id < nextRpc'
    <3>1. \A r \in ToSet(inbox) : r.id < nextRpc /\ r.id \in Nat
      BY <1>3, WorkerAssumption DEF OrderInv, Requests, WorkerAssumption
    <3> QED
      BY <1>1, <1>2, <3>1 DEF OrderInv
  <2>3. ASSUME Borrowed
        PROVE  /\ WellFormed(cur.req) /\ cur.req.id < nextRpc' /\ \A r \in ToSet(inbox') : cur.req.id < r.id
               /\ cur.req.op \in Mints \cup {"call", "storageGet", "drop"}
    <3>1. cur.req.id < nextRpc /\ cur.req.id \in Nat
      BY <2>3, WorkerAssumption DEF TypeInv, TypeOK, Borrowed, OrderInv, Requests, WorkerAssumption
    <3> QED
      BY <1>1, <1>2, <2>3, <3>1 DEF OrderInv
  <2> QED
    BY <2>1, <2>2, <2>3 DEF OrderInv, Borrowed
<1>7. BoundInv'
  <2>1. \A n \in Nat : Behind(n) => Behind(n)'
    BY <1>1, <1>2 DEF Behind, Borrowed
  <2>2. nextId \in Nat /\ \A h \in DOMAIN table : table[h].version \in Nat
    BY WorkerAssumption DEF TypeInv, TypeOK, Ids, IsMap, Utxos, WorkerAssumption
  <2> QED
    BY <2>1, <2>2 DEF BoundInv
<1>8. HandleInv' /\ EventInv'
  BY <1>4 DEF HandleInv, EventInv, Borrowed
<1>9. PendingInv'
  <2>1. \A p \in kept : p.id < nextRpc /\ p.id \in Nat
    BY <1>4, WorkerAssumption DEF PendingInv, TypeInv, TypeOK, Requests, WorkerAssumption
  <2>2. \A p \in pending' : p.id < nextRpc' /\ \A q \in pending' : p.id = q.id => p = q
    <3>1. \A p, q \in new : p.id = q.id => p = q
      <4> SUFFICES ASSUME NEW p \in new, NEW q \in new, p.id = q.id PROVE p = q
        OBVIOUS
      <4>1. PICK i, j \in DOMAIN Numbered(ps) : p = Numbered(ps)[i] /\ q = Numbered(ps)[j]
        BY DEF new, ToSet
      <4>2. DOMAIN Numbered(ps) = 1..Len(Numbered(ps)) /\ Len(Numbered(ps)) \in Nat
        BY <1>1, LenProperties
      <4>3. p.id \in Nat /\ q.id \in Nat
        BY <1>1
      <4>4. i = j \/ i < j \/ j < i
        BY <4>2
      <4> QED
        BY <1>1, <4>1, <4>3, <4>4 DEF IdsRise
    <3> QED
      BY <1>1, <1>4, <2>1, <3>1 DEF PendingInv
  <2>3. ToSet(inbox') \cup Running' \subseteq pending'
    BY <1>2, <1>4 DEF Running, Borrowed
  <2>4. \A p \in pending' : \/ p \in ToSet(inbox') \cup Running'
                            \/ \E a \in ToSet(outbox') : a.id = p.id
    BY <1>2, <1>4 DEF Running, Borrowed
  <2>5. ASSUME NEW a \in ToSet(outbox')
        PROVE  /\ \E p \in pending' : a.id = p.id
               /\ \A r \in ToSet(inbox') \cup Running' : a.id # r.id
    <3>1. PICK p \in kept : a.id = p.id
      BY <1>4
    <3>2. \A r \in ToSet(inbox) \cup Running : a.id # r.id
      BY <1>4 DEF PendingInv
    <3>3. Running' = Running
      BY DEF Running, Borrowed
    <3>4. \A r \in new : a.id # r.id
      BY <1>1, <2>1, <3>1
    <3> QED
      BY <1>2, <1>4, <3>1, <3>2, <3>3, <3>4
  <2> QED
    BY <1>4, <2>2, <2>3, <2>4, <2>5 DEF PendingInv
<1>10. BeginInv'
  <2>1. UNCHANGED <<boot, contract, table, cur>>
    OBVIOUS
  <2>2. \A q \in new : q.op \in {"boot", "instantiate"} =>
          /\ Len(ps) = 1 /\ ~contract /\ \A r \in ToSet(inbox) : r.op # "instantiate"
          /\ q = Request(ps[1], nextRpc)
    <3> SUFFICES ASSUME NEW q \in new, q.op \in {"boot", "instantiate"}
                 PROVE  /\ Len(ps) = 1 /\ ~contract /\ \A r \in ToSet(inbox) : r.op # "instantiate"
                        /\ q = Request(ps[1], nextRpc)
      OBVIOUS
    <3>1. PICK i \in DOMAIN ps : q = Request(ps[i], nextRpc + i - 1)
      BY NumberedFacts DEF TypeInv, new
    <3>2. q.op = ps[i].op /\ ps[i].op # "boot"
      <4>1. ps[i] \in Payloads(Ids)
        BY ElementOfSeq, LenProperties DEF Postable
      <4> QED
        BY <3>1, <4>1 DEF Request, Payloads, Mints, OfHandle
    <3>3. Len(ps) = 1 /\ ~contract /\ \A r \in ToSet(inbox) : r.op # "instantiate"
      BY <3>2 DEF Postable
    <3>4. i = 1
      BY <3>3, LenProperties DEF Postable
    <3> QED
      BY <1>1, <3>1, <3>3, <3>4
  <2>3. \A r, q \in ToSet(inbox') : r.op = "instantiate" /\ q.op = "instantiate" => r = q
    BY <1>2, <2>2 DEF BeginInv
  <2>4. \A r \in ToSet(inbox') : r.op \in {"boot", "instantiate"} => ~contract'
    BY <1>2, <2>1, <2>2 DEF BeginInv
  <2>5. contract' => nextRpc' > 1 /\ boot' # "failed"
    BY <1>1, <2>1 DEF BeginInv
  <2>6. Borrowed' \/ DOMAIN table' # {} => contract'
    BY <2>1 DEF BeginInv, Borrowed
  <2> QED
    BY <2>3, <2>4, <2>5, <2>6 DEF BeginInv
<1> QED
  BY <1>5, <1>6, <1>7, <1>8, <1>9, <1>10

-----------------------------------------------------------------------------
(* The worker takes its messages.                                          *)

Taken(r) ==
  /\ inbox # <<>> /\ r = Head(inbox) /\ inbox' = Tail(inbox)
  /\ UNCHANGED proxyVars

\* What is known of the request that is handled: it is older than those left
\* in the inbox and younger than the running one; boot and instantiate find
\* none running.
LEMMA TakenFacts ==
  ASSUME CoreInv, NEW r, Taken(r)
  PROVE  /\ r \in Requests /\ WellFormed(r) /\ r.id \in 0..MaxRpc /\ r.id < nextRpc
         /\ r \in pending /\ UNCHANGED <<nextRpc, pending, log>>
         /\ inbox' \in Seq(Requests) /\ IdsRise(inbox') /\ ToSet(inbox) = {r} \cup ToSet(inbox')
         /\ \A q \in ToSet(inbox') : q.id \in Nat /\ r.id < q.id
         /\ \A a \in ToSet(outbox) : a.id # r.id
         /\ Borrowed => cur.req.id \in Nat /\ cur.req.id < r.id /\ r.op \notin {"boot", "instantiate"}
<1> USE DEF CoreInv
<1>1. /\ r \in Requests /\ inbox' \in Seq(Requests) /\ ToSet(inbox) = {r} \cup ToSet(inbox')
      /\ UNCHANGED <<nextRpc, pending, log>>
  BY TailFacts DEF Taken, TypeInv, TypeOK, proxyVars
<1>2. \A x, y : Follows(inbox, x, y) <=> Follows(inbox', x, y) \/ (x = r /\ y \in ToSet(inbox'))
  BY TailOrder DEF Taken, TypeInv, TypeOK
<1>3. \A x, y : Follows(inbox, x, y) => x.id < y.id
  BY IdOrder DEF OrderInv
<1>4. IdsRise(inbox') /\ \A q \in ToSet(inbox') : r.id < q.id
  <2>1. \A x, y : Follows(inbox', x, y) => x.id < y.id
    BY <1>2, <1>3
  <2>2. \A q \in ToSet(inbox') : r.id < q.id
    BY <1>2, <1>3
  <2> QED
    BY <2>1, <2>2, IdOrder
<1>5. ToSet(inbox') \subseteq Requests
  BY <1>1, ElementFacts
<1>6. r.id \in 0..MaxRpc /\ \A q \in ToSet(inbox') : q.id \in Nat
  BY <1>1, <1>5, WorkerAssumption DEF Requests, WorkerAssumption
<1>7. WellFormed(r) /\ r.id < nextRpc
  BY <1>1 DEF OrderInv
<1>8. r \in pending /\ \A a \in ToSet(outbox) : a.id # r.id
  BY <1>1 DEF PendingInv
<1>9. ASSUME Borrowed
      PROVE  cur.req.id \in Nat /\ cur.req.id < r.id /\ r.op \notin {"boot", "instantiate"}
  <2>1. cur.req.id \in Nat /\ cur.req.id < r.id
    BY <1>1, <1>9, WorkerAssumption DEF TypeInv, TypeOK, Borrowed, OrderInv, Requests, WorkerAssumption
  <2>2. contract
    BY <1>9 DEF BeginInv
  <2> QED
    BY <1>1, <2>1, <2>2 DEF BeginInv
<1> QED
  BY <1>1, <1>4, <1>6, <1>7, <1>8, <1>9

\* Events are in the buffer only while an operation runs, when the drain
\* finds the contract borrowed: an answer at once carries none and leaves the
\* buffer as it is.
LEMMA DrainedFacts ==
  ASSUME TypeOK, EventInv
  PROVE  Drained = <<>> /\ (IF contract /\ ~Borrowed THEN <<>> ELSE events) = events
<1>1. ASSUME ~Borrowed PROVE events = <<>>
  <2>1. ToSet(events) = {}
    BY <1>1 DEF EventInv
  <2>2. events # <<>> => Head(events) \in ToSet(events)
    BY TailFacts DEF TypeOK
  <2> QED
    BY <2>1, <2>2
<1> QED
  BY <1>1 DEF Drained

\* An answer at once, from a request that left the guest alone, keeps the
\* invariant: the request goes from the inbox to its reply.
LEMMA AnswerStep ==
  ASSUME CoreInv, NEW r, Taken(r), NEW ok \in BOOLEAN, NEW x \in Results,
         Reply(r.id, ok, x, <<>>), UNCHANGED <<table, nextId, events, cur, emitted>>,
         boot' \in {"pending", "ready", "failed"}, contract' \in BOOLEAN,
         cardano' \in Contexts, cardano' = cardano \/ ~Borrowed, BeginInv'
  PROVE  CoreInv'
<1> USE DEF CoreInv
<1> DEFINE a == [id |-> r.id, ok |-> ok, result |-> x, events |-> <<>>]
<1>1. /\ r \in Requests /\ r.id \in 0..MaxRpc /\ r \in pending /\ UNCHANGED <<nextRpc, pending, log>>
      /\ inbox' \in Seq(Requests) /\ IdsRise(inbox') /\ ToSet(inbox) = {r} \cup ToSet(inbox')
      /\ \A q \in ToSet(inbox') : q.id \in Nat /\ r.id < q.id
      /\ \A b \in ToSet(outbox) : b.id # r.id
      /\ Borrowed => cur.req.id \in Nat /\ cur.req.id < r.id
  BY TakenFacts
<1>2. a \in Replies /\ outbox' = Append(outbox, a) /\ outbox \in Seq(Replies)
  BY <1>1 DEF Replies, Reply, TypeInv
<1>3. a.id = r.id /\ a.ok = ok /\ a.events = <<>> /\ a.events \in Seq(Entries) /\ ToSet(a.events) = {}
  BY EmptyFacts
<1> HIDE DEF a
<1>4. outbox' \in Seq(Replies) /\ ToSet(outbox') = ToSet(outbox) \cup {a}
  BY <1>2, AppendFacts
<1>5. IdsDiffer(outbox')
  <2>1. \A y, z : Follows(outbox', y, z) <=> Follows(outbox, y, z) \/ (y \in ToSet(outbox) /\ z = a)
    BY <1>2, AppendOrder
  <2>2. \A y, z : Follows(outbox, y, z) => y.id # z.id
    BY IdOrder DEF PendingInv
  <2>3. \A y, z : Follows(outbox', y, z) => y.id # z.id
    BY <1>1, <1>3, <2>1, <2>2
  <2> QED
    BY <2>3, IdOrder
<1>6. TypeInv'
  <2>1. \A b \in ToSet(outbox') : b.id \in 0..MaxRpc /\ b.ok \in BOOLEAN /\ b.events \in Seq(Entries)
    BY <1>1, <1>3, <1>4 DEF TypeInv, TypeOK
  <2> QED
    BY <1>1, <1>4, <2>1 DEF TypeInv, TypeOK
<1>7. OrderInv' /\ BoundInv'
  BY <1>1 DEF OrderInv, BoundInv, Behind, Borrowed
<1>8. HandleInv'
  BY DEF HandleInv, Borrowed
<1>9. PendingInv'
  <2>1. Running' = Running /\ \A q \in ToSet(inbox') \cup Running : q.id # r.id
    <3>1. \A q \in Running : q.id # r.id
      BY <1>1 DEF Running
    <3> QED
      BY <1>1, <3>1 DEF Running, Borrowed
  <2> QED
    BY <1>1, <1>3, <1>4, <1>5, <2>1 DEF PendingInv
<1>10. EventInv'
  BY <1>3, <1>4 DEF EventInv, Borrowed
<1> QED
  BY <1>6, <1>7, <1>8, <1>9, <1>10

\* An answer at once carries no events.
LEMMA AnswersCarryNone ==
  ASSUME CoreInv, NEW r, Taken(r),
         \/ BootRuntime(r) \/ Refuse(r) \/ Instantiate(r) \/ Describe(r)
         \/ ImplementedMethods(r) \/ SetCardano(r)
  PROVE  /\ \E ok \in BOOLEAN, x \in Results : Reply(r.id, ok, x, <<>>)
         /\ UNCHANGED <<events, emitted, cur>>
<1> USE DEF CoreInv
<1>1. None \in Results
  BY DEF Results
<1>2. ASSUME NEW ok \in BOOLEAN, NEW x \in Results, Answer(r, ok, x)
      PROVE  Reply(r.id, ok, x, <<>>) /\ UNCHANGED <<events, emitted, cur>>
  BY <1>2, DrainedFacts, Zenon DEF Answer, TypeInv
<1>3. CASE BootRuntime(r)
  BY <1>1, <1>3 DEF BootRuntime
<1>4. CASE Refuse(r) \/ Instantiate(r) \/ Describe(r) \/ SetCardano(r)
  BY <1>1, <1>2, <1>4 DEF Refuse, Instantiate, Describe, SetCardano
<1>5. CASE ImplementedMethods(r)
  <2>1. r.h \in DOMAIN table
    BY <1>5 DEF ImplementedMethods, Refused, OfHandle
  <2>2. table[r.h].declared \in Results
    BY <2>1 DEF Results, TypeInv, TypeOK, IsMap, Utxos
  <2> QED
    BY <1>2, <1>5, <2>2 DEF ImplementedMethods
<1> QED
  BY <1>3, <1>4, <1>5

\* The requests that are answered at once, refused or served, are answered so.
LEMMA AnswersKeepCore ==
  ASSUME CoreInv, NEW r, Taken(r),
         \/ BootRuntime(r) \/ Refuse(r) \/ Instantiate(r) \/ Describe(r)
         \/ ImplementedMethods(r) \/ SetCardano(r)
  PROVE  CoreInv'
<1> USE DEF CoreInv
<1>0. boot \in {"pending", "ready", "failed"} /\ contract \in BOOLEAN /\ cardano \in Contexts
  BY DEF TypeInv, TypeOK
<1>1. None \in Results
  BY DEF Results
<1>2. ASSUME NEW ok \in BOOLEAN, NEW x \in Results, Answer(r, ok, x)
      PROVE  Reply(r.id, ok, x, <<>>) /\ UNCHANGED <<boot, events, cur, emitted>>
  BY <1>2, DrainedFacts, Zenon DEF Answer, TypeInv
<1>9. BeginInv'
  <2>1. /\ ToSet(inbox) = {r} \cup ToSet(inbox') /\ nextRpc' = nextRpc /\ r.id < nextRpc
        /\ r.id \in Nat /\ \A q \in ToSet(inbox') : r.id < q.id
        /\ nextRpc \in Nat /\ WellFormed(r)
    BY TakenFacts, WorkerAssumption DEF WorkerAssumption, TypeInv, TypeOK
  <2>2. UNCHANGED <<cur, table>>
    BY <1>1, AnswersCarryNone DEF BootRuntime, Refuse, Instantiate, Describe,
       ImplementedMethods, SetCardano, contractVars
  <2>3. CASE contract' = contract /\ (boot' = boot \/ r.op = "boot")
    BY <2>1, <2>2, <2>3 DEF BeginInv, Borrowed
  <2>4. CASE Instantiate(r)
    <3>1. r.op = "instantiate" /\ contract' = TRUE /\ boot # "failed" /\ boot' = boot
      BY <2>4 DEF Instantiate, Refused, Answer
    <3>2. \A q \in ToSet(inbox') : q.op \notin {"boot", "instantiate"}
      <4> SUFFICES ASSUME NEW q \in ToSet(inbox'), q.op \in {"boot", "instantiate"} PROVE FALSE
        OBVIOUS
      <4>1. q # r /\ q.id # 0
        BY <2>1
      <4> QED
        BY <2>1, <3>1, <4>1 DEF BeginInv, OrderInv, WellFormed
    <3>3. nextRpc > 1
      BY <2>1, <3>1 DEF WellFormed
    <3> QED
      BY <2>1, <2>2, <3>1, <3>2, <3>3 DEF BeginInv
  <2> QED
    BY <2>3, <2>4 DEF BootRuntime, Refuse, Instantiate, Describe, ImplementedMethods, SetCardano,
                      contractVars, Answer
<1>3. CASE BootRuntime(r)
  <2>1. PICK ok \in BOOLEAN : Reply(r.id, ok, None, <<>>) /\ boot' \in {"pending", "ready", "failed"}
    BY <1>3 DEF BootRuntime
  <2> QED
    BY <1>0, <1>1, <1>3, <2>1, <1>9, AnswerStep DEF BootRuntime, contractVars
<1>4. CASE Refuse(r)
  BY <1>0, <1>1, <1>2, <1>4, <1>9, AnswerStep DEF Refuse, contractVars
<1>5. CASE Instantiate(r)
  BY <1>0, <1>1, <1>2, <1>5, <1>9, AnswerStep DEF Instantiate
<1>6. CASE Describe(r)
  BY <1>0, <1>1, <1>2, <1>6, <1>9, AnswerStep DEF Describe, contractVars
<1>7. CASE ImplementedMethods(r)
  <2>1. r.h \in DOMAIN table
    BY <1>7 DEF ImplementedMethods, Refused, OfHandle
  <2>2. table[r.h].declared \in Results
    BY <2>1 DEF Results, TypeInv, TypeOK, IsMap, Utxos
  <2> QED
    BY <1>0, <1>2, <1>7, <2>2, <1>9, AnswerStep DEF ImplementedMethods, contractVars
<1>8. CASE SetCardano(r)
  <2>1. ~Borrowed
    BY <1>8 DEF SetCardano, Refused
  <2>2. r.arg \in Contexts
    BY <1>8, TakenFacts DEF SetCardano, WellFormed
  <2> QED
    BY <1>1, <1>0, <1>2, <1>8, <2>1, <2>2, <1>9, AnswerStep DEF SetCardano
<1> QED
  BY <1>3, <1>4, <1>5, <1>6, <1>7, <1>8

\* Entering the guest keeps the invariant: the request goes from the inbox to
\* the activation, with a UTXO of the table or a fresh one.
LEMMA StartsKeepCore ==
  ASSUME CoreInv, NEW r, Taken(r),
         New(r) \/ LoadUtxo(r) \/ CallMethod(r) \/ StorageGet(r) \/ DropResource(r)
  PROVE  CoreInv'
<1> USE DEF CoreInv
<1>1. /\ r \in Requests /\ WellFormed(r) /\ r.id \in 0..MaxRpc /\ r.id < nextRpc /\ r \in pending
      /\ UNCHANGED <<nextRpc, pending, log>>
      /\ inbox' \in Seq(Requests) /\ IdsRise(inbox') /\ ToSet(inbox) = {r} \cup ToSet(inbox')
      /\ \A q \in ToSet(inbox') : q.id \in Nat /\ r.id < q.id
  BY TakenFacts
<1>2. PICK u : Start(r, u) /\ \/ r.op \in Mints /\ u = Fresh /\ table' = table
                              \/ r.op \in OfHandle /\ u = table[r.h] /\ r.op # "implemented"
                                 /\ \/ r.op # "drop" /\ table' = table
                                    \/ r.op = "drop" /\ table' = [i \in DOMAIN table \ {r.h} |-> table[i]]
  BY DEF New, LoadUtxo, CallMethod, StorageGet, DropResource, Mints, OfHandle
<1>3. r.op \in Mints \cup {"call", "storageGet", "drop"} /\ r.op # "boot" /\ r.op # "instantiate"
  BY <1>2 DEF Mints, OfHandle
<1>4. /\ ~Borrowed /\ cur' = [req |-> r, utxo |-> u]
      /\ UNCHANGED <<outbox, boot, contract, nextId, cardano, events, emitted>>
      /\ r.op \in OfHandle => r.h \in DOMAIN table
      /\ r.op = "call" => r.arg \in table[r.h].declared
  BY <1>2, <1>3 DEF Start, Refused, OfHandle
<1>5. u \in Utxos
  <2>1. Fresh \in Utxos
    BY WorkerAssumption DEF Fresh, Utxos, TypeInv, TypeOK, WorkerAssumption
  <2>2. \A h \in DOMAIN table : table[h] \in Utxos
    BY DEF TypeInv, TypeOK, IsMap
  <2> QED
    BY <1>2, <1>4, <2>1, <2>2
<1>6. cur' \in [req : Requests, utxo : Utxos] /\ Borrowed' /\ cur'.req = r /\ cur'.utxo = u
  BY <1>1, <1>4, <1>5, NoneIsNoOperation DEF Borrowed, NoneIsNoOperation
<1>7. /\ DOMAIN table' \subseteq DOMAIN table /\ \A h \in DOMAIN table' : table'[h] = table[h]
      /\ r.op # "drop" => table' = table
  <2>1. r.op \in Mints => r.op # "drop"
    BY DEF Mints
  <2> QED
    BY <1>2, <2>1
<1>8. TypeInv'
  <2>1. IsMap(table, Ids, Utxos)'
    BY <1>7 DEF TypeInv, TypeOK, IsMap
  <2> QED
    BY <1>1, <1>4, <1>6, <2>1 DEF TypeInv, TypeOK
<1>9. OrderInv'
  BY <1>1, <1>3, <1>6 DEF OrderInv
<1>10. BoundInv'
  <2>1. r.id # 0
    BY <1>1, <1>3 DEF WellFormed
  <2>2. \A n \in Nat : Behind(n) => Behind(n)'
    BY <1>1, <1>6, <2>1 DEF Behind
  <2>3. nextId \in Nat /\ \A h \in DOMAIN table : table[h].version \in Nat
    BY WorkerAssumption DEF TypeInv, TypeOK, Ids, IsMap, Utxos, WorkerAssumption
  <2> QED
    BY <1>4, <1>7, <2>2, <2>3 DEF BoundInv
<1>11. HandleInv'
  <2>1. DOMAIN table' \subseteq 0..(nextId' - 1)
    BY <1>4, <1>7 DEF HandleInv
  <2>2. ASSUME r.op \in {"call", "storageGet"}
        PROVE  /\ r.h \in DOMAIN table' /\ u = table'[r.h]
               /\ r.op = "call" => r.arg \in table'[r.h].declared
    BY <1>2, <1>4, <1>7, <2>2 DEF OfHandle, Mints
  <2>3. r.op \in Mints => u.ctx = cardano' /\ u.version = 0 /\ ~u.dead
    BY <1>2, <1>4 DEF Fresh, Mints, OfHandle
  <2> QED
    BY <1>6, <2>1, <2>2, <2>3 DEF HandleInv
<1>12. PendingInv'
  <2>1. ToSet(inbox') \cup Running' = ToSet(inbox) \cup Running
    BY <1>1, <1>4, <1>6 DEF Running
  <2> QED
    BY <1>1, <1>4, <2>1 DEF PendingInv
<1>13. EventInv'
  BY <1>4 DEF EventInv
<1>14. BeginInv'
  <2>1. contract /\ \A q \in ToSet(inbox') : q.op \notin {"boot", "instantiate"}
    BY <1>1, <1>2, <1>3 DEF Start, Refused, BeginInv
  <2> QED
    BY <1>1, <1>4, <2>1 DEF BeginInv
<1> QED
  BY <1>8, <1>9, <1>10, <1>11, <1>12, <1>13, <1>14

\* Every message the worker handles keeps the invariant.
LEMMA OnMessageKeepsCore == CoreInv /\ OnMessage => CoreInv'
<1> SUFFICES ASSUME CoreInv, OnMessage PROVE CoreInv'
  OBVIOUS
<1> DEFINE r == Head(inbox)
<1>1. Taken(r)
  BY DEF OnMessage, Taken
<1>2. \/ BootRuntime(r) \/ Refuse(r) \/ Instantiate(r) \/ Describe(r)
      \/ ImplementedMethods(r) \/ SetCardano(r)
      \/ New(r) \/ LoadUtxo(r) \/ CallMethod(r) \/ StorageGet(r) \/ DropResource(r)
  BY DEF OnMessage
<1> HIDE DEF r
<1> QED
  BY <1>1, <1>2, AnswersKeepCore, StartsKeepCore

-----------------------------------------------------------------------------
(* The guest runs and finishes.                                            *)

\* The running operation, when there is one.
LEMMA RunningFacts ==
  ASSUME CoreInv, Borrowed
  PROVE  /\ cur.req \in Requests /\ cur.utxo \in Utxos /\ cur.req.id \in 0..MaxRpc
         /\ cur = [req |-> cur.req, utxo |-> cur.utxo] /\ WellFormed(cur.req)
         /\ nextId \in Nat /\ nextId < cur.req.id /\ cur.req.id < nextRpc
         /\ cur.req.op \in Mints \cup {"call", "storageGet", "drop"}
         /\ \A q \in ToSet(inbox) : q.id \in Nat /\ cur.req.id < q.id
<1>1. cur \in [req : Requests, utxo : Utxos] /\ nextId \in Nat /\ ToSet(inbox) \subseteq Requests
  BY ElementFacts, WorkerAssumption DEF CoreInv, TypeInv, TypeOK, Borrowed, Ids, WorkerAssumption
<1>2. \A q \in Requests : q.id \in Nat /\ q.id \in 0..MaxRpc
  BY WorkerAssumption DEF Requests, WorkerAssumption
<1>3. nextId < cur.req.id
  BY DEF CoreInv, BoundInv, Behind
<1> QED
  BY <1>1, <1>2, <1>3 DEF CoreInv, OrderInv

\* An event of the running operation keeps the invariant.
LEMMA EmitKeepsCore == CoreInv /\ EmitEvent => CoreInv'
<1> SUFFICES ASSUME CoreInv, EmitEvent PROVE CoreInv'
  OBVIOUS
<1> USE DEF CoreInv, EmitEvent, Runs, proxyVars, contractVars
<1> DEFINE e == Entry("event", cur.req.id, emitted + 1)
<1>1. emitted' \in 0..MaxEvents /\ emitted + 1 \in 0..MaxEvents
  BY WorkerAssumption DEF TypeInv, TypeOK, WorkerAssumption
<1>2. e \in Entries /\ IsEvent(e) /\ e.id = cur.req.id
  BY <1>1, RunningFacts DEF Entry, Entries, IsEvent
<1>3. events' = Append(events, e)
  OBVIOUS
<1> HIDE DEF e
<1>4. events' \in Seq(Entries) /\ ToSet(events') = ToSet(events) \cup {e}
  BY <1>2, <1>3, AppendFacts DEF TypeInv, TypeOK
<1>5. TypeInv'
  BY <1>1, <1>4 DEF TypeInv, TypeOK
<1>6. OrderInv' /\ BeginInv' /\ BoundInv' /\ HandleInv' /\ PendingInv'
  BY DEF OrderInv, BeginInv, BoundInv, Behind, HandleInv, PendingInv, Running, Borrowed
<1>7. EventInv'
  BY <1>2, <1>4 DEF EventInv, Borrowed
<1> QED
  BY <1>5, <1>6, <1>7

\* So does a method the constructor declares.
LEMMA DeclareKeepsCore ==
  ASSUME CoreInv, NEW m \in Methods, ImplementsMethod(m) PROVE CoreInv'
<1> USE DEF CoreInv, ImplementsMethod, Runs, proxyVars, contractVars
<1>1. /\ cur.req \in Requests /\ cur.utxo \in Utxos
      /\ cur = [req |-> cur.req, utxo |-> cur.utxo]
  BY RunningFacts
<1>2. /\ cur' \in [req : Requests, utxo : Utxos] /\ cur'.req = cur.req
      /\ cur'.utxo.declared = cur.utxo.declared \cup {m}
      /\ cur'.utxo.ctx = cur.utxo.ctx /\ cur'.utxo.version = cur.utxo.version
      /\ cur'.utxo.dead = cur.utxo.dead
  BY <1>1 DEF Utxos
<1>3. Borrowed'
  BY <1>2, NoneIsNoOperation DEF Borrowed, NoneIsNoOperation
<1>4. TypeInv'
  BY <1>2 DEF TypeInv, TypeOK
<1>5. OrderInv' /\ BeginInv' /\ BoundInv' /\ PendingInv' /\ EventInv'
  BY <1>2, <1>3 DEF OrderInv, BeginInv, BoundInv, Behind, PendingInv, Running, EventInv
<1>6. HandleInv'
  BY <1>2, <1>3 DEF HandleInv
<1> QED
  BY <1>4, <1>5, <1>6

\* A trap changes nothing of a UTXO but that it is dead.
LEMMA TrappedFacts ==
  ASSUME NEW u \in Utxos, NEW ok \in BOOLEAN
  PROVE  /\ Trapped(u, ok) \in Utxos /\ Trapped(u, ok).version = u.version
         /\ Trapped(u, ok).ctx = u.ctx /\ Trapped(u, ok).declared = u.declared
         /\ Trapped(u, ok).dead = (u.dead \/ ~ok)
<1>1. PICK d : d = (u.dead \/ ~ok)
  OBVIOUS
<1>2. d \in BOOLEAN
  BY <1>1, Zenon
<1>3. Trapped(u, ok) = [u EXCEPT !.dead = d]
  BY <1>1, Zenon DEF Trapped
<1>4. /\ [u EXCEPT !.dead = d] \in Utxos /\ [u EXCEPT !.dead = d].version = u.version
      /\ [u EXCEPT !.dead = d].ctx = u.ctx /\ [u EXCEPT !.dead = d].declared = u.declared
      /\ [u EXCEPT !.dead = d].dead = d
  BY <1>2 DEF Utxos
<1> QED
  BY <1>1, <1>3, <1>4, Zenon

\* An operation that is over leaves the table, the handles and the storage
\* versions within their bounds.
LEMMA FinishedTable ==
  ASSUME CoreInv, NEW ok \in BOOLEAN, Finish(ok)
  PROVE  /\ nextId' \in Nat /\ nextId' <= cur.req.id /\ DOMAIN table' \subseteq 0..(nextId' - 1)
         /\ \A h \in DOMAIN table' : /\ table'[h] \in Utxos
                                     /\ Behind(table'[h].version) \/ table'[h].version <= cur.req.id
<1> USE DEF CoreInv
<1>1. /\ cur.req \in Requests /\ cur.utxo \in Utxos /\ cur.req.id \in 0..MaxRpc
      /\ nextId \in Nat /\ nextId < cur.req.id
  BY RunningFacts DEF Finish
<1>2. \A h \in DOMAIN table : table[h] \in Utxos /\ Behind(table[h].version)
  BY DEF TypeInv, TypeOK, IsMap, BoundInv
<1>3. DOMAIN table \subseteq 0..(nextId - 1)
  BY DEF HandleInv
<1>4. CASE ConstructUtxo(ok)
  <2>1. CASE ~ok
    BY <1>1, <1>2, <1>3, <1>4, <2>1 DEF ConstructUtxo
  <2>2. CASE ok
    <3>1. nextId' = nextId + 1 /\ DOMAIN table' = DOMAIN table \cup {nextId}
      BY <1>4, <2>2 DEF ConstructUtxo
    <3>2. \A h \in DOMAIN table' : table'[h] = IF h = nextId THEN cur.utxo ELSE table[h]
      BY <1>4, <2>2 DEF ConstructUtxo
    <3>3. cur.utxo.version <= cur.req.id
      BY <1>1, <1>4 DEF HandleInv, ConstructUtxo, Finish
    <3> QED
      BY <1>1, <1>2, <1>3, <3>1, <3>2, <3>3
  <2> QED
    BY <2>1, <2>2
<1>5. ASSUME NEW u \in Utxos, UNCHANGED nextId, table' = [table EXCEPT ![cur.req.h] = u],
             u.version <= cur.req.id
      PROVE  /\ nextId' \in Nat /\ nextId' <= cur.req.id /\ DOMAIN table' \subseteq 0..(nextId' - 1)
             /\ \A h \in DOMAIN table' : /\ table'[h] \in Utxos
                                         /\ Behind(table'[h].version) \/ table'[h].version <= cur.req.id
  <2>1. DOMAIN table' = DOMAIN table
    BY <1>5
  <2>2. \A h \in DOMAIN table' : table'[h] = IF h = cur.req.h THEN u ELSE table[h]
    BY <1>5
  <2> QED
    BY <1>1, <1>2, <1>3, <1>5, <2>1, <2>2
<1>6. ASSUME cur.req.op \in {"call", "storageGet"}
      PROVE  cur.utxo.version \in Nat /\ cur.utxo.version < cur.req.id
  <2>1. cur.req.h \in DOMAIN table /\ cur.utxo.version = table[cur.req.h].version
    BY <1>6 DEF HandleInv, Finish
  <2>2. Behind(cur.utxo.version)
    BY <1>2, <2>1, Zenon
  <2> QED
    BY <1>1, <2>2, WorkerAssumption DEF Behind, Finish, Utxos, WorkerAssumption
<1>7. CASE CallAsync(ok)
  <2> DEFINE t == Trapped(cur.utxo, ok)
  <2>1. t \in Utxos /\ t.version \in Nat /\ t.version < cur.req.id
    BY <1>1, <1>6, <1>7, TrappedFacts DEF CallAsync
  <2>2. table' = [table EXCEPT ![cur.req.h] = [t EXCEPT !.version = IF ok THEN @ + 1 ELSE @]]
    BY <1>7 DEF CallAsync
  <2> HIDE DEF t
  <2>3. PICK u : u = [t EXCEPT !.version = IF ok THEN t.version + 1 ELSE t.version]
    OBVIOUS
  <2>4. u \in Utxos /\ u.version <= cur.req.id
    <3>1. PICK v : v = IF ok THEN t.version + 1 ELSE t.version
      OBVIOUS
    <3>2. v \in 0..MaxRpc /\ v <= cur.req.id
      BY <1>1, <2>1, <3>1, WorkerAssumption DEF WorkerAssumption
    <3>3. u = [t EXCEPT !.version = v]
      BY <2>3, <3>1, Zenon
    <3> QED
      BY <2>1, <3>2, <3>3 DEF Utxos
  <2> QED
    BY <1>5, <1>7, <2>2, <2>3, <2>4 DEF CallAsync
<1>8. CASE GetAsync(ok)
  <2>1. PICK u : u = Trapped(cur.utxo, ok)
    OBVIOUS
  <2>2. u \in Utxos /\ u.version <= cur.req.id
    BY <1>1, <1>6, <1>8, <2>1, TrappedFacts DEF GetAsync
  <2> QED
    BY <1>5, <1>8, <2>1, <2>2 DEF GetAsync
<1>9. CASE DropAsync(ok)
  BY <1>1, <1>2, <1>3, <1>9 DEF DropAsync
<1> QED
  BY <1>4, <1>7, <1>8, <1>9 DEF Finish

\* An operation that is over has answered, with all the events of the buffer.
LEMMA FinishedReply ==
  ASSUME CoreInv, NEW ok \in BOOLEAN, Finish(ok)
  PROVE  /\ \E x \in Results : Reply(cur.req.id, ok, x, events)
         /\ events' = <<>> /\ cur' = None
         /\ UNCHANGED <<nextRpc, pending, log, inbox, boot, contract, cardano, emitted>>
<1>1. nextId \in Nat /\ cur.utxo.version \in Nat
  BY RunningFacts, WorkerAssumption DEF Finish, Utxos, WorkerAssumption
<1>2. None \in Results /\ nextId \in Results /\ cur.utxo.version \in Results
  BY <1>1 DEF Results
<1>3. PICK x \in Results : Resolve(ok, x)
  BY <1>2 DEF Finish, ConstructUtxo, CallAsync, GetAsync, DropAsync
<1>4. Reply(cur.req.id, ok, IF ok THEN x ELSE None, events) /\ events' = <<>> /\ cur' = None
  BY <1>3, Zenon DEF Resolve, Drains
<1>5. (IF ok THEN x ELSE None) \in Results
  BY <1>2
<1> QED
  BY <1>4, <1>5 DEF Finish, proxyVars

\* The end of an operation keeps the invariant: its request goes from the
\* activation to the reply, and the events with it.
LEMMA FinishKeepsCore ==
  ASSUME CoreInv, NEW ok \in BOOLEAN, Finish(ok) PROVE CoreInv'
<1> USE DEF CoreInv
<1>1. /\ cur.req \in Requests /\ cur.req.id \in 0..MaxRpc /\ nextId \in Nat
      /\ cur.req.id < nextRpc /\ Borrowed /\ WellFormed(cur.req)
      /\ cur.req.op \in Mints \cup {"call", "storageGet", "drop"}
      /\ \A q \in ToSet(inbox) : q.id \in Nat /\ cur.req.id < q.id
  BY RunningFacts DEF Finish
<1>2. /\ events' = <<>> /\ cur' = None
      /\ UNCHANGED <<nextRpc, pending, log, inbox, boot, contract, cardano, emitted>>
  BY FinishedReply
<1>3. PICK x \in Results : Reply(cur.req.id, ok, x, events)
  BY FinishedReply
<1> DEFINE a == [id |-> cur.req.id, ok |-> ok, result |-> x, events |-> events]
<1>4. a \in Replies /\ outbox' = Append(outbox, a) /\ outbox \in Seq(Replies)
  BY <1>1, <1>3 DEF Replies, Reply, TypeInv, TypeOK
<1>5. a.id = cur.req.id /\ a.ok = ok /\ a.events = events /\ events \in Seq(Entries)
  BY DEF TypeInv, TypeOK
<1> HIDE DEF a
<1>6. outbox' \in Seq(Replies) /\ ToSet(outbox') = ToSet(outbox) \cup {a}
  BY <1>4, AppendFacts
<1>7. \A b \in ToSet(outbox) : b.id # cur.req.id
  BY <1>1 DEF PendingInv, Running
<1>8. IdsDiffer(outbox')
  <2>1. \A y, z : Follows(outbox', y, z) <=> Follows(outbox, y, z) \/ (y \in ToSet(outbox) /\ z = a)
    BY <1>4, AppendOrder
  <2>2. \A y, z : Follows(outbox, y, z) => y.id # z.id
    BY IdOrder DEF PendingInv
  <2>3. \A y, z : Follows(outbox', y, z) => y.id # z.id
    BY <1>5, <1>7, <2>1, <2>2
  <2> QED
    BY <2>3, IdOrder
<1>9. /\ nextId' \in Nat /\ nextId' <= cur.req.id /\ DOMAIN table' \subseteq 0..(nextId' - 1)
      /\ \A h \in DOMAIN table' : /\ table'[h] \in Utxos
                                  /\ Behind(table'[h].version) \/ table'[h].version <= cur.req.id
  BY FinishedTable
<1>10. nextId' \in Ids /\ 0..(nextId' - 1) \subseteq Ids
  <2>1. \A n \in Nat : \A k \in 0..MaxRpc : n <= k => n \in Ids /\ \A i \in 0..(n - 1) : i \in Ids
    BY WorkerAssumption DEF Ids, WorkerAssumption
  <2> QED
    BY <1>1, <1>9, <2>1
<1>11. ~Borrowed'
  BY <1>2 DEF Borrowed
<1>12. TypeInv'
  <2>1. \A b \in ToSet(outbox') : b.id \in 0..MaxRpc /\ b.ok \in BOOLEAN /\ b.events \in Seq(Entries)
    BY <1>1, <1>5, <1>6 DEF TypeInv, TypeOK
  <2>2. IsMap(table, Ids, Utxos)'
    BY <1>9, <1>10 DEF IsMap
  <2>3. events' \in Seq(Entries)
    BY <1>2
  <2> QED
    BY <1>2, <1>6, <1>10, <2>1, <2>2, <2>3 DEF TypeInv, TypeOK
<1>13. OrderInv'
  BY <1>2, <1>11 DEF OrderInv
<1>14. BoundInv'
  <2>1. nextRpc \in Nat /\ \A u \in Utxos : u.version \in Nat
    BY WorkerAssumption DEF TypeInv, TypeOK, Utxos, WorkerAssumption
  <2>2. \A n \in Nat : n <= cur.req.id \/ Behind(n) => Behind(n)'
    BY <1>1, <1>2, <1>11, <2>1 DEF Behind
  <2> QED
    BY <1>9, <2>1, <2>2 DEF BoundInv
<1>15. HandleInv'
  BY <1>9, <1>11 DEF HandleInv
<1>16. PendingInv'
  <2>1. Running = {cur.req} /\ Running' = {}
    BY <1>1, <1>11 DEF Running
  <2>2. cur.req \in pending
    BY <2>1 DEF PendingInv
  <2>3. \A q \in ToSet(inbox) : q.id # cur.req.id
    BY <1>1
  <2>4. /\ \A p \in pending' : p.id < nextRpc' /\ \A q \in pending' : p.id = q.id => p = q
        /\ ToSet(inbox') \cup Running' \subseteq pending'
    BY <1>2, <2>1 DEF PendingInv
  <2>5. \A p \in pending' : \/ p \in ToSet(inbox') \cup Running'
                            \/ \E b \in ToSet(outbox') : b.id = p.id
    BY <1>2, <1>5, <1>6, <2>1 DEF PendingInv
  <2>6. \A b \in ToSet(outbox') : /\ \E p \in pending' : b.id = p.id
                                  /\ \A q \in ToSet(inbox') \cup Running' : b.id # q.id
    BY <1>2, <1>5, <1>6, <2>1, <2>2, <2>3 DEF PendingInv
  <2> QED
    BY <1>8, <2>4, <2>5, <2>6 DEF PendingInv
<1>17. EventInv'
  <2>1. \A e \in ToSet(events) : IsEvent(e) /\ e.id = a.id
    BY <1>5 DEF EventInv
  <2>2. ToSet(events') = {}
    BY <1>2, EmptyFacts
  <2> QED
    BY <1>5, <1>6, <2>1, <2>2 DEF EventInv
<1>18. BeginInv'
  BY <1>1, <1>2, <1>11 DEF BeginInv
<1> QED
  BY <1>12, <1>13, <1>14, <1>15, <1>16, <1>17, <1>18

\* The worker keeps the invariant whatever the page does.
LEMMA WorkerStepKeepsCore == CoreInv /\ WorkerStep => CoreInv'
  BY OnMessageKeepsCore, EmitKeepsCore, DeclareKeepsCore, FinishKeepsCore DEF WorkerStep

-----------------------------------------------------------------------------
(* The worker with any client of the proxy.                                *)

\* What the page and the worker start from has the invariant.
LEMMA InitCore == Init => CoreInv
<1> SUFFICES ASSUME Init PROVE CoreInv
  OBVIOUS
<1> USE DEF Init
<1> DEFINE b == Request(Boot, 0)
<1>1. b \in Requests /\ WellFormed(b) /\ b.id = 0
  BY WorkerAssumption DEF Request, Boot, Requests, WellFormed, OfHandle, WorkerAssumption
<1>2. pending = {b} /\ inbox = <<b>> /\ outbox = <<>> /\ nextRpc = 1
  OBVIOUS
<1> HIDE DEF b
<1>3. inbox \in Seq(Requests) /\ ToSet(inbox) = {b} /\ IdsRise(inbox)
  BY <1>1, <1>2 DEF ToSet, IdsRise
<1>4. /\ ToSet(outbox) = {} /\ outbox \in Seq(Replies) /\ IdsDiffer(outbox)
      /\ ToSet(events) = {} /\ ~Borrowed /\ DOMAIN table = {}
  BY <1>2, EmptyFacts DEF IdsDiffer, Borrowed
<1>5. TypeInv
  <2>1. nextRpc \in 1..(MaxRpc + 1) /\ nextId \in Ids /\ emitted \in 0..MaxEvents
    BY <1>2, WorkerAssumption DEF Ids, WorkerAssumption
  <2>2. log \in Seq(Entries) /\ events \in Seq(Entries) /\ cur = None /\ pending \subseteq Requests
    BY <1>1, <1>2
  <2>3. IsMap(table, Ids, Utxos) /\ cardano \in Contexts
    BY <1>4, WorkerAssumption DEF IsMap, WorkerAssumption
  <2> QED
    BY <1>3, <1>4, <2>1, <2>2, <2>3 DEF TypeInv, TypeOK
<1>6. OrderInv /\ BeginInv /\ BoundInv /\ HandleInv
  BY <1>1, <1>2, <1>3, <1>4 DEF OrderInv, BeginInv, BoundInv, Behind, HandleInv
<1>7. PendingInv /\ EventInv
  BY <1>1, <1>2, <1>3, <1>4 DEF PendingInv, Running, EventInv
<1> QED
  BY <1>5, <1>6, <1>7 DEF CoreInv

\* What onmessage shows of a reply is made of entries.
LEMMA ShownFacts ==
  ASSUME TypeOK, NEW p, NEW a \in ToSet(outbox)
  PROVE  /\ Shown(p, a) \in Seq(Entries)
         /\ \A x : x \in ToSet(Shown(p, a)) <=>
              x \in ToSet(a.events) \/ (p.op = "call" /\ x = Entry("result", a.id, 0))
         /\ \A x, y : Follows(Shown(p, a), x, y) <=>
              \/ Follows(a.events, x, y)
              \/ p.op = "call" /\ x \in ToSet(a.events) /\ y = Entry("result", a.id, 0)
<1> DEFINE e == Entry("result", a.id, 0)
<1>1. a.events \in Seq(Entries) /\ a.id \in 0..MaxRpc
  BY DEF TypeOK
<1>2. e \in Entries
  BY <1>1, WorkerAssumption DEF Entry, Entries, WorkerAssumption
<1> HIDE DEF e
<1>3. CASE p.op = "call"
  <2>1. Shown(p, a) = Append(a.events, e)
    BY <1>1, <1>2, <1>3, AppendIsConcat DEF Shown, e
  <2>2. /\ Append(a.events, e) \in Seq(Entries)
        /\ \A x : x \in ToSet(Append(a.events, e)) <=> x \in ToSet(a.events) \/ x = e
        /\ \A x, y : Follows(Append(a.events, e), x, y) <=>
             Follows(a.events, x, y) \/ (x \in ToSet(a.events) /\ y = e)
    BY <1>1, <1>2, AppendFacts, AppendOrder
  <2>3. Shown(p, a) \in Seq(Entries)
    BY <2>1, <2>2
  <2>4. \A x : x \in ToSet(Shown(p, a)) <=> x \in ToSet(a.events) \/ x = e
    BY <2>1, <2>2, Zenon
  <2>5. \A x, y : Follows(Shown(p, a), x, y) <=> Follows(Append(a.events, e), x, y)
    BY <2>1, Zenon
  <2> QED
    BY <1>3, <2>2, <2>3, <2>4, <2>5 DEF e
<1>4. CASE p.op # "call"
  <2>1. Shown(p, a) = a.events
    BY <1>1, <1>4 DEF Shown
  <2>2. ToSet(Shown(p, a)) = ToSet(a.events)
    BY <2>1, Zenon
  <2>3. \A x, y : Follows(Shown(p, a), x, y) <=> Follows(a.events, x, y)
    BY <2>1, Zenon
  <2>4. Shown(p, a) \in Seq(Entries)
    BY <1>1, <2>1
  <2> QED
    BY <1>4, <2>2, <2>3, <2>4
<1> QED
  BY <1>3, <1>4

\* A client's request and a reply it reads keep the invariant.
LEMMA ClientKeepsCore ==
  ASSUME CoreInv, (\E p \in Payloads(0..nextId) : Ask(p)) \/ Receive
  PROVE  CoreInv'
<1>1. /\ nextRpc \in 1..(MaxRpc + 1) /\ 0..nextId \subseteq Ids /\ MaxRpc \in Nat
      /\ log \in Seq(Entries) /\ outbox \in Seq(Replies) /\ TypeOK
  BY WorkerAssumption DEF CoreInv, TypeInv, TypeOK, Ids, WorkerAssumption
<1>2. ASSUME NEW p \in Payloads(0..nextId), Ask(p) PROVE CoreInv'
  <2>1. p \in Payloads(Ids)
    BY <1>1 DEF Payloads
  <2>2. /\ <<p>> \in Seq(Payloads(Ids)) /\ Len(<<p>>) = 1 /\ DOMAIN <<p>> = 1..1
        /\ <<p>>[1] = p
    BY <2>1
  <2>3. p.op = "instantiate" => ~contract /\ \A r \in ToSet(inbox) : r.op # "instantiate"
    <3> SUFFICES ASSUME p.op = "instantiate"
                 PROVE  ~contract /\ \A r \in ToSet(inbox) : r.op # "instantiate"
      OBVIOUS
    <3>1. nextRpc = 1
      BY <1>2 DEF Ask
    <3>2. \A r \in ToSet(inbox) : r.id \in Nat /\ r.id < nextRpc /\ WellFormed(r)
      <4>1. ToSet(inbox) \subseteq Requests
        BY <1>1, ElementFacts DEF TypeOK
      <4> QED
        BY <4>1, WorkerAssumption DEF Requests, CoreInv, OrderInv, WorkerAssumption
    <3>3. \A r \in ToSet(inbox) : r.op = "boot"
      BY <3>1, <3>2 DEF WellFormed
    <3> QED
      BY <3>1, <3>3 DEF CoreInv, BeginInv
  <2>4. Postable(<<p>>)
    BY <1>1, <1>2, <2>2, <2>3 DEF Postable, Ask
  <2> QED
    BY <1>1, <1>2, <2>4, PageStep DEF Ask, Post
<1>3. ASSUME Receive PROVE CoreInv'
  <2>1. PICK p \in pending : Settle(p, Head(outbox), <<>>) /\ outbox # <<>>
    BY <1>3 DEF Receive
  <2>2. Postable(<<>>) /\ Len(<<>>) = 0
    BY <1>1 DEF Postable
  <2>3. Head(outbox) \in ToSet(outbox)
    BY <1>1, <2>1, TailFacts
  <2>4. log' \in Seq(Entries)
    BY <1>1, <2>1, <2>3, ShownFacts, ConcatFacts DEF Settle
  <2> QED
    BY <1>3, <2>1, <2>2, <2>4, PageStep DEF Receive, Settle, Settled
<1> QED
  BY <1>2, <1>3

\* Every step, and every stuttering step, keeps the invariant.
LEMMA NextKeepsCore == CoreInv /\ [Next]_vars => CoreInv'
<1> SUFFICES ASSUME CoreInv, [Next]_vars PROVE CoreInv'
  OBVIOUS
<1>1. CASE UNCHANGED vars
  BY <1>1 DEF vars, proxyVars, workerVars, contractVars, CoreInv, TypeInv, TypeOK, OrderInv, BeginInv, BoundInv,
              Behind, HandleInv, PendingInv, Running, Borrowed, EventInv
<1>2. CASE (\E p \in Payloads(0..nextId) : Ask(p)) \/ Receive
  BY <1>2, ClientKeepsCore
<1>3. CASE WorkerStep
  BY <1>3, WorkerStepKeepsCore
<1> QED
  BY <1>1, <1>2, <1>3 DEF Next

\* Requests and replies are where the invariant says in every reachable state.
THEOREM CoreInvariant == Spec => []CoreInv
<1>1. Init => CoreInv
  BY InitCore
<1>2. CoreInv /\ [Next]_vars => CoreInv'
  BY NextKeepsCore
<1> QED
  BY <1>1, <1>2, PTL DEF Spec

\* Every variable stays in its domain.
THEOREM WorkerTypeCorrect == Spec => []TypeOK
<1>1. CoreInv => TypeOK
  BY DEF CoreInv, TypeInv
<1> QED
  BY <1>1, CoreInvariant, PTL

IdsOf(s) == [i \in 1..Len(s) |-> s[i].id]

\* The numbers of a queue of messages, and their order.
LEMMA IdFacts ==
  ASSUME NEW S, NEW s \in Seq(S), \A e \in ToSet(s) : e.id \in Nat
  PROVE  /\ IdsOf(s) \in Seq(Nat)
         /\ \A x : x \in ToSet(IdsOf(s)) <=> \E e \in ToSet(s) : x = e.id
         /\ \A x, y : Follows(IdsOf(s), x, y) => \E d, e : Follows(s, d, e) /\ x = d.id /\ y = e.id
<1> DEFINE t == IdsOf(s)
<1>1. Len(s) \in Nat /\ DOMAIN s = 1..Len(s) /\ DOMAIN t = 1..Len(s)
  BY LenProperties DEF IdsOf
<1>2. \A i \in 1..Len(s) : t[i] = s[i].id /\ t[i] \in Nat /\ s[i] \in ToSet(s)
  BY <1>1 DEF ToSet, IdsOf
<1>3. t \in Seq(Nat)
  BY <1>1, <1>2 DEF IdsOf
<1> HIDE DEF t
<1>4. \A x : x \in ToSet(t) <=> \E e \in ToSet(s) : x = e.id
  <2>1. \A x : x \in ToSet(t) => \E e \in ToSet(s) : x = e.id
    BY <1>1, <1>2 DEF ToSet
  <2>2. \A e \in ToSet(s) : e.id \in ToSet(t)
    BY <1>1, <1>2 DEF ToSet
  <2> QED
    BY <2>1, <2>2
<1>5. ASSUME NEW x, NEW y, Follows(t, x, y)
      PROVE  \E d, e : Follows(s, d, e) /\ x = d.id /\ y = e.id
  <2>1. PICK i, j \in 1..Len(s) : i < j /\ t[i] = x /\ t[j] = y
    BY <1>1, <1>5 DEF Follows
  <2>2. Follows(s, s[i], s[j])
    BY <1>1, <2>1 DEF Follows
  <2> QED
    BY <1>2, <2>1, <2>2
<1> QED
  BY <1>3, <1>4, <1>5 DEF t

\* No request is lost, run twice or answered twice.
LEMMA CoreOneAnswer == CoreInv => OneAnswer
<1> SUFFICES ASSUME CoreInv PROVE OneAnswer
  OBVIOUS
<1> USE DEF CoreInv
<1> DEFINE a == IdsOf(inbox)
           b == IdsOf(outbox)
           c == IF Borrowed THEN <<cur.req.id>> ELSE <<>>
           ab == a \o b
<1>0. OneAnswer <=> IsInjective(ab \o c) /\ ToSet(ab \o c) = {p.id : p \in pending}
  BY DEF OneAnswer, IdsOf
<1>1. /\ inbox \in Seq(Requests) /\ outbox \in Seq(Replies)
      /\ \A r \in ToSet(inbox) : r.id \in Nat
      /\ \A r \in ToSet(outbox) : r.id \in Nat
  <2>1. ToSet(inbox) \subseteq Requests
    BY ElementFacts DEF TypeInv, TypeOK
  <2> QED
    BY <2>1, WorkerAssumption DEF TypeInv, TypeOK, Requests, WorkerAssumption
<1>2. /\ a \in Seq(Nat) /\ \A x : x \in ToSet(a) <=> \E e \in ToSet(inbox) : x = e.id
      /\ \A x, y : Follows(a, x, y) => \E d, e : Follows(inbox, d, e) /\ x = d.id /\ y = e.id
  BY <1>1, IdFacts
<1>3. /\ b \in Seq(Nat) /\ \A x : x \in ToSet(b) <=> \E e \in ToSet(outbox) : x = e.id
      /\ \A x, y : Follows(b, x, y) => \E d, e : Follows(outbox, d, e) /\ x = d.id /\ y = e.id
  BY <1>1, IdFacts
<1>4. /\ c \in Seq(Nat) /\ \A x : x \in ToSet(c) <=> \E e \in Running : x = e.id
      /\ \A x, y : ~Follows(c, x, y)
  <2>1. CASE Borrowed
    <3>1. cur.req.id \in Nat
      BY <2>1, RunningFacts, WorkerAssumption DEF WorkerAssumption
    <3>2. c = <<cur.req.id>>
      BY <2>1
    <3>3. c \in Seq(Nat) /\ ToSet(c) = {cur.req.id} /\ \A x, y : ~Follows(c, x, y)
      BY <3>1, <3>2 DEF ToSet, Follows
    <3> QED
      BY <2>1, <3>3 DEF Running
  <2>2. CASE ~Borrowed
    <3>1. c = <<>>
      BY <2>2
    <3>2. c \in Seq(Nat) /\ ToSet(c) = {} /\ \A x, y : ~Follows(c, x, y)
      BY <3>1 DEF ToSet, Follows
    <3> QED
      BY <2>2, <3>2 DEF Running
  <2> QED
    BY <2>1, <2>2
<1>5. /\ \A x, y : Follows(inbox, x, y) => x.id < y.id
      /\ \A x, y : Follows(outbox, x, y) => x.id # y.id
  BY IdOrder DEF OrderInv, PendingInv
<1>6. /\ \A r \in ToSet(inbox), s \in ToSet(outbox) : r.id # s.id
      /\ \A r \in ToSet(inbox), s \in Running : r.id # s.id
      /\ \A r \in ToSet(outbox), s \in Running : r.id # s.id
  <2>1. \A r \in ToSet(inbox), s \in Running : r.id # s.id
    BY <1>1, RunningFacts DEF Running
  <2> QED
    BY <2>1 DEF PendingInv
<1>7. \A x, y : Follows(a, x, y) => x # y
  <2> SUFFICES ASSUME NEW x, NEW y, Follows(a, x, y) PROVE x # y
    OBVIOUS
  <2>1. PICK d, e : Follows(inbox, d, e) /\ x = d.id /\ y = e.id
    BY <1>2
  <2>2. d \in ToSet(inbox) /\ e \in ToSet(inbox)
    BY <2>1 DEF Follows, ToSet
  <2> QED
    BY <1>1, <1>5, <2>1, <2>2
<1>8. \A x, y : Follows(b, x, y) => x # y
  BY <1>3, <1>5
<1>9. /\ ab \in Seq(Nat) /\ ToSet(ab) = ToSet(a) \cup ToSet(b)
       /\ \A x, y : Follows(ab, x, y) <=>
            Follows(a, x, y) \/ Follows(b, x, y) \/ (x \in ToSet(a) /\ y \in ToSet(b))
  BY <1>2, <1>3, ConcatFacts
<1> HIDE DEF c, ab
<1>10. /\ ab \o c \in Seq(Nat) /\ ToSet(ab \o c) = ToSet(ab) \cup ToSet(c)
       /\ \A x, y : Follows(ab \o c, x, y) <=>
            Follows(ab, x, y) \/ Follows(c, x, y) \/ (x \in ToSet(ab) /\ y \in ToSet(c))
  BY <1>4, <1>9, ConcatFacts
<1>11. IsInjective(ab \o c)
  <2>1. \A x \in ToSet(a), y \in ToSet(b) : x # y
    BY <1>2, <1>3, <1>6
  <2>2. \A x \in ToSet(a) \cup ToSet(b), y \in ToSet(c) : x # y
    BY <1>2, <1>3, <1>4, <1>6
  <2>3. \A x, y : Follows(ab, x, y) => x # y
    BY <1>7, <1>8, <1>9, <2>1
  <2>4. \A x, y : Follows(ab \o c, x, y) => x # y
    BY <1>4, <1>9, <1>10, <2>2, <2>3
  <2> QED
    BY <1>10, <2>4, DistinctByOrder
<1>12. ToSet(ab \o c) = {p.id : p \in pending}
  <2>1. ToSet(ab \o c) = ToSet(a) \cup ToSet(b) \cup ToSet(c)
    BY <1>9, <1>10
  <2>2. ASSUME NEW x \in ToSet(a) \cup ToSet(b) \cup ToSet(c) PROVE \E p \in pending : x = p.id
    BY <1>2, <1>3, <1>4 DEF PendingInv
  <2>3. ASSUME NEW p \in pending PROVE p.id \in ToSet(a) \cup ToSet(b) \cup ToSet(c)
    BY <1>2, <1>3, <1>4 DEF PendingInv
  <2> QED
    BY <2>1, <2>2, <2>3
<1> QED
  BY <1>0, <1>11, <1>12

\* Every request the page waits on is in exactly one place.
THEOREM AnsweredExactlyOnce == Spec => []OneAnswer
  BY CoreInvariant, CoreOneAnswer, PTL

-----------------------------------------------------------------------------
(* The log.                                                                *)

\* EventsWithTheirOp by which element follows which.
TheirOpByOrder ==
  EventsWithTheirOp <=>
    /\ \A a \in ToSet(outbox) : \A e \in ToSet(a.events) : e.id = a.id
    /\ \A x, y : Follows(log, x, y) => (x.kind = "result" /\ IsEvent(y) => x.id # y.id)

\* The two forms of EventsWithTheirOp say the same of sequences.
LEMMA TheirOp == TypeInv => TheirOpByOrder
<1> SUFFICES ASSUME TypeInv PROVE TheirOpByOrder
  OBVIOUS
<1>1. DOMAIN outbox = 1..Len(outbox) /\ DOMAIN log = 1..Len(log)
  BY LenProperties DEF TypeInv, TypeOK
<1>2. (\A i \in 1..Len(outbox) : \A e \in ToSet(outbox[i].events) : e.id = outbox[i].id)
        <=> \A a \in ToSet(outbox) : \A e \in ToSet(a.events) : e.id = a.id
  <2>1. \A a : a \in ToSet(outbox) <=> \E i \in 1..Len(outbox) : a = outbox[i]
    BY <1>1 DEF ToSet
  <2> DEFINE P(a) == \A e \in ToSet(a.events) : e.id = a.id
  <2>2. (\A i \in 1..Len(outbox) : P(outbox[i])) <=> \A a \in ToSet(outbox) : P(a)
    <3> HIDE DEF P
    <3> QED
      BY <2>1
  <2> QED
    BY <2>2
<1>3. (\A i, j \in 1..Len(log) :
         i < j /\ log[i].kind = "result" /\ IsEvent(log[j]) => log[i].id # log[j].id)
        <=> \A x, y : Follows(log, x, y) => (x.kind = "result" /\ IsEvent(y) => x.id # y.id)
  BY <1>1 DEF Follows
<1> QED
  BY <1>2, <1>3 DEF TheirOpByOrder, EventsWithTheirOp

\* So they do after a step.
LEMMA TheirOpNext == (TypeInv => TheirOpByOrder)'
  BY TheirOp, PTL

\* What the worker does leaves the log as it was, and every reply carries the
\* events of its own operation only.
LEMMA WorkerKeepsLog ==
  ASSUME CoreInv, CoreInv', LogInv, UNCHANGED <<log, pending, nextRpc>>
  PROVE  LogInv'
<1>1. TypeInv /\ TypeInv' /\ EventInv'
  BY DEF CoreInv
<1>2. TheirOpByOrder /\ TheirOpByOrder'
  BY <1>1, TheirOp, TheirOpNext
<1>3. EventsWithTheirOp'
  BY <1>1, <1>2 DEF LogInv, TheirOpByOrder, EventInv
<1> QED
  BY <1>3 DEF LogInv

\* A request is not yet in the log.
LEMMA AskKeepsLog ==
  ASSUME CoreInv, CoreInv', LogInv, NEW p \in Payloads(0..nextId), Ask(p)
  PROVE  LogInv'
<1>1. TypeInv /\ TypeInv' /\ EventInv'
  BY DEF CoreInv
<1>2. TheirOpByOrder /\ TheirOpByOrder'
  BY <1>1, TheirOp, TheirOpNext
<1>3. EventsWithTheirOp'
  BY <1>1, <1>2 DEF LogInv, TheirOpByOrder, EventInv, Ask
<1>4. /\ <<p>> \in Seq({p}) /\ Len(<<p>>) = 1 /\ nextRpc \in Nat /\ nextRpc' = nextRpc + 1
      /\ log \in Seq(Entries)
  BY <1>1 DEF TypeInv, TypeOK, Ask, Post
<1>5. \A q \in pending' : q \in pending \/ q.id = nextRpc
  <2>1. Numbered(<<p>>) = [i \in 1..1 |-> Request(<<p>>[i], nextRpc + i - 1)]
    BY <1>4 DEF Numbered
  <2>2. \A q \in ToSet(Numbered(<<p>>)) : q.id = nextRpc
    BY <1>4, <2>1 DEF ToSet, Request
  <2> QED
    BY <2>2 DEF Ask, Post
<1>6. \A e \in ToSet(log) : e.id \in Nat
  <2>1. ToSet(log) \subseteq Entries
    BY <1>4, ElementFacts
  <2> QED
    BY <2>1, WorkerAssumption DEF Entries, WorkerAssumption
<1>7. log' = log
  BY DEF Ask
<1> QED
  BY <1>3, <1>4, <1>5, <1>6, <1>7 DEF LogInv

\* The reply that settles a request is the last that is shown of it.
LEMMA ReceiveKeepsLog ==
  ASSUME CoreInv, CoreInv', LogInv, Receive
  PROVE  LogInv'
<1>1. TypeInv /\ TypeInv' /\ EventInv' /\ TypeOK
  BY DEF CoreInv, TypeInv
<1>2. TheirOpByOrder /\ TheirOpByOrder'
  BY <1>1, TheirOp, TheirOpNext
<1>3. PICK p \in pending : Settle(p, Head(outbox), <<>>) /\ outbox # <<>>
  BY DEF Receive
<1>4. PICK a \in ToSet(outbox) : a = Head(outbox) /\ p.id = a.id
  BY <1>1, <1>3, TailFacts DEF TypeInv, Settle
<1>5. /\ Shown(p, a) \in Seq(Entries)
      /\ \A x : x \in ToSet(Shown(p, a)) <=>
           x \in ToSet(a.events) \/ (p.op = "call" /\ x = Entry("result", a.id, 0))
      /\ \A x, y : Follows(Shown(p, a), x, y) <=>
           \/ Follows(a.events, x, y)
           \/ p.op = "call" /\ x \in ToSet(a.events) /\ y = Entry("result", a.id, 0)
  BY <1>1, ShownFacts
<1>6. /\ ToSet(log') = ToSet(log) \cup ToSet(Shown(p, a))
      /\ \A x, y : Follows(log', x, y) <=>
           \/ Follows(log, x, y) \/ Follows(Shown(p, a), x, y)
           \/ x \in ToSet(log) /\ y \in ToSet(Shown(p, a))
  BY <1>1, <1>3, <1>4, <1>5, ConcatFacts DEF Settle, TypeOK
<1>7. \A e \in ToSet(a.events) : IsEvent(e) /\ e.id = p.id /\ e.kind # "result"
  BY <1>4 DEF CoreInv, EventInv, IsEvent
<1> DEFINE z == Entry("result", a.id, 0)
<1>8. z.id = p.id /\ ~IsEvent(z)
  BY <1>4 DEF Entry, IsEvent
<1> HIDE DEF z
<1>9. \A x \in ToSet(Shown(p, a)) : x.id = p.id
  BY <1>5, <1>7, <1>8 DEF z
<1>10. pending' = pending \ {p} /\ nextRpc' = nextRpc
  <2>1. ToSet(Numbered(<<>>)) = {}
    BY DEF Numbered, ToSet
  <2> QED
    BY <1>1, <1>3, <2>1 DEF Settle, Settled, TypeOK
<1>11. p.id < nextRpc /\ \A q \in pending' : q.id # p.id
  BY <1>10 DEF CoreInv, PendingInv
<1>12. \A e \in ToSet(log') : e.id < nextRpc' /\ (~IsEvent(e) => \A q \in pending' : q.id # e.id)
  BY <1>6, <1>9, <1>10, <1>11 DEF LogInv
<1>13. \A x, y : Follows(log', x, y) => (x.kind = "result" /\ IsEvent(y) => x.id # y.id)
  <2> SUFFICES ASSUME NEW x, NEW y, Follows(log', x, y), x.kind = "result", IsEvent(y)
               PROVE  x.id # y.id
    OBVIOUS
  <2>1. CASE Follows(log, x, y)
    BY <1>2, <2>1 DEF LogInv, TheirOpByOrder
  <2>2. CASE Follows(Shown(p, a), x, y)
    <3>1. x \in ToSet(a.events)
      <4>1. Follows(a.events, x, y) => x \in ToSet(a.events)
        BY DEF Follows, ToSet
      <4> QED
        BY <1>5, <2>2, <4>1
    <3> QED
      BY <1>7, <3>1
  <2>3. CASE x \in ToSet(log) /\ y \in ToSet(Shown(p, a))
    <3>1. ~IsEvent(x)
      BY DEF IsEvent
    <3>2. x.id # p.id
      BY <2>3, <3>1 DEF LogInv
    <3> QED
      BY <1>9, <2>3, <3>2
  <2> QED
    BY <1>6, <2>1, <2>2, <2>3
<1>14. EventsWithTheirOp'
  BY <1>1, <1>2, <1>13 DEF TheirOpByOrder, EventInv
<1> QED
  BY <1>12, <1>14 DEF LogInv

-----------------------------------------------------------------------------
(* The events, exactly once.                                               *)

\* EventsExactlyOnce by which reply follows which.
ExactByOrder ==
  EventsExactlyOnce <=>
    /\ InOrder(log) /\ InOrder(events) /\ Before(log, events)
    /\ \A a \in ToSet(outbox) :
         InOrder(a.events) /\ Before(log, a.events) /\ Before(a.events, events)
    /\ \A x, y : Follows(outbox, x, y) => Before(x.events, y.events)
    /\ \A n : n \in 1..emitted <=>
         \/ n \in Numbers(log) \/ n \in Numbers(events)
         \/ \E a \in ToSet(outbox) : n \in Numbers(a.events)

\* The two forms of EventsExactlyOnce say the same.
LEMMA Exact == ExactByOrder
<1>1. \A a : a \in ToSet(outbox) <=> \E i \in DOMAIN outbox : a = outbox[i]
  BY DEF ToSet
<1> DEFINE Q(a) == InOrder(a.events) /\ Before(log, a.events) /\ Before(a.events, events)
<1>2. (\A i \in DOMAIN outbox : Q(outbox[i])) <=> \A a \in ToSet(outbox) : Q(a)
  <2> HIDE DEF Q
  <2> QED
    BY <1>1
<1>3. (\A i, j \in DOMAIN outbox : i < j => Before(outbox[i].events, outbox[j].events))
        <=> \A x, y : Follows(outbox, x, y) => Before(x.events, y.events)
  BY DEF Follows
<1>4. 1..emitted = UNION {Numbers(s) : s \in {log, events} \cup {a.events : a \in ToSet(outbox)}}
        <=> \A n : n \in 1..emitted <=>
              \/ n \in Numbers(log) \/ n \in Numbers(events)
              \/ \E a \in ToSet(outbox) : n \in Numbers(a.events)
  OBVIOUS
<1> QED
  BY <1>2, <1>3, <1>4 DEF ExactByOrder, EventsExactlyOnce

\* So they do after a step.
LEMMA ExactNext == ExactByOrder'
  BY Exact, PTL

\* Two runs of entries put together are in order when each is and the events
\* of the first come before those of the second.
LEMMA JoinedInOrder ==
  ASSUME NEW S, NEW s \in Seq(S), NEW t \in Seq(S)
  PROVE  /\ Events(s \o t) = Events(s) \cup Events(t)
         /\ InOrder(s \o t) <=> InOrder(s) /\ InOrder(t) /\ Before(s, t)
<1>1. /\ ToSet(s \o t) = ToSet(s) \cup ToSet(t)
      /\ \A x, y : Follows(s \o t, x, y) <=>
           Follows(s, x, y) \/ Follows(t, x, y) \/ (x \in ToSet(s) /\ y \in ToSet(t))
  BY ConcatFacts
<1>2. \A r : InOrder(r) <=> \A x, y : Follows(r, x, y) /\ IsEvent(x) /\ IsEvent(y) => x.n < y.n
  BY DEF InOrder, Follows
<1>3. Before(s, t) <=>
        \A x \in ToSet(s), y \in ToSet(t) : IsEvent(x) /\ IsEvent(y) => x.n < y.n
  BY DEF Before, Events
<1>4. Events(s \o t) = Events(s) \cup Events(t)
  BY <1>1 DEF Events
<1>5. InOrder(s \o t) <=> InOrder(s) /\ InOrder(t) /\ Before(s, t)
  <2>1. InOrder(s \o t) <=>
          \A x, y : Follows(s \o t, x, y) /\ IsEvent(x) /\ IsEvent(y) => x.n < y.n
    BY <1>2
  <2>2. InOrder(s) <=> \A x, y : Follows(s, x, y) /\ IsEvent(x) /\ IsEvent(y) => x.n < y.n
    BY <1>2
  <2>3. InOrder(t) <=> \A x, y : Follows(t, x, y) /\ IsEvent(x) /\ IsEvent(y) => x.n < y.n
    BY <1>2
  <2> QED
    BY <1>1, <1>3, <2>1, <2>2, <2>3
<1> QED
  BY <1>4, <1>5

\* No events are in order.
LEMMA NoEvents == Events(<<>>) = {} /\ Numbers(<<>>) = {} /\ InOrder(<<>>)
  BY EmptyFacts DEF Events, Numbers, InOrder

\* A reply without events leaves the account of the events as it was.
LEMMA AnswerKeepsExact ==
  ASSUME TypeInv, EventsExactlyOnce, NEW a \in Replies, a.events = <<>>,
         outbox' = Append(outbox, a), UNCHANGED <<log, events, emitted>>
  PROVE  EventsExactlyOnce'
<1>1. /\ ToSet(outbox') = ToSet(outbox) \cup {a}
      /\ \A x, y : Follows(outbox', x, y) <=> Follows(outbox, x, y) \/ (x \in ToSet(outbox) /\ y = a)
  BY AppendFacts, AppendOrder DEF TypeInv
<1>2. Events(a.events) = {} /\ Numbers(a.events) = {} /\ InOrder(a.events)
  BY NoEvents
<1>3. \A s : Before(s, a.events) /\ Before(a.events, s)
  BY <1>2 DEF Before
<1> QED
  BY <1>1, <1>2, <1>3, Exact, ExactNext DEF ExactByOrder

\* The events of the buffer are accounted for in the reply that takes them.
LEMMA FinishKeepsExact ==
  ASSUME TypeInv, EventsExactlyOnce, NEW a \in Replies, a.events = events,
         outbox' = Append(outbox, a), events' = <<>>, UNCHANGED <<log, emitted>>
  PROVE  EventsExactlyOnce'
<1>1. /\ ToSet(outbox') = ToSet(outbox) \cup {a}
      /\ \A x, y : Follows(outbox', x, y) <=> Follows(outbox, x, y) \/ (x \in ToSet(outbox) /\ y = a)
  BY AppendFacts, AppendOrder DEF TypeInv
<1>2. Numbers(events') = {} /\ InOrder(events') /\ \A s : Before(s, events')
  BY NoEvents DEF Before
<1>3. \A b \in ToSet(outbox') : InOrder(b.events) /\ Before(log, b.events)
  BY <1>1, Exact DEF ExactByOrder
<1>4. \A x, y : Follows(outbox', x, y) => Before(x.events, y.events)
  BY <1>1, Exact DEF ExactByOrder
<1>5. \A n : n \in 1..emitted <=>
        n \in Numbers(log) \/ n \in Numbers(events') \/ \E b \in ToSet(outbox') : n \in Numbers(b.events)
  BY <1>1, <1>2, Exact DEF ExactByOrder
<1>6. InOrder(log)
  BY Exact DEF ExactByOrder
<1> QED
  BY <1>2, <1>3, <1>4, <1>5, <1>6, ExactNext DEF ExactByOrder

\* An event that is emitted is the next.
LEMMA EmitKeepsExact ==
  ASSUME TypeInv, EventsExactlyOnce, EmitEvent PROVE EventsExactlyOnce'
<1> DEFINE e == Entry("event", cur.req.id, emitted + 1)
<1>1. /\ events' = Append(events, e) /\ emitted' = emitted + 1 /\ emitted \in Nat
      /\ UNCHANGED <<log, outbox>> /\ IsEvent(e) /\ e.n = emitted + 1
  BY WorkerAssumption DEF EmitEvent, proxyVars, Entry, IsEvent, TypeInv, TypeOK, WorkerAssumption
<1>2. PICK S : events \in Seq(S) /\ <<e>> \in Seq(S)
  <2>1. events \in Seq(Entries \cup {e}) /\ <<e>> \in Seq(Entries \cup {e})
    BY DEF TypeInv, TypeOK
  <2> QED
    BY <2>1
<1>3. events' = events \o <<e>>
  BY <1>1 DEF TypeInv, TypeOK
<1>4. Events(<<e>>) = {e} /\ InOrder(<<e>>)
  <2>1. ToSet(<<e>>) = {e}
    BY DEF ToSet
  <2> QED
    BY <1>1, <2>1 DEF Events, InOrder
<1> HIDE DEF e
<1>5. Events(events') = Events(events) \cup {e} /\ (InOrder(events) /\ Before(events, <<e>>) => InOrder(events'))
  <2>1. /\ Events(events \o <<e>>) = Events(events) \cup Events(<<e>>)
        /\ InOrder(events \o <<e>>) <=> InOrder(events) /\ InOrder(<<e>>) /\ Before(events, <<e>>)
    BY <1>2, JoinedInOrder
  <2>2. Events(events') = Events(events \o <<e>>) /\ (InOrder(events') <=> InOrder(events \o <<e>>))
    BY <1>3, Zenon
  <2> QED
    BY <1>4, <2>1, <2>2
<1>6. Numbers(events') = Numbers(events) \cup {emitted + 1}
  BY <1>1, <1>5 DEF Numbers
<1>7. ASSUME NEW s, \A n \in Numbers(s) : n \in 1..emitted
      PROVE  /\ Before(s, <<e>>)
             /\ Before(s, events) => Before(s, events')
  <2>1. \A d \in Events(s) : d.n \in 1..emitted
    BY <1>7 DEF Numbers
  <2>2. \A d \in Events(s) : d.n < e.n
    BY <1>1, <2>1
  <2> QED
    BY <1>4, <1>5, <2>2 DEF Before
<1>8. /\ \A n \in Numbers(log) : n \in 1..emitted
      /\ \A n \in Numbers(events) : n \in 1..emitted
      /\ \A a \in ToSet(outbox) : \A n \in Numbers(a.events) : n \in 1..emitted
  BY Exact DEF ExactByOrder
<1>9. InOrder(events') /\ Before(log, events') /\ \A a \in ToSet(outbox) : Before(a.events, events')
  BY <1>5, <1>7, <1>8, Exact DEF ExactByOrder
<1>10. \A n : n \in 1..emitted' <=> n \in 1..emitted \/ n = emitted + 1
  BY <1>1
<1>11. \A n : n \in 1..emitted' <=>
         n \in Numbers(log) \/ n \in Numbers(events') \/ \E a \in ToSet(outbox) : n \in Numbers(a.events)
  BY <1>6, <1>10, Exact DEF ExactByOrder
<1> QED
  BY <1>1, <1>9, <1>11, Exact, ExactNext DEF ExactByOrder

\* The events of the oldest reply go to the end of the log.
LEMMA ReceiveKeepsExact ==
  ASSUME TypeInv, EventsExactlyOnce, Receive PROVE EventsExactlyOnce'
<1>1. PICK p \in pending : Settle(p, Head(outbox), <<>>) /\ outbox # <<>>
  BY DEF Receive
<1>2. PICK a \in ToSet(outbox) : a = Head(outbox)
  BY <1>1, TailFacts DEF TypeInv
<1>3. /\ ToSet(outbox) = {a} \cup ToSet(outbox')
      /\ \A x, y : Follows(outbox, x, y) <=> Follows(outbox', x, y) \/ (x = a /\ y \in ToSet(outbox'))
  BY <1>1, <1>2, TailFacts, TailOrder DEF TypeInv, Settle
<1>4. log' = log \o Shown(p, a) /\ UNCHANGED <<events, emitted>>
  BY <1>1, <1>2 DEF Receive, Settle, workerVars
<1> DEFINE z == Entry("result", a.id, 0)
<1>5. /\ Shown(p, a) \in Seq(Entries)
      /\ \A x : x \in ToSet(Shown(p, a)) <=> x \in ToSet(a.events) \/ (p.op = "call" /\ x = z)
      /\ \A x, y : Follows(Shown(p, a), x, y) <=>
           Follows(a.events, x, y) \/ (p.op = "call" /\ x \in ToSet(a.events) /\ y = z)
  BY ShownFacts DEF TypeInv
<1>6. ~IsEvent(z)
  BY DEF Entry, IsEvent
<1> HIDE DEF z
<1>7. Events(Shown(p, a)) = Events(a.events)
  BY <1>5, <1>6 DEF Events
<1>8. InOrder(Shown(p, a)) <=> InOrder(a.events)
  <2>1. \A r : InOrder(r) <=> \A x, y : Follows(r, x, y) => (IsEvent(x) /\ IsEvent(y) => x.n < y.n)
    BY DEF InOrder, Follows
  <2>2. InOrder(a.events) <=>
          \A x, y : Follows(a.events, x, y) => (IsEvent(x) /\ IsEvent(y) => x.n < y.n)
    BY <2>1
  <2>3. InOrder(Shown(p, a)) <=>
          \A x, y : Follows(Shown(p, a), x, y) => (IsEvent(x) /\ IsEvent(y) => x.n < y.n)
    BY <2>1
  <2> QED
    BY <1>5, <1>6, <2>2, <2>3
<1>9. /\ Events(log \o Shown(p, a)) = Events(log) \cup Events(Shown(p, a))
      /\ InOrder(log \o Shown(p, a)) <=>
           InOrder(log) /\ InOrder(Shown(p, a)) /\ Before(log, Shown(p, a))
  BY <1>5, JoinedInOrder DEF TypeInv, TypeOK
<1>10. Events(log') = Events(log) \cup Events(a.events)
  BY <1>4, <1>7, <1>9, Zenon
<1>11. InOrder(log') <=> InOrder(log) /\ InOrder(a.events) /\ Before(log, a.events)
  <2>1. Before(log, Shown(p, a)) <=> Before(log, a.events)
    BY <1>7 DEF Before
  <2>2. InOrder(log') <=> InOrder(log \o Shown(p, a))
    BY <1>4, Zenon
  <2> QED
    BY <1>8, <1>9, <2>1, <2>2
<1>12. \A s : Before(log', s) <=> Before(log, s) /\ Before(a.events, s)
  BY <1>10 DEF Before
<1>13. Numbers(log') = Numbers(log) \cup Numbers(a.events)
  BY <1>10 DEF Numbers
<1>14. InOrder(log') /\ InOrder(events') /\ Before(log', events')
  BY <1>2, <1>4, <1>11, <1>12, Exact DEF ExactByOrder
<1>15. \A b \in ToSet(outbox') :
         InOrder(b.events) /\ Before(log', b.events) /\ Before(b.events, events')
  BY <1>3, <1>4, <1>12, Exact DEF ExactByOrder
<1>16. \A x, y : Follows(outbox', x, y) => Before(x.events, y.events)
  BY <1>3, Exact DEF ExactByOrder
<1>17. \A n : n \in 1..emitted' <=>
         n \in Numbers(log') \/ n \in Numbers(events') \/ \E b \in ToSet(outbox') : n \in Numbers(b.events)
  BY <1>3, <1>4, <1>13, Exact DEF ExactByOrder
<1> QED
  BY <1>14, <1>15, <1>16, <1>17, ExactNext DEF ExactByOrder

\* Every step of the worker and of the client accounts for the events.
LEMMA NextKeepsAccount ==
  WorkerInv /\ CoreInv' /\ [Next]_vars => LogInv' /\ EventsExactlyOnce'
<1> SUFFICES ASSUME WorkerInv, CoreInv', [Next]_vars PROVE LogInv' /\ EventsExactlyOnce'
  OBVIOUS
<1> USE DEF WorkerInv
<1>1. TypeInv
  BY DEF CoreInv
<1>2. CASE UNCHANGED vars
  BY <1>2, Exact, ExactNext DEF vars, proxyVars, workerVars, LogInv, EventsWithTheirOp, ExactByOrder
<1>3. ASSUME NEW p \in Payloads(0..nextId), Ask(p) PROVE LogInv' /\ EventsExactlyOnce'
  <2>1. UNCHANGED <<log, outbox, events, emitted>>
    BY <1>3 DEF Ask, workerVars
  <2> QED
    BY <1>3, <2>1, AskKeepsLog, Exact, ExactNext DEF ExactByOrder
<1>4. CASE Receive
  BY <1>1, <1>4, ReceiveKeepsLog, ReceiveKeepsExact
<1>5. CASE OnMessage
  <2> DEFINE r == Head(inbox)
  <2>1. Taken(r)
    BY <1>5 DEF OnMessage, Taken
  <2>2. \/ BootRuntime(r) \/ Refuse(r) \/ Instantiate(r) \/ Describe(r)
        \/ ImplementedMethods(r) \/ SetCardano(r)
        \/ New(r) \/ LoadUtxo(r) \/ CallMethod(r) \/ StorageGet(r) \/ DropResource(r)
    BY <1>5 DEF OnMessage
  <2> HIDE DEF r
  <2>3. LogInv'
    BY <2>1, TakenFacts, WorkerKeepsLog
  <2>4. CASE \/ BootRuntime(r) \/ Refuse(r) \/ Instantiate(r) \/ Describe(r)
             \/ ImplementedMethods(r) \/ SetCardano(r)
    <3>1. PICK ok \in BOOLEAN, x \in Results : Reply(r.id, ok, x, <<>>)
      BY <2>1, <2>4, AnswersCarryNone
    <3>2. PICK a : a = [id |-> r.id, ok |-> ok, result |-> x, events |-> <<>>]
      OBVIOUS
    <3>3. a \in Replies /\ a.events = <<>> /\ outbox' = Append(outbox, a)
      BY <2>1, <3>1, <3>2, TakenFacts DEF Reply, Replies
    <3>4. UNCHANGED <<log, events, emitted>>
      BY <2>1, <2>4, AnswersCarryNone, TakenFacts
    <3> QED
      BY <1>1, <2>3, <3>3, <3>4, AnswerKeepsExact
  <2>5. CASE New(r) \/ LoadUtxo(r) \/ CallMethod(r) \/ StorageGet(r) \/ DropResource(r)
    <3>1. UNCHANGED <<log, outbox, events, emitted>>
      BY <2>1, <2>5, TakenFacts DEF New, LoadUtxo, CallMethod, StorageGet, DropResource, Start
    <3> QED
      BY <2>3, <3>1, Exact, ExactNext DEF ExactByOrder
  <2> QED
    BY <2>2, <2>4, <2>5
<1>6. CASE EmitEvent
  <2>1. UNCHANGED <<log, pending, nextRpc>>
    BY <1>6 DEF EmitEvent, proxyVars
  <2> QED
    BY <1>1, <1>6, <2>1, WorkerKeepsLog, EmitKeepsExact
<1>7. ASSUME NEW m \in Methods, ImplementsMethod(m) PROVE LogInv' /\ EventsExactlyOnce'
  <2>1. UNCHANGED <<log, pending, nextRpc, outbox, events, emitted>>
    BY <1>7 DEF ImplementsMethod, proxyVars
  <2> QED
    BY <2>1, WorkerKeepsLog, Exact, ExactNext DEF ExactByOrder
<1>8. ASSUME NEW ok \in BOOLEAN, Finish(ok) PROVE LogInv' /\ EventsExactlyOnce'
  <2>1. UNCHANGED <<log, pending, nextRpc, emitted>> /\ events' = <<>>
    BY <1>8, FinishedReply
  <2>2. PICK x \in Results : Reply(cur.req.id, ok, x, events)
    BY <1>8, FinishedReply
  <2>3. PICK a : a = [id |-> cur.req.id, ok |-> ok, result |-> x, events |-> events]
    OBVIOUS
  <2>4. a \in Replies /\ a.events = events /\ outbox' = Append(outbox, a)
    BY <1>1, <1>8, <2>2, <2>3, RunningFacts DEF Reply, Replies, TypeInv, TypeOK, Finish
  <2> QED
    BY <1>1, <2>1, <2>4, WorkerKeepsLog, FinishKeepsExact
<1> QED
  BY <1>2, <1>3, <1>4, <1>5, <1>6, <1>7, <1>8 DEF Next, WorkerStep

\* The whole invariant of the worker with any client of its proxy.
THEOREM WorkerInvariant == Spec => []WorkerInv
<1>1. Init => WorkerInv
  <2> SUFFICES ASSUME Init PROVE WorkerInv
    OBVIOUS
  <2>1. CoreInv
    BY InitCore
  <2>2. /\ log = <<>> /\ outbox = <<>> /\ events = <<>> /\ emitted = 0
        /\ ToSet(log) = {} /\ ToSet(outbox) = {}
    BY EmptyFacts DEF Init
  <2>3. LogInv
    BY <2>2 DEF LogInv, EventsWithTheirOp
  <2>4. InOrder(log) /\ Numbers(log) = {} /\ InOrder(events) /\ Numbers(events) = {} /\ Before(log, events)
    BY <2>2, NoEvents DEF Before
  <2>5. EventsExactlyOnce
    BY <2>2, <2>4, Exact DEF ExactByOrder, Follows
  <2> QED
    BY <2>1, <2>3, <2>5 DEF WorkerInv
<1>2. WorkerInv /\ [Next]_vars => WorkerInv'
  BY NextKeepsCore, NextKeepsAccount DEF WorkerInv
<1> QED
  BY <1>1, <1>2, PTL DEF Spec

\* The events the guest emits reach the log once each and in emission order.
THEOREM LoggedExactlyOnce == Spec => []EventsExactlyOnce
<1>1. WorkerInv => EventsExactlyOnce
  BY DEF WorkerInv
<1> QED
  BY <1>1, WorkerInvariant, PTL

\* A reply carries its own operation's events, and a result is shown after them.
THEOREM EventsBeforeResult == Spec => []EventsWithTheirOp
<1>1. WorkerInv => EventsWithTheirOp
  BY DEF WorkerInv, LogInv
<1> QED
  BY <1>1, WorkerInvariant, PTL

-----------------------------------------------------------------------------
(* WebWorker implements UtxoLedger: each of its steps is one step of the   *)
(* ledger or leaves it as it was, under the mapping of WebWorker's         *)
(* instance Ledger.                                                        *)

(* The mapping, by name.                                                   *)
Open == ToSet(inbox) \cup IF Borrowed /\ cur.req.op # "drop" THEN {cur.req} ELSE {}
Closing == IF Borrowed /\ cur.req.op = "drop" THEN {cur.req} ELSE {}
Used == 0..(nextId - 1)
Given(a) == [id |-> a.id, ok |-> a.ok, result |-> a.result]
Answers == {Given(a) : a \in ToSet(outbox)}
AnswerTo(r, ok, x) == [id |-> r.id, ok |-> ok, result |-> x]
Mapped == <<Open, Closing, table, Used, cardano, Answers>>

\* What is left alone in the worker is left alone in the ledger.
LEMMA Stutter == UNCHANGED Mapped => UNCHANGED Ledger!lvars
  BY DEF Mapped, Open, Closing, Used, Answers, Given, Ledger!lvars

\* A request that is refused.
LEMMA RefuseMaps ==
  ASSUME NEW r \in Open, Open' = Open \ {r}, Answers' = Answers \cup {AnswerTo(r, FALSE, None)},
         UNCHANGED <<Closing, table, Used, cardano>>
  PROVE  Ledger!LNext
<1>1. Ledger!LRefuse(r)
  BY DEF Open, Closing, Used, Answers, Given, AnswerTo, Ledger!LRefuse, Ledger!Done, Ledger!Answered
<1> QED
  BY <1>1 DEF Open, Ledger!LNext

Oldest(r) == \A q \in Open : r.id <= q.id

\* The oldest request, when it is answered without touching a UTXO.
LEMMA InspectMaps ==
  ASSUME NEW r \in Open, Oldest(r), NEW x,
         \/ r.op \in {"boot", "instantiate", "describe"} /\ x = None
         \/ r.op = "implemented" /\ r.h \in DOMAIN table /\ x = table[r.h].declared,
         Open' = Open \ {r}, Answers' = Answers \cup {AnswerTo(r, TRUE, x)},
         UNCHANGED <<Closing, table, Used, cardano>>
  PROVE  Ledger!LNext
<1>1. Ledger!Inspect(r)
  BY DEF Open, Closing, Used, Answers, Given, AnswerTo, Ledger!Inspect, Ledger!Done, Ledger!Answered
<1>2. Ledger!Oldest(r)
  BY DEF Oldest, Open, Ledger!Oldest
<1> QED
  BY <1>1, <1>2 DEF Open, Ledger!LNext, Ledger!Effect

\* The oldest request, when it sets the Cardano context.
LEMMA SetContextMaps ==
  ASSUME NEW r \in Open, Oldest(r), r.op = "setCardano", cardano' = r.arg,
         Open' = Open \ {r}, Answers' = Answers \cup {AnswerTo(r, TRUE, None)},
         UNCHANGED <<Closing, table, Used>>
  PROVE  Ledger!LNext
<1>1. Ledger!SetContext(r)
  BY DEF Open, Closing, Used, Answers, Given, AnswerTo, Ledger!SetContext, Ledger!Done, Ledger!Answered
<1>2. Ledger!Oldest(r)
  BY DEF Oldest, Open, Ledger!Oldest
<1> QED
  BY <1>1, <1>2 DEF Open, Ledger!LNext, Ledger!Effect

\* The oldest request, when it makes a UTXO.
LEMMA MintMaps ==
  ASSUME NEW r \in Open, Oldest(r), r.op \in {"new", "load"}, NEW ms \in SUBSET Methods,
         NEW h \in Used' \ Used, Used' = Used \cup {h},
         table' = [i \in DOMAIN table \cup {h} |-> IF i # h THEN table[i] ELSE
                     [ctx |-> cardano, declared |-> ms, version |-> 0, dead |-> FALSE]],
         Open' = Open \ {r}, Answers' = Answers \cup {AnswerTo(r, TRUE, h)},
         UNCHANGED <<Closing, cardano>>
  PROVE  Ledger!LNext
<1>1. Ledger!LMint(r)
  BY DEF Open, Closing, Used, Answers, Given, AnswerTo, Ledger!LMint, Ledger!Done, Ledger!Answered
<1>2. Ledger!Oldest(r)
  BY DEF Oldest, Open, Ledger!Oldest
<1> QED
  BY <1>1, <1>2 DEF Open, Ledger!LNext, Ledger!Effect

\* The oldest request, when it calls a method or reads the storage.
LEMMA RunMaps ==
  ASSUME NEW r \in Open, Oldest(r), r.op \in {"call", "storageGet"}, r.h \in DOMAIN table,
         NEW ok \in BOOLEAN, NEW u, u = table[r.h],
         r.op = "call" => r.arg \in u.declared, ok => ~u.dead,
         NEW ms \in SUBSET Methods,
         table' = [table EXCEPT ![r.h] =
                     [ctx |-> u.ctx, declared |-> u.declared \cup ms, dead |-> u.dead \/ ~ok,
                      version |-> IF ok /\ r.op = "call" THEN u.version + 1 ELSE u.version]],
         Open' = Open \ {r},
         Answers' = Answers \cup
           {AnswerTo(r, ok, IF ok /\ r.op = "storageGet" THEN u.version ELSE None)},
         UNCHANGED <<Closing, Used, cardano>>
  PROVE  Ledger!LNext
<1>1. Ledger!Run(r, ok)
  BY DEF Open, Closing, Used, Answers, Given, AnswerTo, Ledger!Run, Ledger!Done, Ledger!Answered
<1>2. Ledger!Oldest(r)
  BY DEF Oldest, Open, Ledger!Oldest
<1> QED
  BY <1>1, <1>2 DEF Open, Ledger!LNext, Ledger!Effect

\* The oldest request, when it drops a UTXO.
LEMMA DropMaps ==
  ASSUME NEW r \in Open, Oldest(r), r.op = "drop", r.h \in DOMAIN table,
         table' = [i \in DOMAIN table \ {r.h} |-> table[i]],
         Open' = Open \ {r}, Closing' = Closing \cup {r}, UNCHANGED <<Used, cardano, Answers>>
  PROVE  Ledger!LNext
<1>1. Ledger!LDrop(r)
  BY DEF Open, Closing, Used, Answers, Given, Ledger!LDrop
<1>2. Ledger!Oldest(r)
  BY DEF Oldest, Open, Ledger!Oldest
<1> QED
  BY <1>1, <1>2 DEF Open, Ledger!LNext, Ledger!Effect

\* A drop that is over.
LEMMA ClosedMaps ==
  ASSUME NEW r \in Closing, NEW ok \in BOOLEAN, Closing' = Closing \ {r},
         Answers' = Answers \cup {AnswerTo(r, ok, None)}, UNCHANGED <<Open, table, Used, cardano>>
  PROVE  Ledger!LNext
<1>1. Ledger!Closed(r, ok)
  BY DEF Open, Closing, Used, Answers, Given, AnswerTo, Ledger!Closed, Ledger!Answered
<1> QED
  BY <1>1 DEF Closing, Ledger!LNext

\* The client asks, and reads its answers.
LEMMA ClientMaps ==
  ASSUME Open \subseteq Open', \A q \in Open' \ Open, p \in Open : p.id < q.id,
         Answers' \subseteq Answers, UNCHANGED <<Closing, table, Used, cardano>>
  PROVE  Ledger!LNext
<1>1. Ledger!Client
  BY DEF Open, Closing, Used, Answers, Given, Ledger!Client
<1> QED
  BY <1>1 DEF Ledger!LNext

-----------------------------------------------------------------------------
(* The steps of the worker.                                                *)

\* A reply sent is an answer given.
LEMMA AnswersAfter ==
  ASSUME TypeInv, NEW id \in 0..MaxRpc, NEW ok \in BOOLEAN, NEW x \in Results,
         NEW evs \in Seq(Entries), Reply(id, ok, x, evs)
  PROVE  Answers' = Answers \cup {[id |-> id, ok |-> ok, result |-> x]}
<1>1. PICK a : a = [id |-> id, ok |-> ok, result |-> x, events |-> evs]
  OBVIOUS
<1>2. a \in Replies /\ outbox' = Append(outbox, a) /\ Given(a) = [id |-> id, ok |-> ok, result |-> x]
  BY <1>1 DEF Reply, Replies, Given
<1>3. ToSet(outbox') = ToSet(outbox) \cup {a}
  BY <1>2, AppendFacts DEF TypeInv
<1> QED
  BY <1>2, <1>3 DEF Answers

\* A message that is taken is open, and leaves what is open when it is not
\* the one that enters the guest.
LEMMA TakenMaps ==
  ASSUME CoreInv, NEW r, Taken(r)
  PROVE  /\ r \in Open
         /\ ~Borrowed \/ r.op \in {"boot", "instantiate"} => Oldest(r)
         /\ UNCHANGED cur => Open' = Open \ {r} /\ UNCHANGED Closing
<1>1. /\ r.id \in Nat /\ ToSet(inbox) = {r} \cup ToSet(inbox')
      /\ \A q \in ToSet(inbox') : q.id \in Nat /\ r.id < q.id
      /\ Borrowed => cur.req.id \in Nat /\ cur.req.id < r.id /\ r.op \notin {"boot", "instantiate"}
  BY TakenFacts, WorkerAssumption DEF WorkerAssumption
<1>2. r \in Open
  BY <1>1 DEF Open
<1>3. ASSUME ~Borrowed \/ r.op \in {"boot", "instantiate"} PROVE Oldest(r)
  <2>1. ~Borrowed
    BY <1>1, <1>3
  <2>2. Open = {r} \cup ToSet(inbox')
    BY <1>1, <2>1 DEF Open
  <2> QED
    BY <1>1, <2>2 DEF Oldest
<1>4. r \notin ToSet(inbox') /\ (Borrowed => r # cur.req)
  BY <1>1
<1>5. ASSUME UNCHANGED cur PROVE Open' = Open \ {r} /\ UNCHANGED Closing
  BY <1>1, <1>4, <1>5 DEF Open, Closing, Borrowed
<1> QED
  BY <1>2, <1>3, <1>5

\* What is answered at once is refused, looked at, or a new context.
LEMMA AnswersMap ==
  ASSUME CoreInv, NEW r, Taken(r),
         \/ BootRuntime(r) \/ Refuse(r) \/ Instantiate(r) \/ Describe(r)
         \/ ImplementedMethods(r) \/ SetCardano(r)
  PROVE  Ledger!LNext
<1> USE DEF CoreInv
<1>1. /\ r \in Open /\ r.id \in 0..MaxRpc
      /\ ~Borrowed \/ r.op \in {"boot", "instantiate"} => Oldest(r)
  BY TakenMaps, TakenFacts
<1>2. /\ Open' = Open \ {r} /\ UNCHANGED <<Closing, cur>>
  BY TakenMaps, AnswersCarryNone
<1>3. None \in Results /\ <<>> \in Seq(Entries) /\ TypeInv
  BY DEF Results
<1>4. ASSUME NEW ok \in BOOLEAN, NEW x \in Results, Reply(r.id, ok, x, <<>>) \/ Answer(r, ok, x)
      PROVE  Answers' = Answers \cup {AnswerTo(r, ok, x)}
  <2>1. Reply(r.id, ok, x, <<>>)
    BY <1>4, DrainedFacts, Zenon DEF Answer, TypeInv
  <2>2. Answers' = Answers \cup {[id |-> r.id, ok |-> ok, result |-> x]}
    BY <1>1, <1>3, <2>1, AnswersAfter
  <2> QED
    BY <2>2 DEF AnswerTo
<1>5. CASE BootRuntime(r)
  <2>1. PICK ok \in BOOLEAN : Reply(r.id, ok, None, <<>>)
    BY <1>5 DEF BootRuntime
  <2>2. Answers' = Answers \cup {AnswerTo(r, ok, None)}
    BY <1>3, <1>4, <2>1
  <2>3. Oldest(r) /\ r.op = "boot" /\ UNCHANGED <<table, Used, cardano>>
    BY <1>1, <1>5 DEF BootRuntime, contractVars, Used
  <2>4. CASE ok
    BY <1>1, <1>2, <2>2, <2>3, <2>4, InspectMaps
  <2>5. CASE ~ok
    BY <1>1, <1>2, <2>2, <2>3, <2>5, RefuseMaps
  <2> QED
    BY <2>4, <2>5
<1>6. CASE Refuse(r)
  <2>1. UNCHANGED <<table, Used, cardano>> /\ Answer(r, FALSE, None)
    BY <1>6 DEF Refuse, contractVars, Used
  <2>2. Answers' = Answers \cup {AnswerTo(r, FALSE, None)}
    BY <1>3, <1>4, <2>1
  <2> QED
    BY <1>1, <1>2, <2>1, <2>2, RefuseMaps
<1>7. CASE Instantiate(r) \/ Describe(r)
  <2>1. /\ UNCHANGED <<table, Used, cardano>> /\ Answer(r, TRUE, None)
        /\ r.op \in {"instantiate", "describe"}
        /\ ~Borrowed \/ r.op \in {"boot", "instantiate"}
    BY <1>7 DEF Instantiate, Describe, Refused, contractVars, Used
  <2>2. Answers' = Answers \cup {AnswerTo(r, TRUE, None)}
    BY <1>3, <1>4, <2>1
  <2> QED
    BY <1>1, <1>2, <2>1, <2>2, InspectMaps
<1>8. CASE ImplementedMethods(r)
  <2>1. /\ UNCHANGED <<table, Used, cardano>> /\ Answer(r, TRUE, table[r.h].declared)
        /\ r.op = "implemented" /\ ~Borrowed /\ r.h \in DOMAIN table
    BY <1>8 DEF ImplementedMethods, Refused, OfHandle, contractVars, Used
  <2>2. table[r.h].declared \in Results
    BY <2>1 DEF Results, TypeInv, TypeOK, IsMap, Utxos
  <2>3. Answers' = Answers \cup {AnswerTo(r, TRUE, table[r.h].declared)}
    BY <1>4, <2>1, <2>2
  <2> QED
    BY <1>1, <1>2, <2>1, <2>3, InspectMaps
<1>9. CASE SetCardano(r)
  <2>1. /\ UNCHANGED <<table, Used>> /\ Answer(r, TRUE, None) /\ cardano' = r.arg
        /\ r.op = "setCardano" /\ ~Borrowed
    BY <1>9 DEF SetCardano, Refused, Used
  <2>2. Answers' = Answers \cup {AnswerTo(r, TRUE, None)}
    BY <1>3, <1>4, <2>1
  <2> QED
    BY <1>1, <1>2, <2>1, <2>2, SetContextMaps
<1> QED
  BY <1>5, <1>6, <1>7, <1>8, <1>9

\* What enters the guest stays open, except that a drop has its effect.
LEMMA StartsMap ==
  ASSUME CoreInv, NEW r, Taken(r),
         New(r) \/ LoadUtxo(r) \/ CallMethod(r) \/ StorageGet(r) \/ DropResource(r)
  PROVE  Ledger!LNext \/ UNCHANGED Mapped
<1>1. /\ r \in Open /\ r.id \in Nat /\ ToSet(inbox) = {r} \cup ToSet(inbox')
      /\ \A q \in ToSet(inbox') : q.id \in Nat /\ r.id < q.id
  BY TakenMaps, TakenFacts, WorkerAssumption DEF WorkerAssumption
<1>2. PICK u : Start(r, u) /\ r.op \in {"new", "load", "call", "storageGet", "drop"}
  BY DEF New, LoadUtxo, CallMethod, StorageGet, DropResource
<1>3. /\ ~Borrowed /\ Borrowed' /\ cur'.req = r /\ UNCHANGED <<Used, cardano, Answers>>
  <2>1. r \in Requests
    BY TakenFacts
  <2>2. cur' # None
    <3>1. cur' = [req |-> r, utxo |-> u]
      BY <1>2 DEF Start
    <3>2. u \in Utxos
      <4>1. r.op \in {"call", "storageGet", "drop"} => r.h \in DOMAIN table
        BY <1>2 DEF Start, Refused, OfHandle
      <4>2. Fresh \in Utxos
        BY WorkerAssumption DEF Fresh, Utxos, CoreInv, TypeInv, TypeOK, WorkerAssumption
      <4>3. \A h \in DOMAIN table : table[h] \in Utxos
        BY DEF CoreInv, TypeInv, TypeOK, IsMap
      <4> QED
        BY <1>2, <3>1, <4>1, <4>2, <4>3 DEF New, LoadUtxo, CallMethod, StorageGet, DropResource, Start
    <3> QED
      BY <2>1, <3>1, <3>2, NoneIsNoOperation DEF NoneIsNoOperation
  <2> QED
    BY <1>2, <2>2 DEF Start, Refused, Borrowed, Used, Answers
<1>4. Closing = {} /\ Open = {r} \cup ToSet(inbox') /\ r \notin ToSet(inbox')
  BY <1>1, <1>3 DEF Open, Closing
<1>5. CASE r.op # "drop"
  <2>1. table' = table
    BY <1>5 DEF New, LoadUtxo, CallMethod, StorageGet, DropResource
  <2>2. Open' = Open /\ Closing' = Closing
    BY <1>3, <1>4, <1>5 DEF Open, Closing
  <2> QED
    BY <1>3, <2>1, <2>2 DEF Mapped
<1>6. CASE r.op = "drop"
  <2>1. r.h \in DOMAIN table /\ table' = [i \in DOMAIN table \ {r.h} |-> table[i]]
    BY <1>6 DEF New, LoadUtxo, CallMethod, StorageGet, DropResource, Start, Refused, OfHandle
  <2>2. Open' = Open \ {r} /\ Closing' = Closing \cup {r}
    BY <1>3, <1>4, <1>6 DEF Open, Closing
  <2>3. Oldest(r)
    BY <1>3, TakenMaps
  <2> QED
    BY <1>1, <1>3, <1>6, <2>1, <2>2, <2>3, DropMaps
<1> QED
  BY <1>5, <1>6

\* The end of an operation has its effect, whole or not at all, on the UTXO
\* that is there since it started.
LEMMA FinishMaps ==
  ASSUME CoreInv, NEW ok \in BOOLEAN, Finish(ok)
  PROVE  Ledger!LNext
<1> DEFINE r == cur.req
           u == cur.utxo
<1>1. /\ Borrowed /\ r \in Requests /\ u \in Utxos /\ r.id \in 0..MaxRpc /\ r.id \in Nat
      /\ nextId \in Nat /\ \A q \in ToSet(inbox) : q.id \in Nat /\ r.id < q.id
  BY RunningFacts, WorkerAssumption DEF Finish, WorkerAssumption
<1>2. events \in Seq(Entries) /\ TypeInv
  BY DEF CoreInv, TypeInv, TypeOK
<1>3. cur' = None /\ UNCHANGED <<inbox, cardano>>
  BY FinishedReply
<1>4. ~Borrowed' /\ ToSet(inbox') = ToSet(inbox) /\ r \notin ToSet(inbox)
  BY <1>1, <1>3 DEF Borrowed
<1>5. ASSUME r.op # "drop"
      PROVE  r \in Open /\ Oldest(r) /\ Open' = Open \ {r} /\ UNCHANGED Closing
  <2>1. Open = ToSet(inbox) \cup {r} /\ Closing = {}
    BY <1>1, <1>5 DEF Open, Closing
  <2>2. Open' = ToSet(inbox) /\ Closing' = {}
    BY <1>4 DEF Open, Closing
  <2> QED
    BY <1>1, <1>4, <2>1, <2>2 DEF Oldest
<1>6. ASSUME NEW x \in Results, Resolve(ok, x)
      PROVE  Answers' = Answers \cup {AnswerTo(r, ok, IF ok THEN x ELSE None)} /\ (ok => ~u.dead)
  <2>1. PICK y : y = IF ok THEN x ELSE None
    OBVIOUS
  <2>2. y \in Results
    BY <2>1 DEF Results
  <2>3. Reply(r.id, ok, y, events)
    BY <1>6, <2>1, Zenon DEF Resolve, Drains
  <2>4. Answers' = Answers \cup {[id |-> r.id, ok |-> ok, result |-> y]}
    BY <1>1, <1>2, <2>2, <2>3, AnswersAfter
  <2> QED
    BY <1>6, <2>1, <2>4 DEF Resolve, Runs, AnswerTo
<1>7. None \in Results /\ nextId \in Results /\ u.version \in Results
  BY <1>1, WorkerAssumption DEF Results, Utxos, WorkerAssumption
<1>8. CASE ConstructUtxo(ok)
  <2>1. r.op \in {"new", "load"} /\ r.op # "drop"
    BY <1>8 DEF ConstructUtxo, Mints
  <2>2. Answers' = Answers \cup {AnswerTo(r, ok, IF ok THEN nextId ELSE None)}
    BY <1>6, <1>7, <1>8 DEF ConstructUtxo
  <2>3. CASE ~ok
    <3>1. UNCHANGED <<table, Used>>
      BY <1>8, <2>3 DEF ConstructUtxo, Used
    <3> QED
      BY <1>3, <1>5, <2>1, <2>2, <2>3, <3>1, RefuseMaps
  <2>4. CASE ok
    <3>1. u.ctx = cardano /\ u.version = 0 /\ u.dead = FALSE /\ u.declared \in SUBSET Methods
      <4>1. u.ctx = cardano /\ u.version = 0 /\ ~u.dead
        BY <1>1, <2>1 DEF CoreInv, HandleInv, Mints
      <4> QED
        BY <1>1, <4>1 DEF Utxos
    <3>2. u = [ctx |-> cardano, declared |-> u.declared, version |-> 0, dead |-> FALSE]
      BY <1>1, <3>1 DEF Utxos
    <3>3. nextId \in Used' \ Used /\ Used' = Used \cup {nextId}
      BY <1>1, <1>8, <2>4 DEF ConstructUtxo, Used
    <3>4. table' = [i \in DOMAIN table \cup {nextId} |-> IF i # nextId THEN table[i] ELSE
                      [ctx |-> cardano, declared |-> u.declared, version |-> 0, dead |-> FALSE]]
      BY <1>8, <2>4, <3>2 DEF ConstructUtxo
    <3>5. Answers' = Answers \cup {AnswerTo(r, TRUE, nextId)}
      BY <2>2, <2>4
    <3> QED
      BY <1>3, <1>5, <2>1, <3>1, <3>3, <3>4, <3>5, MintMaps
  <2> QED
    BY <2>3, <2>4
<1>9. ASSUME r.op \in {"call", "storageGet"}
      PROVE  LET t == table[r.h] IN
               /\ r.h \in DOMAIN table /\ u.ctx = t.ctx /\ u.version = t.version /\ u.dead = t.dead
               /\ u.declared \in SUBSET Methods /\ t.declared \cup u.declared = u.declared
               /\ r.op = "call" => r.arg \in t.declared
  BY <1>1, <1>9 DEF CoreInv, HandleInv, Utxos
<1>10. CASE CallAsync(ok) \/ GetAsync(ok)
  <2>1. r.op \in {"call", "storageGet"} /\ r.op # "drop"
    BY <1>10 DEF CallAsync, GetAsync
  <2> DEFINE t == table[r.h]
             d == u.dead \/ ~ok
             v == IF ok /\ r.op = "call" THEN u.version + 1 ELSE u.version
  <2>2. PICK w : w = [Trapped(u, ok) EXCEPT !.version = v]
    OBVIOUS
  <2>3. table' = [table EXCEPT ![r.h] = w]
    <3>1. Trapped(u, ok) \in Utxos /\ Trapped(u, ok).version = u.version
      BY <1>1, TrappedFacts
    <3>2. [Trapped(u, ok) EXCEPT !.version = u.version] = Trapped(u, ok)
      BY <3>1 DEF Utxos
    <3>3. CASE r.op = "call"
      BY <1>10, <2>2, <3>1, <3>3 DEF CallAsync, GetAsync
    <3>4. CASE r.op = "storageGet"
      BY <1>10, <2>2, <3>1, <3>2, <3>4 DEF CallAsync, GetAsync
    <3> QED
      BY <2>1, <3>3, <3>4
  <2>4. w = [ctx |-> t.ctx, declared |-> t.declared \cup u.declared,
             dead |-> t.dead \/ ~ok, version |-> IF ok /\ r.op = "call" THEN t.version + 1 ELSE t.version]
    <3>1. /\ Trapped(u, ok) \in Utxos /\ Trapped(u, ok).ctx = u.ctx
          /\ Trapped(u, ok).declared = u.declared /\ Trapped(u, ok).dead = d
      BY <1>1, TrappedFacts
    <3>2. PICK e : e = d
      OBVIOUS
    <3>3. w = [ctx |-> u.ctx, declared |-> u.declared, dead |-> e, version |-> v]
      BY <2>2, <3>1, <3>2 DEF Utxos
    <3>4. /\ u.ctx = t.ctx /\ u.declared = t.declared \cup u.declared
          /\ e = (t.dead \/ ~ok) /\ v = IF ok /\ r.op = "call" THEN t.version + 1 ELSE t.version
      BY <1>9, <2>1, <3>2
    <3> QED
      BY <3>3, <3>4
  <2>5. Answers' = Answers \cup
          {AnswerTo(r, ok, IF ok /\ r.op = "storageGet" THEN t.version ELSE None)}
    <3>1. CASE CallAsync(ok)
      BY <1>6, <1>7, <3>1 DEF CallAsync
    <3>2. CASE GetAsync(ok)
      BY <1>6, <1>7, <1>9, <2>1, <3>2 DEF GetAsync
    <3> QED
      BY <1>10, <3>1, <3>2
  <2>6. ok => ~t.dead
    BY <1>6, <1>7, <1>9, <1>10, <2>1 DEF CallAsync, GetAsync
  <2>7. UNCHANGED Used
    BY <1>10 DEF CallAsync, GetAsync, Used
  <2>8. table' = [table EXCEPT ![r.h] =
                    [ctx |-> t.ctx, declared |-> t.declared \cup u.declared, dead |-> t.dead \/ ~ok,
                     version |-> IF ok /\ r.op = "call" THEN t.version + 1 ELSE t.version]]
    BY <2>3, <2>4, Zenon
  <2> QED
    BY <1>3, <1>5, <1>9, <2>1, <2>5, <2>6, <2>7, <2>8, RunMaps
<1>11. CASE DropAsync(ok)
  <2>1. r.op = "drop"
    BY <1>11 DEF DropAsync
  <2>2. r \in Closing /\ Closing' = Closing \ {r} /\ Open' = Open
    BY <1>1, <1>4, <2>1 DEF Open, Closing
  <2>3. Answers' = Answers \cup {AnswerTo(r, ok, None)}
    BY <1>6, <1>7, <1>11 DEF DropAsync
  <2>4. UNCHANGED <<table, Used, cardano>>
    BY <1>3, <1>11 DEF DropAsync, Used
  <2> QED
    BY <2>2, <2>3, <2>4, ClosedMaps
<1> QED
  BY <1>8, <1>10, <1>11 DEF Finish

\* The guest's events and declarations are no steps of the ledger.
LEMMA RunningMaps ==
  ASSUME CoreInv, EmitEvent \/ \E m \in Methods : ImplementsMethod(m)
  PROVE  UNCHANGED Mapped
<1>1. /\ UNCHANGED <<inbox, outbox, contractVars>> /\ Borrowed
      /\ Borrowed' /\ cur'.req = cur.req
  <2>1. CASE EmitEvent
    BY <2>1 DEF EmitEvent, Runs, Borrowed
  <2>2. ASSUME NEW m \in Methods, ImplementsMethod(m)
        PROVE  /\ UNCHANGED <<inbox, outbox, contractVars>> /\ Borrowed
               /\ Borrowed' /\ cur'.req = cur.req
    <3>1. /\ cur.req \in Requests /\ cur.utxo \in Utxos /\ Borrowed
          /\ cur = [req |-> cur.req, utxo |-> cur.utxo]
      BY <2>2, RunningFacts DEF ImplementsMethod, Runs
    <3>2. cur' \in [req : Requests, utxo : Utxos] /\ cur'.req = cur.req
      BY <2>2, <3>1 DEF ImplementsMethod, Utxos
    <3> QED
      BY <2>2, <3>1, <3>2, NoneIsNoOperation DEF NoneIsNoOperation, Borrowed, ImplementsMethod
  <2> QED
    BY <2>1, <2>2
<1> QED
  BY <1>1 DEF Mapped, Open, Closing, Used, Answers, contractVars

\* A client that asks, or reads a reply, is the client of the ledger.
LEMMA ClientsMap ==
  ASSUME CoreInv, (\E p \in Payloads(0..nextId) : Ask(p)) \/ Receive
  PROVE  Ledger!LNext
<1>1. UNCHANGED <<Closing, table, Used, cardano>> /\ UNCHANGED cur
  BY DEF Ask, Receive, workerVars, contractVars, Closing, Used, Borrowed
<1>2. TypeInv /\ TypeOK /\ nextRpc \in Nat
  BY DEF CoreInv, TypeInv, TypeOK
<1>3. ASSUME NEW p \in Payloads(0..nextId), Ask(p) PROVE Ledger!LNext
  <2>1. Numbered(<<p>>) = <<Request(p, nextRpc)>>
    <3>1. Len(<<p>>) = 1 /\ <<p>>[1] = p /\ nextRpc + 1 - 1 = nextRpc
      BY <1>2
    <3> QED
      BY <3>1 DEF Numbered
  <2> DEFINE q == Request(p, nextRpc)
  <2>2. PICK S : inbox \in Seq(S) /\ <<q>> \in Seq(S)
    <3>1. inbox \in Seq(Requests \cup {q}) /\ <<q>> \in Seq(Requests \cup {q})
      BY <1>2 DEF TypeOK
    <3> QED
      BY <3>1
  <2>3. q.id = nextRpc
    BY DEF Request
  <2> HIDE DEF q
  <2>4. ToSet(inbox') = ToSet(inbox) \cup {q}
    <3>1. inbox' = inbox \o <<q>>
      BY <1>3, <2>1, Zenon DEF Ask, Post, q
    <3>2. ToSet(<<q>>) = {q}
      BY DEF ToSet
    <3>3. ToSet(inbox \o <<q>>) = ToSet(inbox) \cup ToSet(<<q>>)
      BY <2>2, ConcatFacts
    <3>4. ToSet(inbox') = ToSet(inbox \o <<q>>)
      BY <3>1, Zenon
    <3> QED
      BY <3>2, <3>3, <3>4
  <2>5. Open \subseteq Open' /\ Open' \ Open \subseteq {q}
    BY <1>1, <2>4 DEF Open, Borrowed
  <2>6. \A r \in Open : r.id < nextRpc
    BY DEF Open, CoreInv, OrderInv
  <2>7. Answers' = Answers
    BY <1>3 DEF Ask, Answers
  <2> QED
    BY <1>1, <2>3, <2>5, <2>6, <2>7, ClientMaps
<1>4. ASSUME Receive PROVE Ledger!LNext
  <2>1. outbox # <<>> /\ outbox' = Tail(outbox) /\ inbox' = inbox
    <3>1. Numbered(<<>>) = <<>>
      BY DEF Numbered
    <3> QED
      BY <1>2, <1>4, <3>1 DEF Receive, Settle, TypeOK
  <2>2. ToSet(outbox') \subseteq ToSet(outbox)
    BY <1>2, <2>1, TailFacts DEF TypeInv
  <2>3. Answers' \subseteq Answers
    BY <2>2 DEF Answers
  <2>4. Open' = Open
    BY <1>1, <2>1 DEF Open, Borrowed
  <2> QED
    BY <1>1, <2>3, <2>4, ClientMaps
<1> QED
  BY <1>3, <1>4

\* Each request has its whole effect or none, at one moment and in the order
\* of the requests, whatever is parked, refused, trapped or handled meanwhile:
\* the worker with its queues, borrow and guest is a ledger.
THEOREM WorkerImplementsLedger == Spec => LedgerSpec
<1>1. Init => Ledger!LInit
  <2> SUFFICES ASSUME Init PROVE Ledger!LInit
    OBVIOUS
  <2>1. Open = {[id |-> 0, op |-> "boot", h |-> None, arg |-> None]} /\ Closing = {}
    BY DEF Open, Closing, Borrowed, Init, Request, Boot, ToSet
  <2>2. Used = {} /\ Answers = {}
    BY DEF Used, Answers, Init, ToSet
  <2> QED
    BY <2>1, <2>2 DEF Init, Open, Closing, Used, Answers, Given, Ledger!LInit
<1>2. CoreInv /\ [Next]_vars => [Ledger!LNext]_(Ledger!lvars)
  <2> SUFFICES ASSUME CoreInv, [Next]_vars PROVE Ledger!LNext \/ UNCHANGED Mapped
    BY Stutter
  <2>1. CASE UNCHANGED vars
    BY <2>1 DEF vars, workerVars, contractVars, Mapped, Open, Closing, Used, Answers, Borrowed
  <2>2. CASE (\E p \in Payloads(0..nextId) : Ask(p)) \/ Receive
    BY <2>2, ClientsMap
  <2>3. CASE OnMessage
    <3> DEFINE r == Head(inbox)
    <3>1. Taken(r)
      BY <2>3 DEF OnMessage, Taken
    <3>2. \/ BootRuntime(r) \/ Refuse(r) \/ Instantiate(r) \/ Describe(r)
          \/ ImplementedMethods(r) \/ SetCardano(r)
          \/ New(r) \/ LoadUtxo(r) \/ CallMethod(r) \/ StorageGet(r) \/ DropResource(r)
      BY <2>3 DEF OnMessage
    <3> HIDE DEF r
    <3> QED
      BY <3>1, <3>2, AnswersMap, StartsMap
  <2>4. CASE EmitEvent \/ \E m \in Methods : ImplementsMethod(m)
    BY <2>4, RunningMaps
  <2>5. CASE \E ok \in BOOLEAN : Finish(ok)
    BY <2>5, FinishMaps
  <2> QED
    BY <2>1, <2>2, <2>3, <2>4, <2>5 DEF Next, WorkerStep
<1> QED
  BY <1>1, <1>2, CoreInvariant, PTL DEF Spec, LedgerSpec, Ledger!LSpec
=============================================================================
