----------------------------- MODULE WebWorker -----------------------------
(***************************************************************************)
(* One contract of the playground, from the page's ContractProxy           *)
(* (crates/web/web/index.html) through its Web Worker (contract.worker.js) *)
(* to the wasm-bindgen Contract it hosts (crates/web/src/lib.rs).          *)
(*                                                                         *)
(* The two postMessage directions are the FIFO sequences inbox and outbox. *)
(* The worker handles one message at a time; an operation that enters the  *)
(* guest is the activation `cur`, and holds wasm-bindgen's exclusive       *)
(* borrow of the Contract until it finishes.  The macrotask that received  *)
(* the message normally runs it to its end.  Suspends = TRUE also allows   *)
(* what the fiber glue is written for, an operation parked on a pending    *)
(* host future, during which further messages are handled.                 *)
(*                                                                         *)
(* The page is any client of the proxy here; ContractCard narrows it to    *)
(* the one index.html is.  The guest, wasm-bindgen's borrow flag and       *)
(* wasmtime's refusal to re-enter a trapped instance are external.         *)
(***************************************************************************)
EXTENDS Integers, Sequences, SequencesExt, FiniteSets

CONSTANTS
  Methods,     \* exported methods of the contract's utxo resource
  Contexts,    \* CardanoCtx values the form can hold
  Default,     \* CardanoCtx::default()
  Suspends,    \* may a guest operation park and let other messages in?
  MaxRpc,      \* bound: RPCs the client makes
  MaxEvents,   \* bound: events the guest emits
  None

ASSUME WorkerAssumption ==
  /\ Default \in Contexts
  /\ Suspends \in BOOLEAN
  /\ MaxRpc \in Nat /\ MaxEvents \in Nat
  /\ None \notin Methods \cup Contexts \cup Nat

VARIABLES
  nextRpc,     \* ContractProxy.nextId; 0 is the boot message
  pending,     \* ContractProxy.pending: the requests not yet settled
  log,         \* entry.log: events and results in the order they are shown
  inbox,       \* page -> worker messages
  outbox,      \* worker -> page messages
  boot,        \* the `booted` promise
  contract,    \* is the worker's `contract` set?
  table,       \* Contract.handles
  nextId,      \* Contract.next_id
  cardano,     \* Contract.cardano
  events,      \* the shared event buffer
  cur,         \* the guest operation that holds the Contract, or None
  emitted      \* history: number of events the guest emitted

proxyVars == <<nextRpc, pending, log>>
contractVars == <<contract, table, nextId, cardano>>
workerVars == <<boot, contractVars, events, cur, emitted>>
vars == <<proxyVars, inbox, outbox, workerVars>>

Mints == {"new", "load"}                              \* answer with a handle
OfHandle == {"call", "storageGet", "implemented", "drop"}
Ids == 0..MaxRpc

(* The payload of an RPC: h is a handle, known or not, and arg a method or *)
(* a context where the operation takes one.                                *)
Payloads(Handles) ==
       [op : {"instantiate", "describe"} \cup Mints, h : {None}, arg : {None}]
  \cup [op : OfHandle \ {"call"}, h : Handles, arg : {None}]
  \cup [op : {"call"}, h : Handles, arg : Methods]
  \cup [op : {"setCardano"}, h : {None}, arg : Contexts]

Boot == [op |-> "boot", h |-> None, arg |-> None]
Request(p, id) == [id |-> id, op |-> p.op, h |-> p.h, arg |-> p.arg]
Numbered(ps) == [i \in 1..Len(ps) |-> Request(ps[i], nextRpc + i - 1)]

Init ==
  /\ nextRpc = 1
  /\ pending = {Request(Boot, 0)}
  /\ inbox = <<Request(Boot, 0)>>
  /\ outbox = <<>>
  /\ log = <<>>
  /\ boot = "pending" /\ contract = FALSE
  /\ table = <<>> /\ nextId = 0 /\ cardano = Default
  /\ events = <<>> /\ cur = None
  /\ emitted = 0

-----------------------------------------------------------------------------
(* ContractProxy: #rpc posts and remembers the request; onmessage settles  *)
(* the one its reply is for, events first, and whatever the awaiting code  *)
(* posts next (ps) goes out before another message is read.                *)

Post(ps) ==
  /\ nextRpc' = nextRpc + Len(ps)
  /\ pending' = pending \cup ToSet(Numbered(ps))
  /\ inbox' = inbox \o Numbered(ps)

Entry(kind, id, n) == [kind |-> kind, id |-> id, n |-> n]

(* What onmessage adds to the log for reply r to request p: the events,    *)
(* and for a method call its outcome (renderFunc's report).                *)
Shown(p, r) ==
  r.events \o IF p.op = "call" THEN <<Entry("result", r.id, 0)>> ELSE <<>>

\* Mutant: the settled call stays in the pending map.
SettledKeeps(p) == pending

Settled(p) == pending \ {p}

Settle(p, r, ps) ==
  /\ p.id = r.id
  /\ outbox' = Tail(outbox)
  /\ log' = log \o Shown(p, r)
  /\ nextRpc' = nextRpc + Len(ps)
  /\ pending' = Settled(p) \cup ToSet(Numbered(ps))
  /\ inbox' = inbox \o Numbered(ps)

-----------------------------------------------------------------------------
(* The worker: onmessage.  Whatever the outcome the reply carries the      *)
(* events drained at that moment, or none when drainEvents throws: no      *)
(* contract yet, or one borrowed by an operation in progress.              *)

Borrowed == cur # None

\* Mutant: the buffer is read although an operation holds the contract.
DrainedAnyway == IF contract THEN events ELSE <<>>

Drained == IF contract /\ ~Borrowed THEN events ELSE <<>>

Reply(id, ok, result, evs) ==
  outbox' = Append(outbox, [id |-> id, ok |-> ok, result |-> result, events |-> evs])

Answer(r, ok, result) ==
  /\ Reply(r.id, ok, result, Drained)
  /\ events' = IF contract /\ ~Borrowed THEN <<>> ELSE events
  /\ UNCHANGED <<boot, cur, emitted>>

\* Mutant: a failed boot is not reported.
BootRuntimeSilent(r) ==
  /\ r.op = "boot"
  /\ \/ boot' = "ready" /\ Reply(r.id, TRUE, None, <<>>)
     \/ boot' = "failed" /\ UNCHANGED outbox
  /\ UNCHANGED <<contractVars, events, cur, emitted>>

BootRuntime(r) ==
  /\ r.op = "boot"
  /\ \E ok \in BOOLEAN :
       /\ boot' = IF ok THEN "ready" ELSE "failed"
       /\ Reply(r.id, ok, None, <<>>)
  /\ UNCHANGED <<contractVars, events, cur, emitted>>

\* Mutant: the implements-method gate is missing.
RefusedUngated(r) ==
  \/ boot = "failed"
  \/ r.op # "instantiate" /\ (~contract \/ Borrowed)
  \/ r.op \in OfHandle /\ r.h \notin DOMAIN table

(* Errors raised before the guest or any field of the Contract is touched: *)
(* `await booted`, a null contract, the borrow, an unknown handle and the  *)
(* implements-method gate.  storage_get of a resource that has no storage  *)
(* is answered like a read that traps, which Finish covers.                *)
Refused(r) ==
  \/ boot = "failed"
  \/ r.op # "instantiate" /\ (~contract \/ Borrowed)
  \/ r.op \in OfHandle /\ r.h \notin DOMAIN table
  \/ r.op = "call" /\ r.h \in DOMAIN table /\ r.arg \notin table[r.h].declared

(* Arguments or a component that do not convert.                           *)
MayBeMalformed(r) == r.op \in Mints \cup {"call", "instantiate"}

\* Mutant: an error is not answered.
RefuseSilently(r) ==
  /\ r.op # "boot"
  /\ Refused(r) \/ MayBeMalformed(r)
  /\ UNCHANGED <<outbox, workerVars>>

Refuse(r) ==
  /\ r.op # "boot"
  /\ Refused(r) \/ MayBeMalformed(r)
  /\ Answer(r, FALSE, None)
  /\ UNCHANGED contractVars

Instantiate(r) ==
  /\ r.op = "instantiate" /\ ~Refused(r)
  /\ contract' = TRUE
  /\ Answer(r, TRUE, None)
  /\ UNCHANGED <<table, nextId, cardano>>

Describe(r) ==
  /\ r.op = "describe" /\ ~Refused(r)
  /\ Answer(r, TRUE, None)
  /\ UNCHANGED contractVars

ImplementedMethods(r) ==
  /\ r.op = "implemented" /\ ~Refused(r)
  /\ Answer(r, TRUE, table[r.h].declared)
  /\ UNCHANGED contractVars

SetCardano(r) ==
  /\ r.op = "setCardano" /\ ~Refused(r)
  /\ cardano' = r.arg
  /\ Answer(r, TRUE, None)
  /\ UNCHANGED <<contract, table, nextId>>

-----------------------------------------------------------------------------
(* Operations that enter the guest.  A UTXO is the store's context, the    *)
(* methods it declared, the version of its storage and whether a trap has  *)
(* closed its instance.                                                    *)

\* Mutant: a new UTXO starts without a Cardano context.
FreshWithout == [ctx |-> None, declared |-> {}, version |-> 0, dead |-> FALSE]

Fresh == [ctx |-> cardano, declared |-> {}, version |-> 0, dead |-> FALSE]

(* fiber::run: the operation holds the Contract from here on.              *)
Start(r, u) ==
  /\ ~Refused(r)
  /\ cur' = [req |-> r, utxo |-> u]
  /\ UNCHANGED <<outbox, boot, contract, nextId, cardano, events, emitted>>

(* The Cardano context is copied before the mint awaits.                   *)
New(r) == r.op = "new" /\ Start(r, Fresh) /\ UNCHANGED table

LoadUtxo(r) == r.op = "load" /\ Start(r, Fresh) /\ UNCHANGED table

CallMethod(r) == r.op = "call" /\ Start(r, table[r.h]) /\ UNCHANGED table

StorageGet(r) == r.op = "storageGet" /\ Start(r, table[r.h]) /\ UNCHANGED table

(* The handle leaves the table before the drop awaits.                     *)
DropResource(r) ==
  /\ r.op = "drop" /\ Start(r, table[r.h])
  /\ table' = [i \in DOMAIN table \ {r.h} |-> table[i]]

OnMessage ==
  /\ inbox # <<>>
  /\ Suspends \/ ~Borrowed
  /\ LET r == Head(inbox) IN
       \/ BootRuntime(r)
       \/ Refuse(r)
       \/ Instantiate(r)
       \/ Describe(r)
       \/ ImplementedMethods(r)
       \/ SetCardano(r)
       \/ New(r) \/ LoadUtxo(r)
       \/ CallMethod(r) \/ StorageGet(r)
       \/ DropResource(r)
  /\ inbox' = Tail(inbox)
  /\ UNCHANGED proxyVars

-----------------------------------------------------------------------------
(* The guest, between Start and Finish.                                    *)

Runs == Borrowed /\ ~cur.utxo.dead

EmitEvent ==
  /\ Runs /\ emitted < MaxEvents
  /\ emitted' = emitted + 1
  /\ events' = Append(events, Entry("event", cur.req.id, emitted + 1))
  /\ UNCHANGED <<proxyVars, inbox, outbox, boot, contractVars, cur>>

ImplementsMethod(m) ==
  /\ Runs /\ m \notin cur.utxo.declared
  /\ cur' = [cur EXCEPT !.utxo.declared = @ \cup {m}]
  /\ UNCHANGED <<proxyVars, inbox, outbox, boot, contractVars, events, emitted>>

(* Mutant: only the reply of a success carries the events.                 *)
DrainsResult(ok) == ok

(* Both the result and the error take the events with them.                *)
Drains(ok) == TRUE

(* The future resolves: the borrow ends and the worker's handler replies.  *)
Resolve(ok, result) ==
  /\ ok => Runs
  /\ Reply(cur.req.id, ok, IF ok THEN result ELSE None, IF Drains(ok) THEN events ELSE <<>>)
  /\ events' = IF Drains(ok) THEN <<>> ELSE events
  /\ cur' = None

(* The Utxo comes into being, and with it its handle, when everything went *)
(* well.                                                                   *)
ConstructUtxo(ok) ==
  /\ cur.req.op \in Mints
  /\ Resolve(ok, nextId)
  /\ table' = IF ~ok THEN table
              ELSE [i \in DOMAIN table \cup {nextId} |-> IF i = nextId THEN cur.utxo ELSE table[i]]
  /\ nextId' = IF ok THEN nextId + 1 ELSE nextId

(* A trap closes the instance for good.                                    *)
Trapped(u, ok) == [u EXCEPT !.dead = @ \/ ~ok]

(* A method that returns has moved the storage to its next version.        *)
CallAsync(ok) ==
  /\ cur.req.op = "call"
  /\ Resolve(ok, None)
  /\ table' = [table EXCEPT ![cur.req.h] =
                 [Trapped(cur.utxo, ok) EXCEPT !.version = IF ok THEN @ + 1 ELSE @]]
  /\ UNCHANGED nextId

GetAsync(ok) ==
  /\ cur.req.op = "storageGet"
  /\ Resolve(ok, cur.utxo.version)
  /\ table' = [table EXCEPT ![cur.req.h] = Trapped(cur.utxo, ok)]
  /\ UNCHANGED nextId

DropAsync(ok) ==
  /\ cur.req.op = "drop"
  /\ Resolve(ok, None)
  /\ UNCHANGED <<table, nextId>>

Finish(ok) ==
  /\ Borrowed
  /\ ConstructUtxo(ok) \/ CallAsync(ok) \/ GetAsync(ok) \/ DropAsync(ok)
  /\ UNCHANGED <<proxyVars, inbox, boot, contract, cardano, emitted>>

WorkerStep ==
  \/ OnMessage
  \/ EmitEvent
  \/ \E m \in Methods : ImplementsMethod(m)
  \/ \E ok \in BOOLEAN : Finish(ok)

-----------------------------------------------------------------------------
(* Any client of the proxy that instantiates the contract once.            *)

Ask(p) ==
  /\ nextRpc <= MaxRpc
  /\ p.op = "instantiate" <=> nextRpc = 1
  /\ Post(<<p>>)
  /\ UNCHANGED <<log, outbox, workerVars>>

Receive ==
  /\ outbox # <<>>
  /\ \E p \in pending : Settle(p, Head(outbox), <<>>)
  /\ UNCHANGED workerVars

Next ==
  \/ \E p \in Payloads(0..nextId) : Ask(p)
  \/ Receive
  \/ WorkerStep

Spec == Init /\ [][Next]_vars

(* Messages are delivered, and guest functions return or trap.             *)
Fairness ==
  /\ WF_vars(OnMessage)
  /\ WF_vars(\E ok \in BOOLEAN : Finish(ok))
  /\ WF_vars(Receive)

FairSpec == Spec /\ Fairness

-----------------------------------------------------------------------------
Requests == [id : 0..MaxRpc, op : {p.op : p \in Payloads(Ids)} \cup {"boot"},
             h : Ids \cup {None}, arg : Methods \cup Contexts \cup {None}]
Entries == [kind : {"event", "result"}, id : 0..MaxRpc, n : 0..MaxEvents]
Utxos == [ctx : Contexts, declared : SUBSET Methods, version : 0..MaxRpc, dead : BOOLEAN]
IsMap(f, S, T) == DOMAIN f \subseteq S /\ \A i \in DOMAIN f : f[i] \in T

ASSUME NoneIsNoOperation == None \notin [req : Requests, utxo : Utxos]

(* Every variable stays in its domain; handle ids stay within the RPCs.    *)
TypeOK ==
  /\ nextRpc \in 1..(MaxRpc + 1) /\ nextId \in Ids /\ emitted \in 0..MaxEvents
  /\ pending \subseteq Requests
  /\ log \in Seq(Entries) /\ events \in Seq(Entries) /\ inbox \in Seq(Requests)
  /\ \A a \in ToSet(outbox) :
       a.id \in 0..MaxRpc /\ a.ok \in BOOLEAN /\ a.events \in Seq(Entries)
  /\ boot \in {"pending", "ready", "failed"} /\ contract \in BOOLEAN
  /\ IsMap(table, Ids, Utxos) /\ cardano \in Contexts
  /\ cur = None \/ cur \in [req : Requests, utxo : Utxos]

(* Every request the page waits on is in exactly one place, its message,   *)
(* the running operation or its reply, and nothing else is: no call is     *)
(* lost, run twice or answered twice.                                      *)
OneAnswer ==
  LET ids(s) == [i \in 1..Len(s) |-> s[i].id]
      held == ids(inbox) \o ids(outbox) \o IF Borrowed THEN <<cur.req.id>> ELSE <<>>
  IN /\ IsInjective(held)
     /\ ToSet(held) = {p.id : p \in pending}

IsEvent(e) == e.kind = "event"

Events(s) == {e \in ToSet(s) : IsEvent(e)}
Numbers(s) == {e.n : e \in Events(s)}
InOrder(s) == \A i, j \in DOMAIN s : i < j /\ IsEvent(s[i]) /\ IsEvent(s[j]) => s[i].n < s[j].n
Before(s, t) == \A e \in Events(s), f \in Events(t) : e.n < f.n

(* The events the guest emitted reach the log once each and in emission    *)
(* order: shown, on their way with a reply, or still in the buffer.        *)
EventsExactlyOnce ==
  /\ InOrder(log) /\ InOrder(events) /\ Before(log, events)
  /\ \A i \in DOMAIN outbox :
       /\ InOrder(outbox[i].events)
       /\ Before(log, outbox[i].events) /\ Before(outbox[i].events, events)
       /\ \A j \in DOMAIN outbox : i < j => Before(outbox[i].events, outbox[j].events)
  /\ 1..emitted = UNION {Numbers(s) : s \in {log, events} \cup {a.events : a \in ToSet(outbox)}}

(* A reply carries the events of its own operation, so in the log a        *)
(* method's result follows every event it emitted, even when other calls   *)
(* were answered while it was parked.                                      *)
EventsWithTheirOp ==
  /\ \A i \in 1..Len(outbox) : \A e \in ToSet(outbox[i].events) : e.id = outbox[i].id
  /\ \A i, j \in 1..Len(log) :
       i < j /\ log[i].kind = "result" /\ IsEvent(log[j]) => log[i].id # log[j].id

(* The contract is a ledger: whatever is parked, refused, trapped or       *)
(* handled in between, each request has its whole effect or none, requests *)
(* take effect in order on UTXOs that are there, a handle is given out     *)
(* once, and a UTXO keeps the Cardano context that was set when it was     *)
(* asked for.                                                              *)
Ledger == INSTANCE UtxoLedger WITH
  open    <- ToSet(inbox) \cup IF Borrowed /\ cur.req.op # "drop" THEN {cur.req} ELSE {},
  closing <- IF Borrowed /\ cur.req.op = "drop" THEN {cur.req} ELSE {},
  live    <- table,
  used    <- 0..(nextId - 1),
  context <- cardano,
  answers <- {[id |-> a.id, ok |-> a.ok, result |-> a.result] : a \in ToSet(outbox)}
LedgerSpec == Ledger!LSpec

(* Every call is eventually answered: with its result, or with the error   *)
(* of what refused it.                                                     *)
EveryCallSettles ==
  \A id \in 0..MaxRpc : (\E p \in pending : p.id = id) ~> (\A p \in pending : p.id # id)
=============================================================================
