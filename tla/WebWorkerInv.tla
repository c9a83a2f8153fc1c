---------------------------- MODULE WebWorkerInv ----------------------------
(***************************************************************************)
(* The inductive invariant of WebWorker, in the parts its proofs use.      *)
(* CoreInv, all of it but the log, holds whatever the page asks for when   *)
(* it reads a reply, as long as it instantiates once.                      *)
(***************************************************************************)
EXTENDS WebWorker

(* TypeOK, and what a reply may carry: nothing, a handle or a version of   *)
(* the storage, or methods.                                                *)
Results == (SUBSET Methods) \cup {None} \cup Nat
Replies == [id : 0..MaxRpc, ok : BOOLEAN, result : Results, events : Seq(Entries)]
TypeInv == TypeOK /\ outbox \in Seq(Replies)

WellFormed(r) ==
  /\ r.op \in OfHandle => r.h \in Ids
  /\ r.op = "call" => r.arg \in Methods
  /\ r.op = "setCardano" => r.arg \in Contexts
  /\ r.id = 0 <=> r.op = "boot"

IdsRise(s) == \A i, j \in DOMAIN s : i < j => s[i].id < s[j].id
IdsDiffer(s) == \A i, j \in DOMAIN s : i < j => s[i].id # s[j].id

(* Requests are handled in the order of their numbers, the running one     *)
(* before those in the inbox.                                              *)
OrderInv ==
  /\ IdsRise(inbox)
  /\ \A r \in ToSet(inbox) : WellFormed(r) /\ r.id < nextRpc
  /\ Borrowed =>
       /\ WellFormed(cur.req) /\ cur.req.id < nextRpc
       /\ cur.req.op \in Mints \cup {"call", "storageGet", "drop"}
       /\ \A r \in ToSet(inbox) : cur.req.id < r.id

(* The contract comes into being once, after the boot, and before any UTXO *)
(* or operation.                                                           *)
BeginInv ==
  /\ \A r, q \in ToSet(inbox) : r.op = "instantiate" /\ q.op = "instantiate" => r = q
  /\ \A r \in ToSet(inbox) : r.op \in {"boot", "instantiate"} => ~contract
  /\ contract => nextRpc > 1 /\ boot # "failed"
  /\ Borrowed \/ DOMAIN table # {} => contract

(* Handles and storage versions are outnumbered by requests.               *)
Behind(n) ==
  /\ n < nextRpc
  /\ \A r \in ToSet(inbox) : r.id # 0 => n < r.id
  /\ Borrowed => n < cur.req.id
BoundInv == Behind(nextId) /\ \A h \in DOMAIN table : Behind(table[h].version)

(* Handles are given out once.  The running operation works on a UTXO that *)
(* is as it was found, but for the methods it declared meanwhile, or on a  *)
(* fresh one with the present Cardano context.                             *)
HandleInv ==
  /\ DOMAIN table \subseteq 0..(nextId - 1)
  /\ Borrowed /\ cur.req.op \in {"call", "storageGet"} =>
       /\ cur.req.h \in DOMAIN table
       /\ table[cur.req.h].declared \subseteq cur.utxo.declared
       /\ cur.utxo.ctx = table[cur.req.h].ctx
       /\ cur.utxo.version = table[cur.req.h].version
       /\ cur.utxo.dead = table[cur.req.h].dead
       /\ cur.req.op = "call" => cur.req.arg \in table[cur.req.h].declared
  /\ Borrowed /\ cur.req.op \in Mints =>
       cur.utxo.ctx = cardano /\ cur.utxo.version = 0 /\ ~cur.utxo.dead

(* Who waits is in the inbox, running, or answered, and in one of them.    *)
Running == IF Borrowed THEN {cur.req} ELSE {}
PendingInv ==
  /\ \A p \in pending : p.id < nextRpc /\ \A q \in pending : p.id = q.id => p = q
  /\ ToSet(inbox) \cup Running \subseteq pending
  /\ \A p \in pending : p \in ToSet(inbox) \cup Running \/ \E a \in ToSet(outbox) : a.id = p.id
  /\ \A a \in ToSet(outbox) :
       /\ \E p \in pending : a.id = p.id
       /\ \A r \in ToSet(inbox) \cup Running : a.id # r.id
  /\ IdsDiffer(outbox)

(* Events are in the buffer while their operation runs, and go with it.    *)
EventInv ==
  /\ \A e \in ToSet(events) : IsEvent(e) /\ Borrowed /\ e.id = cur.req.id
  /\ \A a \in ToSet(outbox) : \A e \in ToSet(a.events) : IsEvent(e) /\ e.id = a.id

CoreInv ==
  TypeInv /\ OrderInv /\ BeginInv /\ BoundInv /\ HandleInv /\ PendingInv /\ EventInv

(* A result is in the log only when its request is settled, after which    *)
(* no event of it can come.                                                *)
LogInv ==
  /\ \A e \in ToSet(log) :
       e.id < nextRpc /\ (~IsEvent(e) => \A p \in pending : p.id # e.id)
  /\ EventsWithTheirOp

WorkerInv == CoreInv /\ LogInv /\ EventsExactlyOnce
=============================================================================
