-------------------------- MODULE ContractCardInv --------------------------
(***************************************************************************)
(* The inductive invariant of ContractCard, in the parts its proofs use.   *)
(* PageInv holds of any worker; SerialInv of one whose operations do not   *)
(* park, so that it finishes each message before it reads another.         *)
(***************************************************************************)
EXTENDS ContractCard, WebWorkerInv

Awaited(op) == \E p \in pending : p.id = awaits /\ p.op = op

(* addContract waits for one request at a time, and no one else boots,     *)
(* instantiates or describes.                                              *)
LoadInv ==
  /\ phase = "loading" => \E op \in {"boot", "instantiate", "setCardano", "describe"} : Awaited(op)
  /\ phase # "loading" => awaits = None
  /\ \A p \in pending : p.op \in {"boot", "instantiate", "describe"} => p.id = awaits
  /\ Awaited("boot") => ~contract

(* Requests are about handles that were given out.                         *)
RequestInv ==
  /\ live \subseteq 0..(nextId - 1)
  /\ \A p \in pending : WellFormed(p) /\ (p.op \in OfHandle => p.h < nextId)

(* What a request that succeeded answers.                                  *)
ReplyInv ==
  \A a \in ToSet(outbox), p \in pending : a.id = p.id /\ a.ok =>
    /\ p.op = "instantiate" => contract
    /\ p.op \in Mints => a.result \in 0..(nextId - 1)
    /\ p.op = "implemented" => a.result \in SUBSET Methods

(* While the panel shows a live UTXO, its methods are listed or asked for. *)
PanelInv ==
  /\ panel \in Seq([enabled : SUBSET Methods])
  /\ sel = None => panel = <<>>
  /\ here /\ live # {} => sel # None
  /\ sel # None => panel # <<>> \/ Waits("implemented", sel)

(* The requests made and those that will follow without a click: the rest  *)
(* of the load, two for each UTXO minted and one for each call or drop.    *)
LoadLeft ==
  CASE Awaited("boot")        -> 3
    [] Awaited("instantiate") -> 2
    [] Awaited("setCardano")  -> 1
    [] OTHER                  -> 0
PendingOf(ops) == {p \in pending : p.op \in ops}
BudgetInv ==
  /\ IsFiniteSet(pending)
  /\ nextRpc + LoadLeft + 2 * Cardinality(PendingOf(Mints)) + Cardinality(PendingOf({"call", "drop"}))
       + 3 * (MaxClicks - clicks) <= MaxRpc + 1

PageInv == CoreInv /\ LoadInv /\ RequestInv /\ ReplyInv /\ PanelInv /\ BudgetInv

-----------------------------------------------------------------------------
(* Replies come in the order of the requests.                              *)
SerialOrder ==
  /\ IdsRise(outbox)
  /\ \A a \in ToSet(outbox), q \in ToSet(inbox) \cup Running : a.id < q.id

(* What a reply says of the table: a drop, or a query that was refused,    *)
(* leaves no UTXO behind its handle, and methods stay declared.            *)
AnswerInv ==
  /\ \A a \in ToSet(outbox), p \in pending : a.id = p.id =>
       /\ p.op = "drop" \/ (p.op = "implemented" /\ ~a.ok) => p.h \notin DOMAIN table
       /\ p.op = "implemented" /\ a.ok /\ p.h \in DOMAIN table => a.result \subseteq table[p.h].declared
  /\ Borrowed /\ cur.req.op = "drop" => cur.req.h \notin DOMAIN table

(* Handles on their way to the card are in the table, one reply each; and  *)
(* the card being dropped is the one whose drop is pending.                *)
Minting == {a \in ToSet(outbox) : a.ok /\ \E p \in pending : a.id = p.id /\ p.op \in Mints}
CardsInv ==
  /\ CardsMatchTable
  /\ \A a \in Minting :
       /\ a.result \in DOMAIN table /\ a.result \notin live
       /\ \A b \in Minting : b.result = a.result => a = b
  /\ \A p \in PendingOf({"drop"}) :
       p.h \in dropping /\ \A q \in PendingOf({"drop"}) : p.h = q.h => p = q

(* From applyCardano on, the youngest setCardano under way carries what    *)
(* the form shows, or the context is that already.                         *)
Sets == {r \in ToSet(inbox) : r.op = "setCardano"}
FormInv ==
  phase = "ready" \/ Awaited("setCardano") \/ Awaited("describe") =>
    /\ contract
    /\ \A r \in Sets : (\A q \in Sets : q.id <= r.id) => r.arg = fields
    /\ Sets = {} => cardano = fields

(* The storage of a live UTXO is being read, will be read after a call, is *)
(* on its way, or is on display.                                           *)
Reads(h) == {a \in ToSet(outbox) : \E p \in pending : a.id = p.id /\ p.op = "storageGet" /\ p.h = h}
StorageInv ==
  \A h \in live \cap DOMAIN table : ~table[h].dead =>
    \/ \E r \in ToSet(inbox) \cup Running : r.op = "storageGet" /\ r.h = h
    \/ \E a \in ToSet(outbox), p \in pending : a.id = p.id /\ a.ok /\ p.op = "call" /\ p.h = h
    \/ \E a \in Reads(h) : a.ok /\ a.result = table[h].version /\ \A b \in Reads(h) : b.id <= a.id
    \/ Reads(h) = {} /\ h \in DOMAIN shown /\ shown[h] = table[h].version

SerialInv == SerialOrder /\ AnswerInv /\ CardsInv /\ FormInv /\ StorageInv

CardInv ==
  /\ CardTypeOK
  /\ phase = "gone" => inbox = <<>> /\ outbox = <<>> /\ cur = None
  /\ phase # "gone" => PageInv
  /\ ~Suspends => OnlyCallableOffered /\ (phase # "gone" => SerialInv)
=============================================================================
