----------------------------- MODULE UtxoLedger -----------------------------
(***************************************************************************)
(* What a Contract of crates/web/src/lib.rs promises the page, without     *)
(* messages, borrows, fibers or events: a ledger of UTXOs on which every   *)
(* request is either refused, and changes nothing, or takes effect at one  *)
(* moment, in the order the requests were made.  Only the drop of a UTXO   *)
(* takes time: it is gone at once and its destructor answers later.        *)
(***************************************************************************)
EXTENDS Naturals

CONSTANTS Methods, Contexts, Default, None

VARIABLES
  open,      \* requests that had no effect yet
  closing,   \* drops whose destructor is running
  live,      \* handle -> its UTXO
  used,      \* every handle ever given out
  context,   \* the Cardano context the next UTXO is minted with
  answers    \* replies the client has not read

lvars == <<open, closing, live, used, context, answers>>

LInit ==
  /\ open = {[id |-> 0, op |-> "boot", h |-> None, arg |-> None]}
  /\ closing = {} /\ live = <<>> /\ used = {}
  /\ context = Default /\ answers = {}

(* The client makes requests, each younger than those open, and reads.     *)
Client ==
  /\ open \subseteq open' /\ \A q \in open' \ open, p \in open : p.id < q.id
  /\ answers' \subseteq answers
  /\ UNCHANGED <<closing, live, used, context>>

Oldest(r) == \A q \in open : r.id <= q.id

Answered(r, ok, result) ==
  answers' = answers \cup {[id |-> r.id, ok |-> ok, result |-> result]}

Done(r, ok, result) == open' = open \ {r} /\ Answered(r, ok, result)

LRefuse(r) ==
  /\ Done(r, FALSE, None)
  /\ UNCHANGED <<closing, live, used, context>>

Inspect(r) ==
  /\ \/ r.op \in {"boot", "instantiate", "describe"} /\ Done(r, TRUE, None)
     \/ r.op = "implemented" /\ r.h \in DOMAIN live /\ Done(r, TRUE, live[r.h].declared)
  /\ UNCHANGED <<closing, live, used, context>>

SetContext(r) ==
  /\ r.op = "setCardano"
  /\ context' = r.arg /\ Done(r, TRUE, None)
  /\ UNCHANGED <<closing, live, used>>

(* A UTXO gets a handle nobody has had, the context of this moment and the *)
(* methods its constructor declares.                                       *)
LMint(r) ==
  /\ r.op \in {"new", "load"}
  /\ \E h \in used' \ used, ms \in SUBSET Methods :
       /\ used' = used \cup {h}
       /\ live' = [i \in DOMAIN live \cup {h} |-> IF i # h THEN live[i] ELSE
                     [ctx |-> context, declared |-> ms, version |-> 0, dead |-> FALSE]]
       /\ Done(r, TRUE, h)
  /\ UNCHANGED <<closing, context>>

(* A method the UTXO has declared, or a read of its storage: the guest may *)
(* declare more, a method that returns moves the storage on, and a trap    *)
(* closes the UTXO for good.                                               *)
Run(r, ok) ==
  /\ r.op \in {"call", "storageGet"} /\ r.h \in DOMAIN live
  /\ LET u == live[r.h] IN
       /\ r.op = "call" => r.arg \in u.declared
       /\ ok => ~u.dead
       /\ \E ms \in SUBSET Methods :
            live' = [live EXCEPT ![r.h] =
                       [ctx |-> u.ctx, declared |-> u.declared \cup ms, dead |-> u.dead \/ ~ok,
                        version |-> IF ok /\ r.op = "call" THEN u.version + 1 ELSE u.version]]
       /\ Done(r, ok, IF ok /\ r.op = "storageGet" THEN u.version ELSE None)
  /\ UNCHANGED <<closing, used, context>>

LDrop(r) ==
  /\ r.op = "drop" /\ r.h \in DOMAIN live
  /\ live' = [i \in DOMAIN live \ {r.h} |-> live[i]]
  /\ open' = open \ {r} /\ closing' = closing \cup {r}
  /\ UNCHANGED <<used, context, answers>>

Closed(r, ok) ==
  /\ closing' = closing \ {r} /\ Answered(r, ok, None)
  /\ UNCHANGED <<open, live, used, context>>

Effect(r) ==
  \/ Inspect(r) \/ SetContext(r) \/ LMint(r) \/ LDrop(r)
  \/ \E ok \in BOOLEAN : Run(r, ok)

LNext ==
  \/ Client
  \/ \E r \in open : LRefuse(r) \/ (Oldest(r) /\ Effect(r))
  \/ \E r \in closing, ok \in BOOLEAN : Closed(r, ok)

LSpec == LInit /\ [][LNext]_lvars
=============================================================================
