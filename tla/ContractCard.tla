---------------------------- MODULE ContractCard ----------------------------
(***************************************************************************)
(* One contract card of the playground page over its Web Worker: what      *)
(* crates/web/web/index.html shows of a contract (its live UTXOs, their    *)
(* storage, the methods offered in the invocation panel, the Cardano form) *)
(* and how that follows the replies of WebWorker.                          *)
(*                                                                         *)
(* Page code runs in turns of one event loop: a click, or the message of a *)
(* reply together with everything the code awaiting it does.               *)
(***************************************************************************)
EXTENDS WebWorker, FiniteSetsExt

CONSTANT MaxClicks     \* bound: user actions and outside redraws

ASSUME CardAssumption == MaxClicks \in Nat /\ MaxRpc >= 3 + 3 * MaxClicks

VARIABLES
  phase,      \* "loading" (addContract), "ready", "failed" or "gone"
  awaits,     \* the RPC addContract awaits, or None
  fields,     \* what the Cardano form shows
  live,       \* entry.liveHandles
  dropping,   \* handles whose drop button was clicked
  shown,      \* handle -> storage on display (None: an error)
  here,       \* does the invocation panel show this contract?
  sel,        \* the selected live UTXO, or None
  panel,      \* method lists appended to the panel since it was cleared
  clicks

pageVars == <<phase, awaits, fields, live, dropping, shown, here, sel, panel, clicks>>
cardVars == <<vars, pageVars>>

Plain(op) == [op |-> op, h |-> None, arg |-> None]
On(op, h) == [op |-> op, h |-> h, arg |-> None]
Cardano(c) == [op |-> "setCardano", h |-> None, arg |-> c]

CardInit ==
  /\ Init
  /\ phase = "loading" /\ awaits = 0
  /\ fields = Default
  /\ live = {} /\ dropping = {} /\ shown = <<>>
  /\ here \in BOOLEAN /\ sel = None /\ panel = <<>> /\ clicks = 0

-----------------------------------------------------------------------------
(* rebuildUtxos keeps the selection while it is live and else takes the    *)
(* first option; renderMethods then clears the panel and asks which        *)
(* methods the selected UTXO implements.  While the panel shows another    *)
(* contract nothing of this one is selected.                               *)

Selection(s, hs) ==
  IF ~here \/ hs = {} THEN None ELSE IF s \in hs THEN s ELSE Min(hs)

Asked(s) == IF s = None THEN <<>> ELSE <<On("implemented", s)>>

\* Mutant: the selection is not checked against the live UTXOs.
RedrawKeeps(hs) ==
  /\ live' = hs
  /\ sel' = IF sel = None THEN Selection(sel, hs) ELSE sel
  /\ panel' = <<>>

\* Mutant: a new UTXO takes the place of the others.
RedrawLatest(hs) ==
  /\ live' = IF hs = {} THEN {} ELSE {Max(hs)}
  /\ sel' = Selection(sel, live')
  /\ panel' = <<>>

Redraw(hs) ==
  /\ live' = hs
  /\ sel' = Selection(sel, hs)
  /\ panel' = <<>>

-----------------------------------------------------------------------------
(* User actions.                                                           *)

Click ==
  /\ phase # "gone" /\ clicks < MaxClicks
  /\ clicks' = clicks + 1
  /\ UNCHANGED <<outbox, workerVars, awaits, shown>>

(* A Construct button, or Load of the from-storage panel.                  *)
ClickMint(op) ==
  /\ phase = "ready" /\ Click
  /\ Post(<<Plain(op)>>)
  /\ UNCHANGED <<log, here, phase, fields, live, dropping, sel, panel>>

ClickMethod(m) ==
  /\ \E i \in 1..Len(panel) : m \in panel[i].enabled
  /\ Click
  /\ Post(<<[op |-> "call", h |-> sel, arg |-> m]>>)
  /\ UNCHANGED <<log, here, phase, fields, live, dropping, sel, panel>>

ClickDrop(h) ==
  /\ h \notin dropping /\ Click
  /\ dropping' = dropping \cup {h}
  /\ Post(<<On("drop", h)>>)
  /\ UNCHANGED <<log, here, phase, fields, live, sel, panel>>

SelectUtxo(h) ==
  /\ here /\ sel # h /\ Click
  /\ sel' = h /\ panel' = <<>>
  /\ Post(Asked(h))
  /\ UNCHANGED <<log, here, phase, fields, live, dropping>>

ChangeField(c) ==
  /\ fields # c /\ Click
  /\ fields' = c
  /\ Post(<<Cardano(c)>>)
  /\ UNCHANGED <<log, here, phase, live, dropping, sel, panel>>

\* Mutant: the redraw clears the panel and does not ask again.
OtherContractClears ==
  /\ sel # None /\ Click
  /\ Redraw(live)
  /\ UNCHANGED <<proxyVars, inbox, here, phase, fields, dropping>>

(* registry.notify() on behalf of another contract: the panel is redrawn.  *)
OtherContract ==
  /\ sel # None /\ Click
  /\ Redraw(live)
  /\ Post(Asked(sel))
  /\ UNCHANGED <<log, here, phase, fields, dropping>>

(* The contract dropdown, or a contract that comes or goes above this one, *)
(* moves the panel.  Handles of different contracts have the same ids, so  *)
(* the selection that is kept may be the other contract's.                 *)
SwitchContract ==
  /\ Click
  /\ here' = ~here /\ panel' = <<>>
  /\ IF here' /\ live # {} THEN sel' \in live ELSE sel' = None
  /\ Post(Asked(sel'))
  /\ UNCHANGED <<log, phase, fields, live, dropping>>

ClearLog ==
  /\ here /\ log # <<>> /\ Click
  /\ log' = <<>>
  /\ UNCHANGED <<nextRpc, pending, inbox, here, phase, fields, live, dropping, sel, panel>>

(* The worker is terminated: messages and the running operation are lost,  *)
(* and the promises of its calls stay pending.                             *)
ClickTerminate ==
  /\ phase # "gone" /\ clicks < MaxClicks
  /\ clicks' = clicks + 1
  /\ phase' = "gone"
  /\ inbox' = <<>> /\ outbox' = <<>> /\ cur' = None
  /\ UNCHANGED <<proxyVars, boot, contractVars, events, emitted,
                 awaits, fields, live, dropping, shown, here, sel, panel>>

-----------------------------------------------------------------------------
(* What the page does with reply r to its request p.                       *)

\* Mutant: the form is not applied while loading.
NextOfLoadBare(op) ==
  IF op = "boot" THEN <<Plain("instantiate")>>
  ELSE IF op = "instantiate" THEN <<Plain("describe")>> ELSE <<>>

(* addContract: ready, instantiate, applyCardano, describe, render.        *)
NextOfLoad(op) ==
  CASE op = "boot"        -> <<Plain("instantiate")>>
    [] op = "instantiate" -> <<Cardano(fields)>>
    [] op = "setCardano"  -> <<Plain("describe")>>
    [] op = "describe"    -> <<>>

LoadStep(p, r) ==
  LET ps == IF r.ok THEN NextOfLoad(p.op) ELSE <<>> IN
    /\ p.id = awaits
    /\ Settle(p, r, ps)
    /\ awaits' = IF ps = <<>> THEN None ELSE nextRpc
    /\ phase' = IF ~r.ok THEN "failed" ELSE IF ps = <<>> THEN "ready" ELSE "loading"
    /\ UNCHANGED <<fields, live, dropping, shown, here, sel, panel>>

(* addHandle: the card reads its storage, then the panel is redrawn.       *)
Minted(p, r) ==
  /\ p.op \in Mints /\ r.ok
  /\ Redraw(live \cup {r.result})
  /\ Settle(p, r, <<On("storageGet", r.result)>> \o Asked(sel'))
  /\ UNCHANGED <<here, phase, awaits, fields, dropping, shown>>

\* Mutant: the storage view is not refreshed after a call.
CalledSilently(p, r) ==
  /\ p.op = "call" /\ r.ok
  /\ Settle(p, r, <<>>)
  /\ UNCHANGED <<phase, awaits, fields, live, dropping, shown, here, sel, panel>>

(* A successful method call refreshes its UTXO's storage view.             *)
Called(p, r) ==
  /\ p.op = "call" /\ r.ok
  /\ Settle(p, r, <<On("storageGet", p.h)>>)
  /\ UNCHANGED <<phase, awaits, fields, live, dropping, shown, here, sel, panel>>

(* The card goes whether or not the drop succeeded.                        *)
Dropped(p, r) ==
  /\ p.op = "drop"
  /\ Redraw(live \ {p.h})
  /\ Settle(p, r, Asked(sel'))
  /\ dropping' = dropping \ {p.h}
  /\ shown' = [h \in DOMAIN shown \ {p.h} |-> shown[h]]
  /\ UNCHANGED <<here, phase, awaits, fields>>

\* Mutant: the selection is not looked at again after the await.
MethodsKnownLate(p, r) ==
  /\ p.op = "implemented"
  /\ panel' = Append(panel, [enabled |-> IF r.ok THEN r.result ELSE Methods])
  /\ Settle(p, r, <<>>)
  /\ UNCHANGED <<phase, awaits, fields, live, dropping, shown, here, sel>>

(* renderMethods resumes: unless the selection moved on, it appends the    *)
(* methods, all of them enabled when the query failed.                     *)
MethodsKnown(p, r) ==
  /\ p.op = "implemented"
  /\ panel' = IF sel # p.h THEN panel
              ELSE Append(panel, [enabled |-> IF r.ok THEN r.result ELSE Methods])
  /\ Settle(p, r, <<>>)
  /\ UNCHANGED <<phase, awaits, fields, live, dropping, shown, here, sel>>

StorageRead(p, r) ==
  /\ p.op = "storageGet"
  /\ shown' = [h \in DOMAIN shown \cup ({p.h} \cap live) |->
                 IF h = p.h THEN r.result ELSE shown[h]]
  /\ Settle(p, r, <<>>)
  /\ UNCHANGED <<phase, awaits, fields, live, dropping, here, sel, panel>>

(* An outcome that is only reported, or that nobody looks at.              *)
Reported(p, r) ==
  /\ p.id # awaits
  /\ p.op = "setCardano" \/ (p.op \in Mints \cup {"call"} /\ ~r.ok)
  /\ Settle(p, r, <<>>)
  /\ UNCHANGED <<phase, awaits, fields, live, dropping, shown, here, sel, panel>>

OnReply ==
  /\ outbox # <<>>
  /\ \E p \in pending : LET r == Head(outbox) IN
       /\ p.id = r.id
       /\ \/ LoadStep(p, r)
          \/ Minted(p, r)
          \/ Called(p, r)
          \/ Dropped(p, r)
          \/ MethodsKnown(p, r)
          \/ StorageRead(p, r)
          \/ Reported(p, r)
  /\ UNCHANGED <<workerVars, clicks>>

User ==
  \/ \E op \in Mints : ClickMint(op)
  \/ \E m \in Methods : ClickMethod(m)
  \/ \E h \in live : ClickDrop(h) \/ SelectUtxo(h)
  \/ \E c \in Contexts : ChangeField(c)
  \/ OtherContract \/ SwitchContract
  \/ ClearLog
  \/ ClickTerminate

CardNext ==
  \/ User
  \/ OnReply
  \/ WorkerStep /\ UNCHANGED pageVars

CardSpec == CardInit /\ [][CardNext]_cardVars

(* Messages are delivered and guest functions return or trap; the user may *)
(* do anything or nothing.                                                 *)
CardFairness ==
  /\ WF_cardVars(OnMessage /\ UNCHANGED pageVars)
  /\ WF_cardVars((\E ok \in BOOLEAN : Finish(ok)) /\ UNCHANGED pageVars)
  /\ WF_cardVars(OnReply)

FairCardSpec == CardSpec /\ CardFairness

-----------------------------------------------------------------------------
(* The page's variables stay in their domains.                             *)
CardTypeOK ==
  /\ phase \in {"loading", "ready", "failed", "gone"}
  /\ awaits \in {None} \cup 0..MaxRpc /\ clicks \in 0..MaxClicks
  /\ fields \in Contexts
  /\ live \subseteq Ids /\ dropping \subseteq live
  /\ DOMAIN shown \subseteq live
  /\ here \in BOOLEAN /\ sel \in {None} \cup live /\ (sel # None => here)
  /\ \A i \in 1..Len(panel) : panel[i].enabled \subseteq Methods

Waits(op, h) == \E p \in pending : p.op = op /\ p.h = h
Announced(h) == \E i \in 1..Len(outbox) : \E p \in pending :
                   p.id = outbox[i].id /\ p.op \in Mints /\ outbox[i].ok /\ outbox[i].result = h

(* The cards and the handle table agree: every UTXO the runtime keeps has  *)
(* a card or one on its way, so none is leaked out of the user's reach,    *)
(* and a card whose UTXO is gone is already being dropped.                 *)
CardsMatchTable ==
  phase # "gone" =>
    /\ \A h \in DOMAIN table : h \in live \/ Announced(h)
    /\ live \ DOMAIN table \subseteq dropping

(* Once the card is ready and no setCardano is on its way, the runtime     *)
(* mints with the context the form shows, whatever was typed while it      *)
(* loaded (those early calls are refused and nobody notices).              *)
FormIsApplied ==
  phase = "ready" /\ ~(\E p \in pending : p.op = "setCardano") => cardano = fields

(* The storage on a card is the UTXO's current one as soon as no call and  *)
(* no read of it is outstanding.                                           *)
StorageIsCurrent ==
  \A h \in live \cap DOMAIN table :
    phase # "gone" /\ ~table[h].dead
      /\ ~Waits("storageGet", h) /\ ~(\E p \in pending : p.op = "call" /\ p.h = h)
    => h \in DOMAIN shown /\ shown[h] = table[h].version

(* Every method the panel offers is one the selected UTXO declared, also   *)
(* when replies for an earlier selection arrive late; and no call made     *)
(* from it is refused by the implements-method gate.                       *)
OnlyCallableOffered ==
  /\ sel \in DOMAIN table =>
       \A i \in 1..Len(panel) : panel[i].enabled \subseteq table[sel].declared
  /\ \A p \in pending : p.op = "call" /\ p.h \in DOMAIN table => p.arg \in table[p.h].declared

(* A ready card with no query outstanding offers the methods of the UTXO   *)
(* that is selected: a redraw or a change of contract never ends with an   *)
(* empty panel, nor with none selected while there is one.                 *)
PanelIsDrawn ==
  /\ phase = "ready" /\ here /\ live # {} => sel # None
  /\ phase = "ready" /\ sel # None /\ ~Waits("implemented", sel) => panel # <<>>

(* The panel lists the methods of the selected UTXO once.                  *)
DrawnOnce == Len(panel) <= 1

(* A card does not stay in its loading state: it gets ready, or reports    *)
(* the boot or the call that failed.                                       *)
LoadingEnds == phase = "loading" ~> phase # "loading"
=============================================================================
