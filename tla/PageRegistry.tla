---------------------------- MODULE PageRegistry ----------------------------
(***************************************************************************)
(* How the playground page loads and unloads contracts                     *)
(* (crates/web/web/index.html: addContract, addFiles, addDefault and the   *)
(* terminate button).  Every drop of files and every click on the example  *)
(* button is an asynchronous task; tasks interleave at their awaits.       *)
(* What happens inside a loaded card is ContractCard.                      *)
(***************************************************************************)
EXTENDS Naturals, Sequences, FiniteSets, SequencesExt

CONSTANTS
  Tasks,       \* bound: drops of files and clicks on the example button
  Files,       \* file contents, told apart by their sha256
  Example,     \* the bundled score.wasm
  MaxDrop,     \* bound: files in one drop
  None

ASSUME RegistryAssumption ==
  Example \in Files /\ MaxDrop \in Nat /\ None \notin Files \cup Tasks

VARIABLES
  runtime,       \* is runtimeModule compiled?
  kind,          \* task -> "files", "example" or None
  rest,          \* task -> files it still has to load, the current one first
  stage,         \* task -> "idle", "read", "hash", "load", "done" or "failed"
  contracts,     \* registry.contracts: [file, task, status], one per card
  loadedHashes,
  button         \* "off" until the runtime is there, "ready" or "loaded"

vars == <<runtime, kind, rest, stage, contracts, loadedHashes, button>>

\* Mutant: the arguments are swapped.
CardSwapped(f, t, s) == [file |-> t, task |-> f, status |-> s]

Card(f, t, s) == [file |-> f, task |-> t, status |-> s]

Init ==
  /\ runtime = FALSE
  /\ kind = [t \in Tasks |-> None]
  /\ rest = [t \in Tasks |-> <<>>]
  /\ stage = [t \in Tasks |-> "idle"]
  /\ contracts = {} /\ loadedHashes = {}
  /\ button = "off"

(* compileStreaming's then: the example can be loaded from here on.        *)
Compiled ==
  /\ ~runtime
  /\ runtime' = TRUE /\ button' = "ready"
  /\ UNCHANGED <<kind, rest, stage, contracts, loadedHashes>>

Begin(t, k, fs) ==
  /\ stage[t] = "idle"
  /\ kind' = [kind EXCEPT ![t] = k]
  /\ rest' = [rest EXCEPT ![t] = fs]
  /\ stage' = [stage EXCEPT ![t] = "read"]
  /\ UNCHANGED <<runtime, contracts, loadedHashes, button>>

AddFiles(t) == \E fs \in BoundedSeq(Files, MaxDrop) \ {<<>>} : Begin(t, "files", fs)

AddDefault(t) == button = "ready" /\ Begin(t, "example", <<Example>>)

File(t) == Head(rest[t])

(* addContract returned: the task goes on with its next file.              *)
Advance(t) ==
  /\ rest' = [rest EXCEPT ![t] = Tail(@)]
  /\ stage' = [stage EXCEPT ![t] = IF Len(rest[t]) = 1 THEN "done" ELSE "read"]

(* The bytes arrive; without a runtime the file is rejected unhashed.      *)
BytesRead(t) ==
  /\ stage[t] = "read"
  /\ IF runtime THEN stage' = [stage EXCEPT ![t] = "hash"] /\ UNCHANGED rest
                ELSE Advance(t)
  /\ UNCHANGED <<runtime, kind, contracts, loadedHashes, button>>

(* arrayBuffer or fetch rejects, and with it the whole task: the remaining *)
(* files of the drop are left unread.                                      *)
ReadFails(t) ==
  /\ stage[t] = "read"
  /\ stage' = [stage EXCEPT ![t] = "failed"]
  /\ rest' = [rest EXCEPT ![t] = <<>>]
  /\ UNCHANGED <<runtime, kind, contracts, loadedHashes, button>>

\* Mutant: the loop over the files ends at a duplicate.
DuplicateEnds(t) ==
  /\ stage[t] = "hash" /\ File(t) \in loadedHashes
  /\ rest' = [rest EXCEPT ![t] = <<>>]
  /\ stage' = [stage EXCEPT ![t] = "done"]
  /\ UNCHANGED <<runtime, kind, contracts, loadedHashes, button>>

Duplicate(t) ==
  /\ stage[t] = "hash" /\ File(t) \in loadedHashes
  /\ Advance(t)
  /\ UNCHANGED <<runtime, kind, contracts, loadedHashes, button>>

(* The hash is taken and the card registered in one turn of the event      *)
(* loop; then addContract waits for the worker.                            *)
Register(t) ==
  /\ stage[t] = "hash" /\ File(t) \notin loadedHashes
  /\ loadedHashes' = loadedHashes \cup {File(t)}
  /\ contracts' = contracts \cup {Card(File(t), t, "loading")}
  /\ stage' = [stage EXCEPT ![t] = "load"]
  /\ UNCHANGED <<runtime, kind, rest, button>>

Loading(t) == Card(File(t), t, "loading")

(* addContract returns the entry, instantiated or failed alike.            *)
Loaded(t, status) ==
  /\ stage[t] = "load" /\ Loading(t) \in contracts
  /\ contracts' = (contracts \ {Loading(t)}) \cup {Card(File(t), t, status)}
  /\ Advance(t)
  /\ button' = IF kind[t] = "example" THEN "loaded" ELSE button
  /\ UNCHANGED <<runtime, kind, loadedHashes>>

\* Mutant: the hash stays behind.
TerminateKeepsHash(c) ==
  /\ contracts' = contracts \ {c}
  /\ button' = IF kind[c.task] = "example" THEN "ready" ELSE button
  /\ UNCHANGED <<runtime, kind, rest, stage, loadedHashes>>

\* Mutant: onUnload is not called.
TerminateNoUnload(c) ==
  /\ contracts' = contracts \ {c}
  /\ loadedHashes' = loadedHashes \ {c.file}
  /\ UNCHANGED <<runtime, kind, rest, stage, button>>

(* The terminate button, also of a card that is still loading: the worker  *)
(* that would have settled addContract's await is gone.                    *)
Terminate(c) ==
  /\ contracts' = contracts \ {c}
  /\ loadedHashes' = loadedHashes \ {c.file}
  /\ button' = IF kind[c.task] = "example" THEN "ready" ELSE button
  /\ UNCHANGED <<runtime, kind, rest, stage>>

Step(t) ==
  \/ BytesRead(t) \/ ReadFails(t)
  \/ Duplicate(t) \/ Register(t)
  \/ \E s \in {"instantiated", "failed"} : Loaded(t, s)

Next ==
  \/ Compiled
  \/ \E t \in Tasks : AddFiles(t) \/ AddDefault(t) \/ Step(t)
  \/ \E c \in contracts : Terminate(c)

Spec == Init /\ [][Next]_vars

(* Files are read and hashed and workers answer; the user is not obliged.  *)
FairSpec == Spec /\ \A t \in Tasks : WF_vars(Step(t))

-----------------------------------------------------------------------------
Statuses == {"loading", "instantiated", "failed"}

(* Every variable stays in its domain.                                     *)
TypeOK ==
  /\ runtime \in BOOLEAN /\ button \in {"off", "ready", "loaded"}
  /\ kind \in [Tasks -> {"files", "example", None}]
  /\ rest \in [Tasks -> BoundedSeq(Files, MaxDrop + 1)]
  /\ stage \in [Tasks -> {"idle", "read", "hash", "load", "done", "failed"}]
  /\ contracts \subseteq [file : Files, task : Tasks, status : Statuses]
  /\ loadedHashes \subseteq Files

(* No contract is loaded twice and the hashes are those of the loaded      *)
(* contracts, however the tasks' awaits interleave with each other and     *)
(* with terminations: a hash left behind would ban its contract for good.  *)
LoadedOnce ==
  /\ loadedHashes = {c.file : c \in contracts}
  /\ \A c, d \in contracts : c.file = d.file => c = d

(* The example button follows the card it loaded: disabled while that card *)
(* is there, loaded or failed, and clickable again once it is terminated,  *)
(* whenever in the load that happens.                                      *)
ButtonTracksExample ==
  button = "loaded" <=> \E c \in contracts : kind[c.task] = "example" /\ c.status # "loading"

Orphaned(t) == stage[t] = "load" /\ Loading(t) \notin contracts

(* Once the runtime is there, every file that was dropped is loaded, by its *)
(* task or by another one that has the same contract, whatever becomes of   *)
(* the files before it: a duplicate, a contract that fails, a card that is  *)
(* terminated later.  Two things end a task early: a file that cannot be    *)
(* read, and the termination of the card that it waits for.                 *)
FilesAreLoaded ==
  \A t \in Tasks, f \in Files :
    runtime /\ f \in ToSet(rest[t]) ~>
      f \in loadedHashes \/ stage[t] = "failed" \/ Orphaned(t)
=============================================================================
