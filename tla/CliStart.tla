------------------------------ MODULE CliStart ------------------------------
(***************************************************************************)
(* crates/cli/src/bin/starstream-run.rs up to the serve loop: the contract *)
(* is loaded and linked, an instance is selected, a UTXO is minted or      *)
(* loaded, its interface is printed and its methods are handed to the      *)
(* server (whose loop is ServeLoop).  Every failure ends the program.      *)
(***************************************************************************)
EXTENDS Runtime

CONSTANTS
  Components,   \* the contracts under study: records of imports and exports
  Commands,     \* "new", "load"
  Constructor   \* the name given by --constructor, or its default

ASSUME ComponentAssumption ==
  \A c \in Components :
    /\ None \notin DOMAIN c.exports
    /\ \A name \in UtxoNames(c.exports) :
         LET inst == c.exports[name].exports IN
         IsKind(inst, Utxo, "resource") => ResourceOf(inst) \in Resources

\* `[static]utxo.{constructor}'
ASSUME ConstructorAssumption == Constructor[1] = "static"

ASSUME NoneIsFresh == None \notin Resources \cup {"link", "select", "construct", "render", "serve"}

VARIABLES
  contract,   \* the component given on the command line
  option,     \* --utxo, or None
  command,    \* new or load
  at,         \* the next step, or "done"; a failed program stops at "err"
  failedAt,   \* the step that failed, or None
  export,     \* the instance that was selected, or None
  utxo,       \* the type of the resource that was made, or None
  declared,   \* the hashes the guest declared by implements-method
  wit,        \* the methods of the printed interface
  served      \* the methods registered with the server

args == <<contract, option, command>>
vars == <<args, at, failedAt, export, utxo, declared, wit, served>>

Steps == {"link", "select", "construct", "render", "serve"}
Exports == contract.exports
Inst == Exports[export].exports

Init ==
  /\ contract \in Components
  /\ option \in {None} \cup DOMAIN contract.exports
  /\ command \in Commands
  /\ at = "link" /\ failedAt = None
  /\ export = None /\ utxo = None
  /\ declared = {} /\ wit = {} /\ served = {}

\* `?' and bail!
Fail == at' = "err" /\ failedAt' = at

Continue(next) == at' = next /\ failedAt' = failedAt

\* Contract::new; the bytes may also fail to be encoded, compiled or resolved.
Link ==
  /\ at = "link"
  /\ \/ Links(contract.imports) /\ Continue("select")
     \/ Fail
  /\ UNCHANGED <<args, export, utxo, declared, wit, served>>

\* --utxo
SelectNamed ==
  /\ at = "select" /\ option # None
  /\ IF GetsUtxo(Exports, option)
     THEN export' = option /\ Continue("construct")
     ELSE export' = export /\ Fail
  /\ UNCHANGED <<args, utxo, declared, wit, served>>

Only(name) == UtxoNames(Exports) = {name}

\* Without --utxo the contract must export exactly one instance, of any kind,
\* and that one must own a UTXO.
SelectDefault ==
  /\ at = "select" /\ option = None
  /\ IF \E name \in UtxoNames(Exports) : Only(name) /\ GetsUtxo(Exports, name)
     THEN (\E name \in UtxoNames(Exports) : Only(name) /\ export' = name) /\ Continue("construct")
     ELSE export' = export /\ Fail
  /\ UNCHANGED <<args, utxo, declared, wit, served>>

\* construct_utxo: the guest runs, declares methods, and returns or traps.
Construct(name) ==
  \/ /\ utxo' = Inst[name].results[1].of
     /\ declared' \in SUBSET {MethodHash(n) : n \in MethodNames(Inst)}
     /\ Continue("render")
  \/ UNCHANGED <<utxo, declared>> /\ Fail

Mint ==
  /\ at = "construct" /\ command = "new"
  /\ IF IsConstructor(Inst, Constructor)
     THEN Construct(Constructor)
     ELSE UNCHANGED <<utxo, declared>> /\ Fail
  /\ UNCHANGED <<args, export, wit, served>>

\* Mutant: a contract without storage is not refused.
LoadWithout ==
  /\ at = "construct" /\ command = "load"
  /\ IF HasStorage(Inst)
     THEN Construct(SetName)
     ELSE UNCHANGED <<utxo, declared>> /\ Continue("render")
  /\ UNCHANGED <<args, export, wit, served>>

Load ==
  /\ at = "construct" /\ command = "load"
  /\ IF HasStorage(Inst)
     THEN Construct(SetName)
     ELSE UNCHANGED <<utxo, declared>> /\ Fail
  /\ UNCHANGED <<args, export, wit, served>>

Offered == {name \in MethodNames(Inst) : MethodHash(name) \in declared}

\* One listed method that is not the UTXO's ends the program, declared or not.
\* What is printed is then parsed, which may fail.
Render ==
  /\ at = "render"
  /\ \/ /\ \A name \in MethodNames(Inst) : IsMethod(Inst, name)
        /\ wit' = Offered /\ (Continue("serve") \/ Fail)
     \/ /\ \E name \in MethodNames(Inst) : ~IsMethod(Inst, name)
        /\ wit' = wit /\ Fail
  /\ UNCHANGED <<args, export, utxo, declared, served>>

\* --serve, whose address may be taken; a method of an alias of the resource
\* has no `[method]utxo.' prefix.
Serve ==
  /\ at = "serve"
  /\ \/ /\ \A name \in Offered : IsMethod(Inst, name) /\ name[2] = "utxo"
        /\ served' = Offered /\ Continue("done")
     \/ served' = served /\ Fail
  /\ UNCHANGED <<args, export, utxo, declared, wit>>

Next == Link \/ SelectNamed \/ SelectDefault \/ Mint \/ Load \/ Render \/ Serve

Spec == Init /\ [][Next]_vars
-----------------------------------------------------------------------------
(* Properties.                                                             *)

\* The program is at one of its steps or has ended, and has what the steps
\* before this one gave it: a selected instance, then a UTXO.
TypeOK ==
  /\ at \in Steps \cup {"done", "err"}
  /\ failedAt \in Steps \cup {None}
  /\ at = "err" <=> failedAt # None
  /\ option \in {None} \cup DOMAIN Exports
  /\ export \in {None} \cup UtxoNames(Exports)
  /\ utxo \in Resources \cup {None}
  /\ at \in {"construct", "render", "serve", "done"} => export # None
  /\ at \in {"render", "serve", "done"} => utxo # None

\* Whatever component it is given, the program calls no export with a resource
\* that is not of its type: the UTXO that was made, by a constructor or from a
\* storage record, is of the resource type that every method it prints or
\* serves borrows, and that get-storage borrows; and it serves what it prints,
\* all of it declared by the guest.
OperationsFit ==
  /\ utxo # None =>
       /\ \A name \in wit \cup served : Inst[name].params[1] = Borrow(utxo)
       /\ HasStorage(Inst) =>
            HasFunc(Inst, GetName, <<Borrow(utxo)>>, <<Inst[Storage].of>>)
  /\ \A name \in wit \cup served : MethodHash(name) \in declared
  /\ at = "done" => served = wit

\* The two front ends of the runtime agree: a UTXO that the command line can
\* make and serve is one that the page describes, with the constructor or the
\* storage it was made by, and the methods served are those the page enables.
PageAgrees ==
  at = "done" =>
    /\ export \in DOMAIN Described(Exports)
    /\ LET d == Described(Exports)[export] IN
         /\ command = "new" => Constructor \in d.constructors
         /\ command = "load" => d.storage
         /\ served = d.methods \cap Implemented(Inst, declared)

\* What --utxo promises (starstream-run.rs:45-46): it `defaults to the only such
\* instance the contract exports', such being one that owns the `utxo' resource.
DefaultsToTheOwner ==
  failedAt = "select" /\ option = None =>
    ~ \E name \in DOMAIN Exports :
        {n \in DOMAIN Exports : GetsUtxo(Exports, n)} = {name}
=============================================================================
