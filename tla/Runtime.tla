------------------------------ MODULE Runtime -------------------------------
(***************************************************************************)
(* crates/runtime/src/lib.rs: what the runtime accepts of a component.     *)
(* Pure operators: which imports can be linked, which exported instances   *)
(* own a `utxo' resource, and which of their functions are constructors,   *)
(* methods and storage accessors of it.                                    *)
(*                                                                         *)
(* A component is a record of its imports and exports, functions from names *)
(* to items.  A name is a tuple: <<"storage">> is a plain name, <<"static", *)
(* "utxo", "new">> stands for `[static]utxo.new', <<"method", "utxo", "m">> *)
(* for `[method]utxo.m'.  Each get_* operator says what is found; a bail!  *)
(* of the code is the operator not holding.                                *)
(***************************************************************************)
EXTENDS Naturals, Sequences

CONSTANTS
  Resources,   \* resource types of the component
  Records,     \* its record types
  None

(* Types of values: the resource and record types that are told apart. *)
Own(r)    == [type |-> "own", of |-> r]
Borrow(r) == [type |-> "borrow", of |-> r]
Record(s) == [type |-> "record", of |-> s]
Scalar    == [type |-> "scalar", of |-> None]

(* Items that a component or an instance may import or export. *)
Resource(r)              == [kind |-> "resource", of |-> r]
Type(t)                  == [kind |-> "type", of |-> t]
Func(params, results)    == [kind |-> "func", params |-> params, results |-> results]
InstanceOf(exports)      == [kind |-> "instance", exports |-> exports]
Unsupported              == [kind |-> "unsupported"]  \* a core function, module or component

Utxo     == <<"utxo">>
Storage  == <<"storage">>
GetName  == <<"get-storage">>
SetName  == <<"set-storage">>

IsKind(exports, name, kind) == name \in DOMAIN exports /\ exports[name].kind = kind
-----------------------------------------------------------------------------
(* Imports. *)

\* link_instance: events and types only, and no `utxo', whatever it is.
LinksInstance(exports) ==
  /\ Utxo \notin DOMAIN exports
  /\ \A name \in DOMAIN exports : exports[name].kind \in {"func", "type"}

\* The instances the host itself provides: starstream:std/...
IsBuiltin(name) == name[1] = "starstream:std"

LinksImport(name, item) ==
  \/ IsBuiltin(name)
  \/ item.kind = "type"
  \/ item.kind = "instance" /\ LinksInstance(item.exports)

\* link_dynamic_imports: one import that is not supported refuses the contract.
Links(imports) == \A name \in DOMAIN imports : LinksImport(name, imports[name])
-----------------------------------------------------------------------------
(* Exported instances that own a `utxo' resource. *)

ResourceOf(inst) == inst[Utxo].of

HasFunc(inst, name, params, results) ==
  /\ IsKind(inst, name, "func")
  /\ inst[name].params = params /\ inst[name].results = results

\* The `storage' export, if there is one, is a record, which get-storage reads
\* off a borrowed UTXO and set-storage makes a UTXO of.
StorageFits(inst) ==
  LET s == inst[Storage].of IN
  /\ IsKind(inst, Storage, "type") /\ s.type = "record"
  /\ HasFunc(inst, GetName, <<Borrow(ResourceOf(inst))>>, <<s>>)
  /\ HasFunc(inst, SetName, <<s>>, <<Own(ResourceOf(inst))>>)

HasStorage(inst) == Storage \in DOMAIN inst

\* get_utxo_typed
OwnsUtxo(inst) ==
  /\ IsKind(inst, Utxo, "resource")
  /\ HasStorage(inst) => StorageFits(inst)

\* get_utxo
GetsUtxo(exports, name) ==
  IsKind(exports, name, "instance") /\ OwnsUtxo(exports[name].exports)

\* utxos: every exported instance, those that own no UTXO as an error.
UtxoNames(exports) == {name \in DOMAIN exports : exports[name].kind = "instance"}
-----------------------------------------------------------------------------
(* Constructors and methods of an instance that owns a UTXO. *)

\* Mutant: the resource type of the result is not compared with the UTXO's.
IsConstructorOfAny(inst, name) ==
  /\ IsKind(inst, name, "func")
  /\ \E r \in Resources : inst[name].results = <<Own(r)>>

\* get_utxo_constructor: the single result is a UTXO of this instance.
IsConstructor(inst, name) ==
  /\ IsKind(inst, name, "func")
  /\ inst[name].results = <<Own(ResourceOf(inst))>>

\* get_utxo_method: the first parameter borrows a UTXO of this instance.
IsMethod(inst, name) ==
  /\ IsKind(inst, name, "func")
  /\ inst[name].params # <<>> /\ inst[name].params[1] = Borrow(ResourceOf(inst))

\* utxo_methods: every function `[method]...', of whatever resource.
MethodNames(inst) == {name \in DOMAIN inst : name[1] = "method" /\ inst[name].kind = "func"}

\* method_hash: the last segment of the name; the resource is left out of it.
MethodHash(name) == name[Len(name)]

\* utxo_constructors and the ones of utxo_methods that are the UTXO's own.
Constructors(inst) == {name \in DOMAIN inst : name[1] = "static" /\ IsConstructor(inst, name)}
OwnMethods(inst) == {name \in MethodNames(inst) : IsMethod(inst, name)}

\* The web crate's describe: what the page shows of a contract.  Where the CLI
\* ends with an error the page leaves the export out.
Described(exports) ==
  [name \in {n \in UtxoNames(exports) : GetsUtxo(exports, n)} |->
     LET inst == exports[name].exports IN
     [constructors |-> Constructors(inst), methods |-> OwnMethods(inst),
      storage |-> HasStorage(inst)]]

\* Mutant: every method of the UTXO is offered, declared or not.
ImplementedOfAny(inst, declared) == OwnMethods(inst)

\* The web crate's implemented_methods: the methods the page enables.
Implemented(inst, declared) ==
  {name \in OwnMethods(inst) : MethodHash(name) \in declared}
=============================================================================
