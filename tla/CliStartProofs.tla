--------------------------- MODULE CliStartProofs ---------------------------
(***************************************************************************)
(* For every component: what CliStart selects, makes, prints and serves    *)
(* fits together.                                                          *)
(***************************************************************************)
EXTENDS CliStart, TLAPS

\* What the checks done by each step leave for the steps after it.
Selected == export \in UtxoNames(Exports) /\ GetsUtxo(Exports, export)

Progress ==
  /\ contract \in Components
  /\ option \in {None} \cup DOMAIN Exports
  /\ at \in Steps \cup {"done", "err"}
  /\ failedAt \in Steps \cup {None}
  /\ at = "err" <=> failedAt # None
  /\ at \in {"construct", "render", "serve", "done"} => export # None
  /\ at \in {"render", "serve", "done"} => utxo # None

\* What the resource was made by.
Made ==
  /\ command = "new" => IsConstructor(Inst, Constructor)
  /\ command = "load" => HasStorage(Inst)

Checked ==
  /\ export # None => Selected
  /\ utxo # None => export # None /\ utxo = ResourceOf(Inst) /\ Made
  /\ \A name \in wit \cup served : IsMethod(Inst, name) /\ MethodHash(name) \in declared
  /\ at \in {"link", "select"} => export = None
  /\ at \in {"link", "select", "construct"} => utxo = None
  /\ at \in {"link", "select", "construct", "render"} => wit = {}
  /\ at # "done" => served = {}
  /\ at \in {"serve", "done"} => wit = Offered
  /\ at = "done" => served = wit

Inv == Progress /\ Checked

\* Nothing is selected, made, printed or served at first.
THEOREM StartInit == Init => Inv
  BY NoneIsFresh DEF Init, Inv, Progress, Checked, Steps, Exports, Inst

\* A failing step leaves what it does not set.
LEMMA FailedStep ==
  ASSUME Inv, at \in Steps, Fail, UNCHANGED <<args, export, utxo, declared, wit, served>>
  PROVE  Inv'
  BY NoneIsFresh
  DEF Inv, Progress, Checked, Selected, Made, Fail, args, Steps, Exports, Inst, Offered

\* Selecting an instance finds its UTXO type among the resources.
LEMMA SelectStep == ASSUME Inv, SelectNamed \/ SelectDefault PROVE Inv'
<1>1. at = "select" /\ at \in Steps /\ utxo = None /\ wit = {} /\ served = {}
  BY DEF Inv, Checked, SelectNamed, SelectDefault, Steps
<1>2. CASE Fail /\ export' = export
  BY <1>1, <1>2, FailedStep DEF SelectNamed, SelectDefault
<1>3. CASE ~(Fail /\ export' = export)
  <2>1. export' \in UtxoNames(Exports) /\ GetsUtxo(Exports, export')
    BY <1>3 DEF SelectNamed, SelectDefault, GetsUtxo, UtxoNames, IsKind, Only
  <2>2. export' # None
    BY <2>1, ComponentAssumption DEF UtxoNames, Exports, Inv, Progress
  <2>3. Continue("construct") /\ UNCHANGED <<args, utxo, declared, wit, served>>
    BY <1>3 DEF SelectNamed, SelectDefault
  <2> QED
    BY <1>1, <2>1, <2>2, <2>3
    DEF Inv, Progress, Checked, Selected, Made, Continue, args, Steps, Exports, Inst
<1> QED
  BY <1>2, <1>3

\* Constructors and set-storage return a UTXO of the selected instance.
LEMMA ConstructStep == ASSUME Inv, Mint \/ Load PROVE Inv'
<1>1. /\ at = "construct" /\ at \in Steps /\ export # None
      /\ utxo = None /\ wit = {} /\ served = {}
  BY DEF Inv, Progress, Checked, Mint, Load, Steps
<1>2. Selected /\ OwnsUtxo(Inst)
  BY <1>1 DEF Inv, Checked, Selected, GetsUtxo, Inst
<1>3. ResourceOf(Inst) # None
  BY <1>2, ComponentAssumption, NoneIsFresh
  DEF Inv, Progress, Selected, OwnsUtxo, Inst, Exports
<1>4. CASE Fail /\ UNCHANGED <<utxo, declared>>
  BY <1>1, <1>4, FailedStep DEF Mint, Load
<1>5. CASE ~(Fail /\ UNCHANGED <<utxo, declared>>)
  <2>1. /\ Continue("render") /\ UNCHANGED <<args, export, wit, served>>
        /\ \E name : /\ utxo' = Inst[name].results[1].of
                     /\ Inst[name].results = <<Own(ResourceOf(Inst))>>
    BY <1>2, <1>5
    DEF Mint, Load, Construct, IsConstructor, OwnsUtxo, StorageFits, HasFunc
  <2>2. utxo' = ResourceOf(Inst)
    BY <2>1 DEF Own
  <2>3. Made
    BY <1>5 DEF Mint, Load, Made
  <2> QED
    BY <1>1, <1>2, <1>3, <2>1, <2>2, <2>3
    DEF Made, Inv, Progress, Checked, Selected, Continue, args, Steps, Exports, Inst
<1> QED
  BY <1>4, <1>5

\* The loops over the methods stop at one that is not the UTXO's.
LEMMA MethodStep == ASSUME Inv, Render \/ Serve PROVE Inv'
<1>1. at \in Steps /\ served = {}
  BY DEF Inv, Checked, Render, Serve, Steps
<1>2. CASE Fail /\ UNCHANGED <<wit, served>>
  BY <1>1, <1>2, FailedStep DEF Render, Serve
<1>3. ASSUME Render, wit' = Offered, served' = served, Continue("serve") \/ Fail,
             \A name \in MethodNames(Inst) : IsMethod(Inst, name)
      PROVE  Inv'
  <2>1. \A name \in Offered : IsMethod(Inst, name) /\ MethodHash(name) \in declared
    BY <1>3 DEF Offered
  <2> QED
    BY <1>1, <1>3, <2>1, NoneIsFresh
    DEF Inv, Progress, Checked, Selected, Made, Continue, Fail, Render, args, Steps, Exports, Inst, Offered
<1>4. ASSUME Serve, served' = Offered, Continue("done")
      PROVE  Inv'
  BY <1>1, <1>4
  DEF Inv, Progress, Checked, Selected, Made, Continue, Serve, args, Steps, Exports, Inst, Offered
<1> QED
  BY <1>2, <1>3, <1>4 DEF Render, Serve

\* Every step, and every stuttering step, keeps the invariant.
LEMMA StartStep == ASSUME Inv, [Next]_vars PROVE Inv'
<1>1. CASE Link
  <2>1. CASE Fail
    BY <1>1, <2>1, FailedStep DEF Link, Steps
  <2>2. CASE Continue("select")
    BY <1>1, <2>2
    DEF Link, Inv, Progress, Checked, Selected, Made, Continue, args, Steps, Exports, Inst
  <2> QED
    BY <1>1, <2>1, <2>2 DEF Link
<1>2. CASE UNCHANGED vars
  BY <1>2 DEF vars, args, Inv, Progress, Checked, Selected, Made, Exports, Inst, Offered
<1> QED
  BY <1>1, <1>2, SelectStep, ConstructStep, MethodStep DEF Next

\* The checks of the earlier steps hold for whatever the later ones use.
THEOREM StartInvariant == Spec => []Inv
  BY StartInit, StartStep, PTL DEF Spec

\* The state of the program is well typed for every set of components.
THEOREM StartTypeCorrect == Spec => []TypeOK
<1>1. Inv => TypeOK
  <2> SUFFICES ASSUME Inv PROVE TypeOK
    OBVIOUS
  <2>1. export \in {None} \cup UtxoNames(Exports)
    BY DEF Inv, Checked, Selected
  <2>2. utxo \in Resources \cup {None}
    <3> SUFFICES ASSUME utxo # None PROVE utxo \in Resources
      OBVIOUS
    <3>1. Selected /\ utxo = ResourceOf(Inst)
      BY DEF Inv, Checked
    <3> QED
      BY <3>1, ComponentAssumption
      DEF Inv, Progress, Selected, GetsUtxo, OwnsUtxo, Exports, Inst
  <2> QED
    BY <2>1, <2>2 DEF Inv, Progress, TypeOK
<1> QED
  BY <1>1, StartInvariant, PTL

\* Whatever component the program is given, it calls no export with a resource
\* that is not of its type.
THEOREM OperationsAlwaysFit == Spec => []OperationsFit
<1>1. Inv => OperationsFit
  <2> SUFFICES ASSUME Inv PROVE OperationsFit
    OBVIOUS
  <2>1. ASSUME utxo # None
        PROVE  /\ \A name \in wit \cup served : Inst[name].params[1] = Borrow(utxo)
               /\ HasStorage(Inst) =>
                    HasFunc(Inst, GetName, <<Borrow(utxo)>>, <<Inst[Storage].of>>)
    BY <2>1 DEF Inv, Checked, Selected, GetsUtxo, Inst, IsMethod, OwnsUtxo, StorageFits
  <2> QED
    BY <2>1 DEF OperationsFit, Inv, Checked
<1> QED
  BY <1>1, StartInvariant, PTL

\* What the command line serves is what the page would offer of the same
\* contract and UTXO.
THEOREM FrontEndsAgree == Spec => []PageAgrees
<1>1. Inv => PageAgrees
  <2> SUFFICES ASSUME Inv, at = "done" PROVE PageAgrees
    BY DEF PageAgrees
  <2>1. Selected /\ Made /\ served = Offered
    BY DEF Inv, Progress, Checked
  <2>2. \A name \in Offered : IsMethod(Inst, name)
    BY <2>1 DEF Inv, Checked
  <2>3. /\ export \in DOMAIN Described(Exports)
        /\ Described(Exports)[export] =
             [constructors |-> Constructors(Inst), methods |-> OwnMethods(Inst),
              storage |-> HasStorage(Inst)]
    BY <2>1 DEF Described, Selected, Inst
  <2>4. command = "new" => Constructor \in Constructors(Inst)
    BY <2>1, ConstructorAssumption DEF Made, Constructors, IsConstructor, IsKind
  <2>5. served = OwnMethods(Inst) \cap Implemented(Inst, declared)
    BY <2>1, <2>2 DEF Offered, OwnMethods, Implemented
  <2> QED
    BY <2>1, <2>3, <2>4, <2>5 DEF PageAgrees, Made
<1> QED
  BY <1>1, StartInvariant, PTL
=============================================================================
