----------------------------- MODULE MCCliStart -----------------------------
(***************************************************************************)
(* Instances of CliStart for TLC: a contract whose main instance has any   *)
(* kind of `utxo', storage accessors of right and wrong types, a           *)
(* constructor and methods of its own or of another resource, next to      *)
(* another export and an import.                                           *)
(***************************************************************************)
EXTENDS CliStart, TLC

New      == <<"static", "utxo", "new">>
Get      == <<"method", "utxo", "get">>
HelpGet  == <<"method", "helper", "get">>
Main     == <<"main">>
Other    == <<"other">>

MCCommands == {"new", "load"}
R == CHOOSE r \in Resources : TRUE
Q == CHOOSE r \in Resources : r # R
A == CHOOSE s \in Records : TRUE
B == CHOOSE s \in Records : s # A

Maybe(name, items) == {<<>>} \cup {name :> item : item \in items}

Utxos    == Maybe(Utxo, {Resource(R), Type(Scalar)})
Ctors    == Maybe(New, {Func(<<>>, <<Own(R)>>), Func(<<>>, <<Own(Q)>>), Func(<<>>, <<>>), Type(Scalar)})
Getters  == Maybe(Get, {Func(<<Borrow(R)>>, <<Scalar>>)})
Helpers  == Maybe(HelpGet, {Func(<<Borrow(Q)>>, <<>>), Func(<<Borrow(R)>>, <<>>)})
Storages ==
  {<<>>, Storage :> Type(Scalar), Storage :> Func(<<>>, <<>>)} \cup
  {s @@ g @@ t :
     s \in {Storage :> Type(Record(A))},
     g \in Maybe(GetName, {Func(<<Borrow(R)>>, <<Record(A)>>), Func(<<Borrow(Q)>>, <<Record(A)>>),
                           Func(<<Borrow(R), Scalar>>, <<Record(A)>>), Func(<<Borrow(R)>>, <<Record(B)>>)}),
     t \in Maybe(SetName, {Func(<<Record(A)>>, <<Own(R)>>), Func(<<Record(A)>>, <<Own(Q)>>),
                           Func(<<Record(B)>>, <<Own(R)>>), Type(Scalar)})}

Insts == {u @@ c @@ m @@ h @@ s :
            u \in Utxos, c \in Ctors, m \in Getters, h \in Helpers, s \in Storages}

Others == Maybe(Other, {InstanceOf(Get :> Func(<<>>, <<>>)),
                        InstanceOf((Utxo :> Resource(Q)) @@ (New :> Func(<<>>, <<Own(Q)>>))),
                        Func(<<>>, <<>>)})

Imports == {<<>>, <<"starstream:std", "cardano">> :> InstanceOf(Utxo :> Resource(Q)),
            <<"abi">> :> InstanceOf(<<"event">> :> Func(<<>>, <<>>)),
            <<"abi">> :> InstanceOf(Utxo :> Resource(Q)),
            <<"abi">> :> InstanceOf(<<"event">> :> Unsupported),
            <<"abi">> :> Func(<<>>, <<>>)}

MCComponents ==
  {[imports |-> <<>>, exports |-> (Main :> InstanceOf(i)) @@ o] : i \in Insts, o \in Others}
  \cup {[imports |-> m, exports |-> (Main :> InstanceOf(<<>>)) @@ o] : m \in Imports, o \in Others}

\* Components that a run of the first selection needs.
SmallComponents == {[imports |-> <<>>, exports |-> (Main :> InstanceOf(i)) @@ o] :
                      i \in {(Utxo :> Resource(R)) @@ (New :> Func(<<>>, <<Own(R)>>))}, o \in Others}
=============================================================================
