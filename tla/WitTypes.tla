------------------------------ MODULE WitTypes ------------------------------
(***************************************************************************)
(* Component types as wasmtime hands them to the code (external): what     *)
(* both conversions of values, Codec and JsonVals, are driven by.  A type  *)
(* is [k, p]: its kind and what the kind is built from.  A case of a       *)
(* variant is a name and the at most one type of its payload; a result has *)
(* one such payload for each side.                                         *)
(***************************************************************************)
EXTENDS Integers, Sequences, SequencesExt, FiniteSets

CONSTANTS
  ValTypes,   \* component types, with all their parts
  Depth(_)    \* how deep a type or a value is nested

TypeParts(t) ==
  CASE t.k \in {"list", "option"} -> {t.p}
    [] t.k = "tuple" -> ToSet(t.p)
    [] t.k = "record" -> {f[2] : f \in ToSet(t.p)}
    [] t.k = "variant" -> UNION {ToSet(c[2]) : c \in ToSet(t.p)}
    [] t.k = "result" -> UNION {ToSet(side) : side \in ToSet(t.p)}
    [] OTHER -> {}

CaseNames(cs) == [i \in DOMAIN cs |-> cs[i][1]]
AtMostOne(S) == {s \in Seq(S) : Len(s) <= 1}

(* Types are finite trees; the names of a record's fields, a variant's     *)
(* cases, an enum and flags are distinct, as WIT demands.                  *)
ASSUME TypeAssumption ==
  \A t \in ValTypes :
    /\ Depth(t) \in Nat
    /\ \A p \in TypeParts(t) : p \in ValTypes /\ Depth(p) < Depth(t)
    /\ t.k = "tuple" => t.p \in Seq(ValTypes)
    /\ t.k = "record" => t.p \in Seq(STRING \X ValTypes)
    /\ t.k = "variant" => t.p \in Seq(STRING \X AtMostOne(ValTypes))
    /\ t.k \in {"record", "variant"} => IsInjective(CaseNames(t.p))
    /\ t.k = "result" => t.p \in AtMostOne(ValTypes) \X AtMostOne(ValTypes)
    /\ t.k \in {"enum", "flags"} => t.p \in Seq(ToSet(t.p)) /\ IsInjective(t.p)

(* What sequences have their elements in the given sets, place by place.   *)
Product(Ss) == {vs \in [DOMAIN Ss -> UNION {Ss[i] : i \in DOMAIN Ss}] :
                  \A i \in DOMAIN Ss : vs[i] \in Ss[i]}
=============================================================================
