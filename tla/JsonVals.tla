------------------------------ MODULE JsonVals ------------------------------
(***************************************************************************)
(* Component values across the JavaScript boundary: val_to_json,           *)
(* json_to_val, convert_args and handle_id of crates/web/src/lib.rs, and   *)
(* the input widgets of crates/web/web/index.html.  The page shows a       *)
(* handle and values the runtime holds; the user types them back, or       *)
(* something else, and the call is lowered to the parameter types.         *)
(*                                                                         *)
(* Types are [k, p] and values [k, v] as in Codec; a float is <<>> when it *)
(* is not finite.  JSON is [k, v]; a number counts halves, so that 3 is    *)
(* 1.5.  What recurs over the data in the code is a recursive function     *)
(* here: Lifted and Lowered are one level of it, given the function that   *)
(* treats the parts.                                                       *)
(***************************************************************************)
EXTENDS WitTypes

CONSTANTS
  Vals,      \* values the runtime may hold, with all their parts
  Jsons,     \* JSON values, with all their parts
  Chars,     \* characters
  Held,      \* sequence of [ts, vs]: parameter types and values of them
  Handles,   \* handle ids the runtime gave out
  Entries,   \* JSON values the user may type instead
  Width,     \* integer kind -> width; handles are u32
  Safe       \* 53: the integers a double holds exactly

VARIABLE form   \* [case, handle, at, args, vals]: one call on its way

SignedKinds == {"s8", "s16", "s32", "s64"}
UnsignedKinds == {"u8", "u16", "u32", "u64"}
IntKinds == SignedKinds \cup UnsignedKinds
Floats == {"f32", "f64"}

ASSUME WidthAssumption ==
  /\ Width \in [IntKinds -> Nat \ {0}] /\ Safe \in Nat
  /\ Width["s8"] = Width["u8"] /\ Width["s16"] = Width["u16"]
  /\ Width["s32"] = Width["u32"] /\ Width["s64"] = Width["u64"]
  /\ Width["u8"] <= Width["u16"] /\ Width["u16"] <= Width["u32"]
  /\ Width["u32"] <= Safe /\ Safe < Width["u64"]
  /\ Handles \subseteq 0..(2^Width["u32"] - 1)

ValParts(v) ==
  CASE v.k \in {"list", "tuple", "option"} -> ToSet(v.v)
    [] v.k = "record" -> {f[2] : f \in ToSet(v.v)}
    [] OTHER -> {}

(* Values are finite trees, too.                                           *)
ASSUME TreeAssumption ==
  \A v \in Vals :
    /\ Depth(v) \in Nat
    /\ \A p \in ValParts(v) : p \in Vals /\ Depth(p) < Depth(v)
    /\ v.k \in {"list", "tuple", "option"} => v.v \in Seq(Vals)
    /\ v.k = "record" => v.v \in Seq(STRING \X Vals)

Json(k, v) == [k |-> k, v |-> v]
Null == Json("null", 0)
Debugged == Json("str", <<0>>)       \* the text of {other:?}, not told apart
Object(f) == Json("obj", f)

(* What a double makes of a number: an integer beyond 2^Safe goes to the   *)
(* nearest of its spacing, halfway to the even one.  (Its shortest decimal *)
(* text may name yet another neighbour, which is not told apart here.)     *)
(* JSON.parse and Number know nothing but doubles.  The page does not look *)
(* at a number it shows or sends, so the rounding is made where one is     *)
(* read at last.                                                           *)
Double(h) ==
  LET a == IF h < 0 THEN -h ELSE h
      s == 2^(Cardinality({k \in 0..Width["u64"] : 2^(Safe + k + 1) < a}))
      q == a \div (2 * s)
      up == a % (2 * s) > s \/ (a % (2 * s) = s /\ q % 2 = 1)
      r == 2 * s * (IF up THEN q + 1 ELSE q)
  IN IF s = 1 THEN h ELSE IF h < 0 THEN -r ELSE r

Lifted(lift, v) ==
  CASE v.k = "bool" -> Json("bool", v.v)
    [] v.k \in IntKinds -> Json("num", 2 * v.v)
    [] v.k \in Floats -> IF v.v = <<>> THEN Null ELSE Json("num", v.v[1])
    [] v.k = "char" -> Json("str", <<v.v>>)
    [] v.k = "string" -> Json("str", v.v)
    [] v.k \in {"list", "tuple"} -> Json("arr", [i \in DOMAIN v.v |-> lift[v.v[i]]])
    [] v.k = "record" ->
         Object([n \in {f[1] : f \in ToSet(v.v)} |->
                 lift[(CHOOSE f \in ToSet(v.v) : f[1] = n)[2]]])
    [] v.k = "option" -> IF v.v = <<>> THEN Null ELSE lift[v.v[1]]
    [] v.k = "resource" -> Object([n \in {"$resource"} |-> Json("bool", TRUE)])
    [] OTHER -> Debugged

val_to_json[v \in Vals] == Lifted(val_to_json, v)

HandleJson(h) == Object([n \in {"$handle"} |-> Json("num", 2 * h)])
-----------------------------------------------------------------------------
(* Lowering.                                                               *)

Ok(v) == [ok |-> TRUE, v |-> v]
Err == [ok |-> FALSE, v |-> 0]
Check(c, r) == IF c THEN r ELSE Err
All(k, rs) == Check(\A i \in DOMAIN rs : rs[i].ok,
                    Ok([k |-> k, v |-> [i \in DOMAIN rs |-> rs[i].v]]))

Low(k) == IF k \in SignedKinds THEN -(2^(Width[k] - 1)) ELSE 0
High(k) == IF k \in SignedKinds THEN 2^(Width[k] - 1) - 1 ELSE 2^Width[k] - 1

(* Float to integer: towards zero, and saturating at the 64-bit type.      *)
Truncated(h) == IF h < 0 THEN -((-h) \div 2) ELSE h \div 2
Saturated(n, k) == IF n < Low(k) THEN Low(k) ELSE IF n > High(k) THEN High(k) ELSE n
AsInteger(h, k) == Saturated(Truncated(h), IF k \in SignedKinds THEN "s64" ELSE "u64")

\* Mutant: the number is not brought to the width of its type.
CastNot(n, k) == n

\* `as': the low bits, in two's complement.
Cast(n, k) ==
  LET m == n % 2^Width[k]
  IN IF k \in SignedKinds /\ m > High(k) THEN m - 2^Width[k] ELSE m

Lowered(lower, t, j) ==
  LET as(v) == Ok([k |-> t.k, v |-> v]) IN
  CASE t.k = "bool" -> Check(j.k = "bool", as(j.v))
    [] t.k \in IntKinds -> Check(j.k = "num", as(Cast(AsInteger(Double(j.v), t.k), t.k)))
    [] t.k \in Floats -> Check(j.k = "num", as(<<Double(j.v)>>))
    [] t.k = "char" -> Check(j.k = "str" /\ Len(j.v) = 1, as(j.v[1]))
    [] t.k = "string" -> Check(j.k = "str", as(j.v))
    [] t.k = "list" -> Check(j.k = "arr",
         All("list", [i \in DOMAIN j.v |-> lower[t.p][j.v[i]]]))
    [] t.k = "record" -> Check(j.k = "obj" /\ \A i \in DOMAIN t.p : t.p[i][1] \in DOMAIN j.v,
         LET r == All("record", [i \in DOMAIN t.p |-> lower[t.p[i][2]][j.v[t.p[i][1]]]])
         IN Check(r.ok, as([i \in DOMAIN t.p |-> <<t.p[i][1], r.v.v[i]>>])))
    [] t.k = "tuple" -> Check(j.k = "arr" /\ Len(j.v) = Len(t.p),
         All("tuple", [i \in DOMAIN t.p |-> lower[t.p[i]][j.v[i]]]))
    [] t.k = "option" -> IF j.k = "null" THEN as(<<>>)
                         ELSE All("option", <<lower[t.p][j]>>)
    [] OTHER -> Err

json_to_val[t \in ValTypes] == [j \in Jsons |-> Lowered(json_to_val, t, j)]

\* Mutant: a handle keeps its low 16 bits.
handle_id_short(j) ==
  Check(j.k = "obj" /\ "$handle" \in DOMAIN j.v, Ok((j.v["$handle"].v \div 2) % 2^Width["u16"]))

handle_id(j) ==
  Check(j.k = "obj" /\ "$handle" \in DOMAIN j.v,
    LET n == j.v["$handle"] IN
      Check(n.k = "num" /\ Double(n.v) >= 0 /\ Double(n.v) % 2 = 0,
            Ok(Cast(Double(n.v) \div 2, "u32"))))

convert_args(ts, args) ==
  Check(Len(ts) = Len(args), All("args", [i \in DOMAIN ts |-> json_to_val[ts[i]][args[i]]]))
-----------------------------------------------------------------------------
(* The page.                                                               *)

kind_str(t) ==
  IF t.k \in IntKinds \cup Floats \cup {"bool", "char", "string"} THEN t.k ELSE "json"

(* buildInput: what the widget of a kind can be made to yield.             *)
Readable(kind, j) ==
  CASE kind = "bool" -> j.k = "bool"
    [] kind \in IntKinds \cup Floats -> j.k = "num"
    [] kind = "char" -> j.k = "str" /\ Len(j.v) <= 1
    [] kind = "string" -> j.k = "str"
    [] OTHER -> TRUE

(* Every JSON value has the shape its tag says; what the runtime holds can *)
(* be shown, and what the user types is JSON.                              *)
ASSUME JsonAssumption ==
  /\ \A j \in Jsons :
       /\ j.k = "bool" => j.v \in BOOLEAN
       /\ j.k = "num" => j.v \in Int
       /\ j.k = "str" => j.v \in Seq(Chars)
       /\ j.k = "arr" => j.v \in Seq(Jsons)
       /\ j.k = "obj" => \A n \in DOMAIN j.v : j.v[n] \in Jsons
  /\ \A v \in Vals : val_to_json[v] \in Jsons
  /\ Entries \subseteq Jsons

ASSUME HeldAssumption ==
  \A c \in DOMAIN Held : /\ Held[c].ts \in Seq(ValTypes) /\ Held[c].vs \in Seq(Vals)
                         /\ Len(Held[c].ts) = Len(Held[c].vs)

ArgTypes == Held[form.case].ts
ArgVals == Held[form.case].vs
At(p) == form.at = p
Shown == [i \in DOMAIN ArgVals |-> val_to_json[ArgVals[i]]]

JInit == \E c \in DOMAIN Held, h \in Handles :
           form = [case |-> c, handle |-> h, at |-> "held", args |-> <<>>, vals |-> Err]

(* The panel injects the handle; the user types what is shown.             *)
TypeBack ==
  /\ At("held")
  /\ \A i \in DOMAIN ArgTypes : Readable(kind_str(ArgTypes[i]), Shown[i])
  /\ form' = [form EXCEPT !.at = "typed", !.args = <<HandleJson(form.handle)>> \o Shown]

TypeOther(i, j) ==
  /\ At("typed")
  /\ Readable(kind_str(ArgTypes[i]), j)
  /\ form' = [form EXCEPT !.at = "edited", !.args[i + 1] = j]

(* Contract::call up to the guest.                                         *)
Submit ==
  /\ At("typed") \/ At("edited")
  /\ LET h == handle_id(form.args[1])
         r == Check(h.ok, convert_args(ArgTypes, Tail(form.args)))
     IN form' = [form EXCEPT !.vals = Check(r.ok, Ok(<<h.v, r.v.v>>)),
                             !.at = IF At("typed") THEN "submitted" ELSE "ended"]

JNext ==
  \/ TypeBack
  \/ \E i \in DOMAIN ArgTypes, j \in Entries : TypeOther(i, j)
  \/ Submit

JSpec == JInit /\ [][JNext]_form
-----------------------------------------------------------------------------
(* Reference: the values of a type, and those of them JSON can carry.      *)

(* The integers a double holds, and the last one, to which it saturates.   *)
Lossless(n, k) ==
  n \in -(2^Safe)..2^Safe \/ n = High("u64") \/ (k \in SignedKinds /\ n = High("s64"))

(* One level: vals has the values of the parts.  JSON does not carry enum, *)
(* variant, flags, result and resource, which the page can only show, a    *)
(* float that is not finite, an integer that no double holds, and          *)
(* Some(None).                                                             *)
ValuesOf(vals, t, carried) ==
  LET of(S) == [k : {t.k}, v : S] IN
  CASE t.k = "bool" -> of(BOOLEAN)
    [] t.k \in IntKinds -> of({n \in Low(t.k)..High(t.k) : carried => Lossless(n, t.k)})
    [] t.k \in Floats -> of({hs \in Seq(Int) : /\ Len(hs) <= 1
                                               /\ carried => hs # <<>> /\ Double(hs[1]) = hs[1]})
    [] t.k = "char" -> of(Chars)
    [] t.k = "string" -> of(Seq(Chars))
    [] t.k = "list" -> of(Seq(vals[t.p]))
    [] t.k = "record" -> of(Product([i \in DOMAIN t.p |-> {t.p[i][1]} \X vals[t.p[i][2]]]))
    [] t.k = "tuple" -> of(Product([i \in DOMAIN t.p |-> vals[t.p[i]]]))
    [] t.k = "option" -> of({<<>>} \cup {<<v>> : v \in
                              {w \in vals[t.p] : carried => w # [k |-> "option", v |-> <<>>]}})
    [] OTHER -> {}

Fits[t \in ValTypes] == ValuesOf(Fits, t, FALSE)
Carried[t \in ValTypes] == ValuesOf(Carried, t, TRUE)

(* Whatever JSON arrives, the guest is called with values of its parameter *)
(* types: a number of any size or sign is brought to the width, and what   *)
(* has the wrong shape is refused.                                         *)
LoweredFits ==
  form.vals.ok =>
    /\ form.vals.v[1] \in 0..High("u32") /\ DOMAIN form.vals.v[2] = DOMAIN ArgTypes
    /\ \A i \in DOMAIN ArgTypes : form.vals.v[2][i] \in Fits[ArgTypes[i]]

(* What the page shows and the user types back arrives as the same values  *)
(* on the same UTXO, for every value that JSON can carry at all.           *)
TypedBackArrives ==
  At("submitted") /\ (\A i \in DOMAIN ArgTypes : ArgVals[i] \in Carried[ArgTypes[i]])
    => form.vals = Ok(<<form.handle, ArgVals>>)
=============================================================================
