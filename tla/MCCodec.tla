------------------------------- MODULE MCCodec -------------------------------
(* Values for the two conversions: parameter lists for Codec with every    *)
(* kind of type, the boundaries of the number formats and of the flag      *)
(* widths, and nesting; and values, handles and typed JSON for JsonVals,   *)
(* with every integer of the scaled widths.  A behaviour is of one of the  *)
(* two conversions.                                                        *)
EXTENDS Codec, JsonVals, TLC

T(k) == [k |-> k, p |-> <<>>]
P(k, p) == [k |-> k, p |-> p]
One(t, v) == [ts |-> <<t>>, vs |-> <<Val(t.k, v)>>]
Numbers(k, ns) == [i \in 1..Len(ns) |-> One(T(k), ns[i])]
U8(n) == Val("u8", n)

Names(n) == [i \in 1..n |-> i]
Flags(n, set) == One(P("flags", Names(n)), set)

Shape == P("variant", <<<<"none", <<>>>>, <<"one", <<T("u16")>>>>>>)
Pair == P("record", <<<<"a", T("s16")>>, <<"b", T("bool")>>>>)
Field == P("record", <<<<"a", T("s8")>>, <<"b", T("bool")>>>>)
Outcome == P("result", <<<<T("u16")>>, <<>>>>)

MCCases ==
     Numbers("u16", <<0, 127, 128, 16383, 16384, 65535>>)
  \o Numbers("s16", <<0, 63, 64, -64, -65, 8191, 8192, -8192, -8193, 32767, -32768>>)
  \o Numbers("u32", <<2097151, 2097152, 2^28 - 1>>)
  \o Numbers("s32", <<-1048576, -1048577, -(2^27)>>)
  \o Numbers("u8", <<0, 255>>) \o Numbers("s8", <<127, -128>>)
  \o Numbers("char", <<65, 127, 128, 2047, 2048, 65535, 65536, 1114111>>)
  \o <<One(T("f32"), <<0, 0, 128, 63>>), One(T("f64"), <<1, 2, 3, 4, 5, 6, 7, 8>>)>>
  \o <<One(T("string"), <<>>), One(T("string"), <<104, 105>>)>>
  \o <<Flags(0, {}), Flags(1, {1}), Flags(8, {1, 8}), Flags(9, {9}), Flags(16, {8, 16}),
       Flags(17, {1, 17}), Flags(24, {24}), Flags(128, {128}), Flags(129, {64, 129})>>
  \o <<One(P("enum", Names(200)), 1), One(P("enum", Names(200)), 129),
       One(P("enum", Names(300)), 256), One(P("enum", Names(300)), 300)>>
  \o << [ts |-> <<T("bool"), Shape, T("u8")>>,
         vs |-> <<Val("bool", TRUE), Val("variant", <<"one", <<Val("u16", 300)>>>>), U8(7)>>],
        [ts |-> <<Shape, P("option", Shape)>>,
         vs |-> <<Val("variant", <<"none", <<>>>>),
                  Val("option", <<Val("variant", <<"none", <<>>>>)>>)>>],
        [ts |-> <<Outcome, Outcome, P("option", T("u8"))>>,
         vs |-> <<Val("result", <<"ok", <<Val("u16", 1)>>>>), Val("result", <<"err", <<>>>>),
                  Val("option", <<>>)>>],
        [ts |-> <<P("list", Field), P("tuple", <<T("u8"), T("s8")>>), P("list", T("s16"))>>,
         vs |-> <<Val("list", <<Val("record", <<<<"a", Val("s8", -65)>>, <<"b", Val("bool", FALSE)>>>>),
                                Val("record", <<<<"a", Val("s8", 64)>>, <<"b", Val("bool", TRUE)>>>>)>>),
                  Val("tuple", <<U8(128), Val("s8", -1)>>),
                  Val("list", <<Val("s16", -65), Val("s16", 64)>>)>>] >>

MCBits == [k \in Unsigned \cup Signed |-> IF k \in {"u16", "s16"} THEN 16 ELSE 28]
MCIsText(s) == \A i \in DOMAIN s : s[i] < 128

MCWidth == [k \in SignedKinds \cup UnsignedKinds |->
              IF k \in {"u8", "s8"} THEN 3 ELSE IF k \in {"u16", "s16"} THEN 4
              ELSE IF k \in {"u32", "s32"} THEN 5 ELSE 8]

Range64(k) == IF k \in SignedKinds THEN [i \in 1..256 |-> i - 129] ELSE [i \in 1..256 |-> i - 1]
Rec(fs) == Val("record", fs)
Opt(v) == Val("option", <<v>>)
Nothing == Val("option", <<>>)

MCHeld ==
     Numbers("u64", Range64("u64")) \o Numbers("s64", Range64("s64"))
  \o Numbers("u32", [i \in 1..32 |-> i - 1]) \o Numbers("s32", [i \in 1..32 |-> i - 17])
  \o Numbers("s8", <<-4, -1, 3>>) \o Numbers("u8", <<0, 7>>)
  \o <<One(T("f64"), <<3>>), One(T("f32"), <<-1>>), One(T("f64"), <<>>),
       One(T("char"), 65), One(T("string"), <<>>), One(T("string"), <<65, 66>>),
       One(T("bool"), TRUE), One(T("resource"), 0), One(P("enum", <<"a">>), "a")>>
  \o << [ts |-> <<P("list", T("u8")), P("option", T("s8")), T("s16")>>,
         vs |-> <<Val("list", <<U8(1), U8(7)>>), Opt(Val("s8", -3)), Val("s16", -8)>>],
        [ts |-> <<Pair, P("option", T("u8"))>>,
         vs |-> <<Rec(<<<<"a", Val("s16", 5)>>, <<"b", Val("bool", TRUE)>>>>), Nothing>>],
        [ts |-> <<P("option", P("option", T("u8")))>>, vs |-> <<Opt(Nothing)>>],
        [ts |-> <<P("option", P("option", T("u8")))>>, vs |-> <<Opt(Opt(U8(2)))>>],
        [ts |-> <<P("tuple", <<T("char"), Pair>>), T("u64")>>,
         vs |-> <<Val("tuple", <<Val("char", 66), Rec(<<<<"a", Val("s16", -1)>>, <<"b", Val("bool", FALSE)>>>>)>>),
                  Val("u64", 255)>>],
        [ts |-> <<>>, vs |-> <<>>] >>

MCEntries ==
  {Json("num", n) : n \in {-1100, -513, -17, -3, -2, -1, 0, 1, 3, 15, 16, 31, 32, 255, 511, 512, 1100}}
  \cup
     { Null, Json("bool", FALSE), Json("str", <<>>), Json("str", <<66>>), Json("str", <<66, 67>>),
        Json("arr", <<>>), Json("arr", <<Json("num", 600), Json("num", 3)>>),
        Json("arr", <<Json("str", <<66>>), Null>>),
        Object([n \in {"a"} |-> Json("num", 2)]),
        Object([n \in {"a", "b"} |-> Json("num", 2)]),
        Object([n \in {"a", "b", "c"} |-> IF n = "b" THEN Json("bool", TRUE) ELSE Json("num", -37)]) }

(* The types, values and JSON values of the instance, with all their parts. *)
RECURSIVE AllTypes(_), AllVals(_), AllJsons(_), MCDepth(_)
AllTypes(S) == IF S = {} THEN {} ELSE S \cup AllTypes(UNION {TypeParts(t) : t \in S})
AllVals(S) == IF S = {} THEN {} ELSE S \cup AllVals(UNION {ValParts(v) : v \in S})
JsonParts(j) == CASE j.k = "arr" -> ToSet(j.v)
                  [] j.k = "obj" -> {j.v[n] : n \in DOMAIN j.v}
                  [] OTHER -> {}
AllJsons(S) == IF S = {} THEN {} ELSE S \cup AllJsons(UNION {JsonParts(j) : j \in S})
MCDepth(x) == LET parts == IF "p" \in DOMAIN x THEN TypeParts(x) ELSE ValParts(x)
              IN IF parts = {} THEN 0 ELSE 1 + Max({MCDepth(p) : p \in parts})

MCTypes == AllTypes(UNION {ToSet(c.ts) : c \in ToSet(MCHeld) \cup ToSet(MCCases)})
MCVals == AllVals(UNION {ToSet(MCHeld[c].vs) : c \in DOMAIN MCHeld})
MCJsons == LET vals == MCVals
               shown[v \in vals] == Lifted(shown, v)
           IN AllJsons({shown[v] : v \in vals} \cup MCEntries)

Idle == [case |-> 1, handle |-> 0, at |-> "idle", args |-> <<>>, vals |-> Err]

ValuesInit ==
  /\ Init
  /\ form = Idle \/ (case = 1 /\ honest /\ JInit)

ValuesNext ==
  \/ At("idle") /\ Next /\ UNCHANGED form
  \/ ~At("idle") /\ JNext /\ UNCHANGED vars

ValuesSpec == ValuesInit /\ [][ValuesNext]_<<vars, form>>
=============================================================================
