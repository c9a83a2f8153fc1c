-------------------------------- MODULE Codec --------------------------------
(***************************************************************************)
(* The wRPC value codec of the server (crates/cli/src/codec.rs):           *)
(* ValEncoder::encode and read_value, over parameters that are written one *)
(* after the other and read back from a stream that delivers its bytes as  *)
(* it likes, or that a peer fills with bytes of its own.                   *)
(*                                                                         *)
(* A value is [k, v].  LEB128, UTF-8 and the status bytes are wasm_tokio's *)
(* (external); floats are their little-endian bytes, strings the bytes of  *)
(* their text and flags the set of their names.  What recurs over the data *)
(* in the code is a recursive function here: Written and ReadAs are one    *)
(* level of it, given the function that treats the parts.                  *)
(***************************************************************************)
EXTENDS WitTypes, FiniteSetsExt

CONSTANTS
  Bits,       \* kind -> width of its LEB128 numbers
  IsText(_),  \* is a sequence of bytes UTF-8?
  Cases,      \* sequence of [ts, vs]: parameter types and values of them
  Alphabet,   \* bytes a peer may send
  MaxFeed     \* bound: bytes such a peer sends

VARIABLES
  case,       \* the parameters under way
  honest,     \* are the bytes the encoder's?
  wire,       \* bytes not delivered yet
  buf,        \* bytes delivered and not consumed
  done,       \* values read so far
  fed         \* bytes the peer made up

vars == <<case, honest, wire, buf, done, fed>>

Byte == 0..255
Stream == Seq(Byte)
Unsigned == {"u16", "u32", "u64"}
Signed == {"s16", "s32", "s64"}

ASSUME WireAssumption ==
  /\ Bits \in [Unsigned \cup Signed -> Nat \ {0}]
  /\ MaxFeed \in Nat /\ Alphabet \subseteq Byte
  /\ \A t \in ValTypes : t.k \in {"variant", "enum"} => Len(t.p) < 2^Bits["u32"]

-----------------------------------------------------------------------------
(* wasm_tokio's formats.                                                   *)

ULeb[n \in Nat] == IF n < 128 THEN <<n>> ELSE <<128 + (n % 128)>> \o ULeb[n \div 128]
SLeb[n \in Int] ==
  IF n \in -64..63 THEN <<n % 128>> ELSE <<128 + (n % 128)>> \o SLeb[n \div 128]

Val(k, v) == [k |-> k, v |-> v]
Got(v, rest) == [st |-> "ok", val |-> v, rest |-> rest]
Eof == [st |-> "eof", val |-> 0, rest |-> <<>>]
Bad == [st |-> "bad", val |-> 0, rest |-> <<>>]
Bind(r, F(_, _)) == IF r.st = "ok" THEN F(r.val, r.rest) ELSE r
Guard(c, r) == IF c THEN r ELSE Bad
As(k, r) == Bind(r, LAMBDA v, rest : Got(Val(k, v), rest))

Drop(b, n) == SubSeq(b, n + 1, Len(b))
Take(b, n) == IF Len(b) < n THEN Eof ELSE Got(SubSeq(b, 1, n), Drop(b, n))

(* The groups of a LEB128 number: those up to the first byte below 128.    *)
Groups(b, max) ==
  LET ends == {i \in 1..Len(b) : i <= max /\ b[i] < 128}
  IN IF ends # {} THEN Take(b, Min(ends)) ELSE IF Len(b) >= max THEN Bad ELSE Eof

LebValue[g \in Stream] == [signed \in BOOLEAN |->
  IF Len(g) <= 1 THEN IF signed /\ g[1] >= 64 THEN g[1] - 128 ELSE g[1]
  ELSE (g[1] % 128) + 128 * LebValue[Tail(g)][signed]]

LebRange(k) ==
  IF k \in Signed THEN -(2^(Bits[k] - 1))..(2^(Bits[k] - 1) - 1) ELSE 0..(2^Bits[k] - 1)

\* Mutant: numbers are read without a range check.
InRangeAny(n, k) == TRUE

InRange(n, k) == n \in LebRange(k)
ReadLeb(b, k) ==
  Bind(Groups(b, (Bits[k] + 6) \div 7), LAMBDA g, rest :
    LET n == LebValue[g][(k \in Signed)] IN Guard(InRange(n, k), Got(n, rest)))

IsScalar(c) == 0 <= c /\ c < 1114112 /\ ~(55296 <= c /\ c < 57344)
Utf8(c) ==
  LET tail(n) == 128 + ((c \div n) % 64) IN
  IF c < 128 THEN <<c>>
  ELSE IF c < 2048 THEN <<192 + c \div 64, tail(1)>>
  ELSE IF c < 65536 THEN <<224 + c \div 4096, tail(64), tail(1)>>
  ELSE <<240 + c \div 262144, tail(4096), tail(64), tail(1)>>
CharOf(s) ==
  CASE Len(s) = 1 -> s[1]
    [] Len(s) = 2 -> 64 * (s[1] - 192) + s[2] - 128
    [] Len(s) = 3 -> 4096 * (s[1] - 224) + 64 * (s[2] - 128) + s[3] - 128
    [] OTHER -> 262144 * (s[1] - 240) + 4096 * (s[2] - 128) + 64 * (s[3] - 128) + s[4] - 128
Utf8Length(head) == IF head < 128 THEN 1 ELSE IF head < 224 THEN 2 ELSE IF head < 240 THEN 3 ELSE 4
ReadChar(b) ==
  IF b = <<>> THEN Eof
  ELSE Bind(Take(b, Utf8Length(b[1])), LAMBDA s, rest :
         Guard(IsScalar(CharOf(s)) /\ Utf8(CharOf(s)) = s, Got(CharOf(s), rest)))

ReadStatus(b, zero) ==
  Bind(Take(b, 1), LAMBDA s, rest : Guard(s[1] \in {0, 1}, Got((s[1] = 0) = zero, rest)))

-----------------------------------------------------------------------------
(* The encoder.                                                            *)

Bytes(b) == [ok |-> TRUE, bytes |-> b]
Bail == [ok |-> FALSE, bytes |-> <<>>]
Cat(rs) == [ok |-> \A i \in DOMAIN rs : rs[i].ok,
            bytes |-> FlattenSeq([i \in DOMAIN rs |-> rs[i].bytes])]

Shorter(s, t) == DOMAIN s \cap DOMAIN t      \* zip
IndexOf(name, names) == Min({i \in DOMAIN names : names[i] = name})

(* flag_bits, and the bytes reserved for n flags.                          *)
FlagBits(names, flags) == {i \in DOMAIN names : names[i] \in flags}
\* Mutant: a byte too many for a multiple of eight.
FlagBytesRounded(n) == n \div 8 + 1

FlagBytes(n) == IF n <= 8 THEN 1 ELSE (n + 7) \div 8
Weight == <<1, 2, 4, 8, 16, 32, 64, 128>>
FlagByte(bits, j) ==
  LET bit(i) == IF 8 * (j - 1) + i \in bits THEN Weight[i] ELSE 0
  IN bit(1) + bit(2) + bit(3) + bit(4) + bit(5) + bit(6) + bit(7) + bit(8)

(* A payload that may be missing, of a type that may be missing.           *)
Payload(encode, vs, ts) ==
  IF vs = <<>> THEN Bytes(<<>>) ELSE IF ts = <<>> THEN Bail ELSE encode[ts[1]][vs[1]]

Written(encode, t, v) ==
  CASE v.k # t.k -> Bail
    [] t.k = "bool" -> Bytes(<<IF v.v THEN 1 ELSE 0>>)
    [] t.k \in {"u8", "s8"} -> Bytes(<<v.v % 256>>)
    [] t.k \in Unsigned -> Bytes(ULeb[v.v])
    [] t.k \in Signed -> Bytes(SLeb[v.v])
    [] t.k \in {"f32", "f64"} -> Bytes(v.v)
    [] t.k = "char" -> Bytes(Utf8(v.v))
    [] t.k = "string" -> IF Len(v.v) >= 2^Bits["u32"] THEN Bail
                         ELSE Bytes(ULeb[Len(v.v)] \o v.v)
    [] t.k = "list" ->
         IF Len(v.v) >= 2^Bits["u32"] THEN Bail
         ELSE Cat(<<Bytes(ULeb[Len(v.v)])>> \o [i \in DOMAIN v.v |-> encode[t.p][v.v[i]]])
    [] t.k = "record" ->
         Cat([i \in Shorter(v.v, t.p) |-> encode[t.p[i][2]][v.v[i][2]]])
    [] t.k = "tuple" ->
         Cat([i \in Shorter(v.v, t.p) |-> encode[t.p[i]][v.v[i]]])
    [] t.k = "variant" ->
         IF v.v[1] \notin ToSet(CaseNames(t.p)) THEN Bail
         ELSE LET i == IndexOf(v.v[1], CaseNames(t.p)) IN
                Cat(<<Bytes(ULeb[i - 1]), Payload(encode, v.v[2], t.p[i][2])>>)
    [] t.k = "enum" ->
         IF v.v \notin ToSet(t.p) THEN Bail ELSE Bytes(ULeb[IndexOf(v.v, t.p) - 1])
    [] t.k = "option" ->
         Cat(<<Bytes(<<Len(v.v)>>), Payload(encode, v.v, <<t.p>>)>>)
    [] t.k = "result" ->
         LET side == IF v.v[1] = "ok" THEN 1 ELSE 2 IN
           IF Len(v.v[2]) # Len(t.p[side]) THEN Bail
           ELSE Cat(<<Bytes(<<side - 1>>), Payload(encode, v.v[2], t.p[side])>>)
    [] t.k = "flags" ->
         Bytes([j \in 1..FlagBytes(Len(t.p)) |-> FlagByte(FlagBits(t.p, v.v), j)])
    [] OTHER -> Bail

-----------------------------------------------------------------------------
(* The decoder.                                                            *)

FlagsWidth(n) == ((IF n > 1 THEN n ELSE 1) + 7) \div 8    \* names.len().max(1).div_ceil(8)
BitSet(byte, i) == (byte \div Weight[(i % 8) + 1]) % 2 = 1
FlagsIn(buffer, names) ==
  {names[i] : i \in {n \in DOMAIN names : BitSet(buffer[(n - 1) \div 8 + 1], n - 1)}}

(* n values one after the other, the i-th with read[i].                    *)
ReadEach(n, read, b) ==
  LET last[m \in 0..n] == [c \in Stream |->
        IF m = 0 THEN Got(<<>>, c)
        ELSE Bind(read[n - m + 1][c], LAMBDA v, r1 :
               Bind(last[m - 1][r1], LAMBDA vs, r2 : Got(<<v>> \o vs, r2)))]
  IN last[n][b]
ReadTypes(decode, ts, b) == ReadEach(Len(ts), [i \in DOMAIN ts |-> decode[ts[i]]], b)

ReadAs(decode, t, b) ==
  CASE t.k = "bool" -> As("bool", ReadStatus(b, FALSE))
    [] t.k = "u8" -> Bind(Take(b, 1), LAMBDA s, r : Got(Val("u8", s[1]), r))
    [] t.k = "s8" -> Bind(Take(b, 1), LAMBDA s, r :
         Got(Val("s8", IF s[1] > 127 THEN s[1] - 256 ELSE s[1]), r))
    [] t.k \in Unsigned \cup Signed -> As(t.k, ReadLeb(b, t.k))
    [] t.k = "f32" -> As("f32", Take(b, 4))
    [] t.k = "f64" -> As("f64", Take(b, 8))
    [] t.k = "char" -> As("char", ReadChar(b))
    [] t.k = "string" -> Bind(ReadLeb(b, "u32"), LAMBDA n, r :
         As("string", Bind(Take(r, n), LAMBDA s, r2 : Guard(IsText(s), Got(s, r2)))))
    [] t.k = "list" -> Bind(ReadLeb(b, "u32"), LAMBDA n, r :
         As("list", ReadEach(n, [i \in 1..n |-> decode[t.p]], r)))
    [] t.k = "record" ->
         Bind(ReadTypes(decode, [i \in DOMAIN t.p |-> t.p[i][2]], b), LAMBDA vs, r :
           Got(Val("record", [i \in DOMAIN t.p |-> <<t.p[i][1], vs[i]>>]), r))
    [] t.k = "tuple" -> As("tuple", ReadTypes(decode, t.p, b))
    [] t.k = "variant" -> Bind(ReadLeb(b, "u32"), LAMBDA d, r :
         IF d >= Len(t.p) THEN Bad
         ELSE Bind(ReadTypes(decode, t.p[d + 1][2], r), LAMBDA vs, r2 :
                Got(Val("variant", <<t.p[d + 1][1], vs>>), r2)))
    [] t.k = "enum" -> Bind(ReadLeb(b, "u32"), LAMBDA d, r :
         IF d >= Len(t.p) THEN Bad ELSE Got(Val("enum", t.p[d + 1]), r))
    [] t.k = "option" -> Bind(ReadStatus(b, FALSE), LAMBDA some, r :
         As("option", ReadTypes(decode, IF some THEN <<t.p>> ELSE <<>>, r)))
    [] t.k = "result" -> Bind(ReadStatus(b, TRUE), LAMBDA ok, r :
         Bind(ReadTypes(decode, t.p[IF ok THEN 1 ELSE 2], r), LAMBDA vs, r2 :
           Got(Val("result", <<IF ok THEN "ok" ELSE "err", vs>>), r2)))
    [] t.k = "flags" -> Bind(Take(b, FlagsWidth(Len(t.p))), LAMBDA s, r :
         Got(Val("flags", FlagsIn(s, t.p)), r))
    [] OTHER -> Bad

-----------------------------------------------------------------------------
(* Which values a type has, without reference to the formats; none for the *)
(* types that are not supported.                                           *)

SideOf(name) == IF name = "ok" THEN 1 ELSE 2
TypedAs(has, t) ==
  LET of(S) == [k : {t.k}, v : S]
      each(ts) == Product([i \in DOMAIN ts |-> has[ts[i]]])
      payloads == Seq(UNION {has[p] : p \in TypeParts(t)})
  IN
  CASE t.k = "bool" -> of(BOOLEAN)
    [] t.k = "u8" -> of(Byte)
    [] t.k = "s8" -> of(-128..127)
    [] t.k \in Unsigned \cup Signed -> of(LebRange(t.k))
    [] t.k = "f32" -> of([1..4 -> Byte])
    [] t.k = "f64" -> of([1..8 -> Byte])
    [] t.k = "char" -> of({c \in Int : IsScalar(c)})
    [] t.k = "string" -> of({s \in Stream : IsText(s) /\ Len(s) < 2^Bits["u32"]})
    [] t.k = "list" -> of({vs \in Seq(has[t.p]) : Len(vs) < 2^Bits["u32"]})
    [] t.k = "record" -> of(Product([i \in DOMAIN t.p |-> {t.p[i][1]} \X has[t.p[i][2]]]))
    [] t.k = "tuple" -> of(each(t.p))
    [] t.k = "variant" -> of({w \in ToSet(CaseNames(t.p)) \X payloads :
                                \E i \in DOMAIN t.p : w[1] = t.p[i][1] /\ w[2] \in each(t.p[i][2])})
    [] t.k = "enum" -> of(ToSet(t.p))
    [] t.k = "option" -> of(AtMostOne(has[t.p]))
    [] t.k = "result" -> of({w \in {"ok", "err"} \X payloads : w[2] \in each(t.p[SideOf(w[1])])})
    [] t.k = "flags" -> of(SUBSET ToSet(t.p))
    [] OTHER -> {}

HasType[t \in ValTypes] == TypedAs(HasType, t)
Encode[t \in ValTypes] == [v \in HasType[t] |-> Written(Encode, t, v)]
Decode[t \in ValTypes] == [b \in Stream |-> ReadAs(Decode, t, b)]

-----------------------------------------------------------------------------
(* Parameters on a stream.                                                 *)

ASSUME CaseAssumption ==
  \A c \in DOMAIN Cases : LET ts == Cases[c].ts  vs == Cases[c].vs IN
    /\ ts \in Seq(ValTypes) /\ vs = [i \in DOMAIN ts |-> vs[i]]
    /\ \A i \in DOMAIN ts : vs[i] \in HasType[ts[i]]

Types == Cases[case].ts
Values == Cases[case].vs
Encoded(from) ==
  FlattenSeq([i \in 1..(Len(Types) - from) |-> Encode[Types[from + i]][Values[from + i]].bytes])

Init ==
  /\ case \in DOMAIN Cases
  /\ honest \in BOOLEAN
  /\ wire = IF honest THEN Encoded(0) ELSE <<>>
  /\ buf = <<>> /\ done = <<>> /\ fed = 0

Deliver ==
  /\ wire # <<>>
  /\ buf' = Append(buf, Head(wire)) /\ wire' = Tail(wire)
  /\ UNCHANGED <<case, honest, done, fed>>

Feed(b) ==
  /\ ~honest /\ fed < MaxFeed
  /\ buf' = Append(buf, b) /\ fed' = fed + 1
  /\ UNCHANGED <<case, honest, wire, done>>

Attempt == Decode[Types[Len(done) + 1]][buf]

(* read_value returns as soon as the bytes it asked for are there.         *)
Read ==
  /\ Len(done) < Len(Types)
  /\ Attempt.st = "ok"
  /\ done' = Append(done, Attempt.val) /\ buf' = Attempt.rest
  /\ UNCHANGED <<case, honest, wire, fed>>

Next == Deliver \/ (\E b \in Alphabet : Feed(b)) \/ Read

Spec == Init /\ [][Next]_vars

-----------------------------------------------------------------------------

(* A value of the parameter's type is encoded, and the reader gets it back *)
(* wherever the stream is cut: it never refuses a prefix, returns early on *)
(* one or eats into the next parameter, and with every byte there every    *)
(* parameter is read.                                                      *)
RoundTrip ==
  honest =>
    /\ \A i \in DOMAIN Types : Encode[Types[i]][Values[i]].ok
    /\ done = SubSeq(Values, 1, Len(done))
    /\ buf \o wire = Encoded(Len(done))
    /\ Len(done) < Len(Types) =>
         Attempt.st = "ok" \/ (Attempt.st # "bad" /\ wire # <<>>)

(* Whatever bytes a peer sends, a value read is one of its type, and       *)
(* writing it and reading that back gives the same value: the server       *)
(* cannot be brought to answer what it could not itself read.              *)
ReadIsWellTyped ==
  \A i \in DOMAIN done :
    /\ done[i] \in HasType[Types[i]]
    /\ LET e == Encode[Types[i]][done[i]]
       IN e.ok /\ Decode[Types[i]][e.bytes] = Got(done[i], <<>>)
=============================================================================
