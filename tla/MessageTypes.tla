---- MODULE MessageTypes ----
(***************************************************************************)
(* The Go types the message structures are made of, at a reduced scale: a  *)
(* type is a record that says how its values are built.  AppP2PMessages,   *)
(* AppRPCMessages, ProtoP2PMessages, ProtoRPCMessages, DomainTypes and     *)
(* DbObjects write the structs of the program as such types; the sample    *)
(* values of a run are built from the types, and a value is compared with  *)
(* what arrived along its type.                                            *)
(*                                                                         *)
(* Integers keep their relative widths with small maxima.  Strings, byte   *)
(* slices, hashes and ids are sequences of small numbers: a hash has       *)
(* HashSize of them, as the program's has DomainHashSize bytes.            *)
(***************************************************************************)
EXTENDS Integers, Sequences, FiniteSets, FiniteSetsExt

CONSTANTS Nil,                   \* Go's nil pointer
          MaxUint8, MaxUint16, MaxUint32, MaxUint64, MaxBig,
          HashSize, SubnetworkIDSize, IDLength

ASSUME WidthsAssumption ==
    /\ MaxUint8 < MaxUint16
    /\ MaxUint16 < MaxUint32
    /\ MaxUint32 < MaxUint64
    /\ MaxUint64 < MaxBig

UintUpTo(max) == [kind |-> "uint", max |-> max]
Uint8 == UintUpTo(MaxUint8)
Uint16 == UintUpTo(MaxUint16)
Uint32 == UintUpTo(MaxUint32)
Uint64 == UintUpTo(MaxUint64)
Int64 == UintUpTo(MaxUint64 \div 2)
Float64 == UintUpTo(MaxUint64)
BigInt == UintUpTo(MaxBig)
Bool == [kind |-> "bool"]
Time == [kind |-> "time"]

\* Byte arrays of a fixed size, and byte slices and strings of any size up to
\* a limit (sample values are far shorter unless the limit is).
Fixed(n) == [kind |-> "array", size |-> n]
DomainHash == Fixed(HashSize)
DomainSubnetworkID == Fixed(SubnetworkIDSize)
ID == Fixed(IDLength)
BytesUpTo(n) == [kind |-> "bytes", limit |-> n]
Bytes == BytesUpTo(2)
String == BytesUpTo(2)

SliceUpTo(type, n) == [kind |-> "slice", of |-> type, limit |-> n]
Slice(type) == SliceUpTo(type, 2)
MapOf(key, type) == [kind |-> "map", key |-> key, of |-> type]
Struct(fields) == [kind |-> "struct", fields |-> fields]

\* A pointer the program may leave nil, a pointer it sets in every message
\* that does not report an error, and a pointer whose target the converters
\* lose on the way (see RPCPartConverters).
Optional(type) == [kind |-> "optional", of |-> type]
Pointer(type) == [kind |-> "pointer", of |-> type]
Lost(type) == [kind |-> "lost", of |-> type]

NoFields == [f \in {} |-> 0]

\* The position of every field of a struct: sample values differ by position,
\* so that a converter that confuses two fields changes the message.
Positions(names) ==
    FoldSet(LAMBDA name, seq : Append(seq, name), <<>>, names)

PositionOf(name, names) ==
    LET order == Positions(names)
    IN  CHOOSE i \in DOMAIN order : order[i] = name

\* Five values of every type: Go's zero value (nil pointers), the least value
\* of a complete message, one with all fields different, the same without its
\* optional parts and with a single element per slice, and the greatest.
SampleSizes == {"zero", "least", "distinct", "bare", "greatest"}

Digits(pos, n) == [i \in 1..n |-> (IF i % 2 = 1 THEN pos ELSE pos \div 4) % 4]

RECURSIVE Sample(_, _, _)
Sample(type, size, pos) ==
    CASE type.kind = "uint" ->
            CASE size \in {"distinct", "bare"} -> 1 + (pos % type.max)
              [] size = "greatest" -> type.max
              [] OTHER -> 0
      [] type.kind = "bool" ->
            CASE size \in {"distinct", "bare"} -> pos % 2 = 1
              [] size = "greatest" -> pos % 2 = 0
              [] OTHER -> FALSE
      [] type.kind = "time" ->
            [ms |-> IF size \in {"zero", "least"} THEN 0 ELSE 1 + pos]
      [] type.kind = "array" ->
            Digits(IF size \in {"zero", "least"} THEN 0 ELSE 1 + pos, type.size)
      [] type.kind = "bytes" ->
            CASE size \in {"zero", "least"} -> <<>>
              [] size = "greatest" -> Digits(1 + pos, type.limit)
              [] OTHER -> Digits(1 + pos, Min({2, type.limit}))
      [] type.kind = "slice" ->
            CASE size = "distinct" ->
                    [i \in 1..Min({2, type.limit}) |-> Sample(type.of, size, pos + i)]
              [] size = "bare" -> <<Sample(type.of, size, pos)>>
              [] size = "greatest" ->
                    [i \in 1..type.limit |-> Sample(type.of, size, pos)]
              [] OTHER -> <<>>
      [] type.kind = "map" ->
            LET keys == CASE size = "distinct" -> 1..2
                          [] size \in {"bare", "greatest"} -> {1}
                          [] OTHER -> {}
            IN  [k \in {Sample(type.key, size, pos + i) : i \in keys} |->
                    Sample(type.of, size,
                           CHOOSE i \in pos + 1..pos + 2 : Sample(type.key, size, i) = k)]
      [] type.kind = "lost" -> Sample(type.of, size, pos)
      [] type.kind = "optional" ->
            IF size \in {"zero", "least", "bare"} THEN Nil ELSE Sample(type.of, size, pos)
      [] type.kind = "pointer" ->
            IF size = "zero" THEN Nil ELSE Sample(type.of, size, pos)
      [] type.kind = "struct" ->
            [f \in DOMAIN type.fields |->
                Sample(type.fields[f], size, pos + PositionOf(f, DOMAIN type.fields))]

\* value is a value of the type.
RECURSIVE Fits(_, _)
Fits(value, type) ==
    CASE type.kind = "uint" -> value \in 0..type.max
      [] type.kind = "bool" -> value \in BOOLEAN
      [] type.kind = "time" -> value.ms \in 0..MaxUint64
      [] type.kind = "array" -> Len(value) = type.size
      [] type.kind = "bytes" -> value \in Seq(Nat)
      [] type.kind = "slice" -> \A i \in DOMAIN value : Fits(value[i], type.of)
      [] type.kind = "map" ->
            \A k \in DOMAIN value : Fits(k, type.key) /\ Fits(value[k], type.of)
      [] type.kind = "lost" -> Fits(value, type.of)
      [] type.kind \in {"optional", "pointer"} ->
            value = Nil \/ Fits(value, type.of)
      [] type.kind = "struct" ->
            /\ DOMAIN type.fields \subseteq DOMAIN value
            /\ \A f \in DOMAIN type.fields : Fits(value[f], type.fields[f])

\* Two values of the type are equal except where the type says that the
\* converters lose the value.
RECURSIVE SameValue(_, _, _)
SameValue(a, b, type) ==
    CASE type.kind = "lost" -> TRUE
      [] type.kind = "slice" ->
            /\ Len(a) = Len(b)
            /\ \A i \in DOMAIN a : SameValue(a[i], b[i], type.of)
      [] type.kind \in {"optional", "pointer"} ->
            IF a = Nil \/ b = Nil THEN a = b ELSE SameValue(a, b, type.of)
      [] type.kind = "struct" ->
            \A f \in DOMAIN type.fields : SameValue(a[f], b[f], type.fields[f])
      [] OTHER -> a = b
====
