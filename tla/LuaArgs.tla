------------------------------- MODULE LuaArgs -------------------------------
(***************************************************************************)
(* The arguments of remote events and functions on the wire: Serializer    *)
(* and Deserializer (Network/Transport/Serializer.hpp) and the tagged,     *)
(* nested values LuaArgSerializer writes with them.                        *)
(*                                                                         *)
(* A buffer is a sequence of bytes; each byte is known by the value it is  *)
(* a part of and its place in it, so that a reader that goes out of step   *)
(* with the writer gets Garbage.                                           *)
(***************************************************************************)
EXTENDS Naturals, SequencesExt

CONSTANTS
    Known,     \* NetIds that FindByNetId resolves where the buffer is read
    Garbage    \* the value of bytes that were not written as what they are read as

\* A Lua value.  An instance is known by its NetId, 0 if it has none; a table
\* is the sequence of its pairs.
Value(type, of) == <<type, of>>
Type(v) == v[1]
Of(v)   == v[2]
NilValue == Value("Nil", 0)

-----------------------------------------------------------------------------
(* Serializer and Deserializer. *)

\* The bytes of a primitive.
Raw(kind, v, size) == [i \in 1..size |-> [kind |-> kind, of |-> v, byte |-> i]]

WriteByte(tag)  == Raw("tag", tag, 1)
WriteUInt32(v)  == Raw("uint32", v, 4)
WriteFloat(v)   == Raw("float", v, 4)
WriteFloats(vs) == FlattenSeq([i \in DOMAIN vs |-> WriteFloat(vs[i])])
WriteString(cs) == WriteUInt32(Len(cs)) \o
                   FlattenSeq([i \in DOMAIN cs |-> Raw("char", cs[i], 1)])

\* What a read gives: a value and the offset after it, or an exception, which
\* DispatchMessage catches: the whole packet is dropped.
Got(v, at) == [raised |-> FALSE, value |-> v, at |-> at]
Raised == [raised |-> TRUE, value |-> NilValue, at |-> 0]

CheckBounds(buf, at, needed) == at + needed <= Len(buf)

\* ReadRaw<T>.
Read(buf, at, kind, size) ==
    IF ~CheckBounds(buf, at, size) THEN Raised
    ELSE LET whole == /\ at + size <= Len(buf)
                      /\ \A i \in 1..size : /\ buf[at + i].kind = kind
                                            /\ buf[at + i].byte = i
         IN  Got(IF whole THEN buf[at + 1].of ELSE Garbage, at + size)

\* Several reads one after the other, of one kind: the sequence of values.
RECURSIVE ReadMany(_, _, _, _, _)
ReadMany(buf, at, kind, size, n) ==
    IF n = 0 THEN Got(<<>>, at)
    ELSE LET one == Read(buf, at, kind, size)
             rest == ReadMany(buf, one.at, kind, size, n - 1)
         IN  IF one.raised \/ rest.raised THEN Raised
             ELSE Got(<<one.value>> \o rest.value, rest.at)

\* The whole string must be there before any of it is read.
ReadString(buf, at) ==
    LET len == Read(buf, at, "uint32", 4)
    IN  IF len.raised THEN Raised
        ELSE IF ~CheckBounds(buf, len.at, len.value) THEN Raised
        ELSE ReadMany(buf, len.at, "char", 1, len.value)

-----------------------------------------------------------------------------
(* LuaArgSerializer. *)

\* Functions and other values without a tag are sent as nil.
Tag(v) == IF Type(v) = "Function" THEN "Nil" ELSE Type(v)

RECURSIVE SerializeArg(_)
SerializeArg(v) ==
    WriteByte(Tag(v)) \o
    CASE Type(v) \in {"Nil", "Function"} -> <<>>
      [] Type(v) = "Bool"        -> Raw("bool", Of(v), 1)
      [] Type(v) = "InstanceRef" -> WriteUInt32(Of(v))
      [] Type(v) = "Number"      -> Raw("double", Of(v), 8)
      [] Type(v) = "String"      -> WriteString(Of(v))
      [] Type(v) \in {"Vector3", "CFrame"} -> WriteFloats(Of(v))
      [] Type(v) = "Table" ->
            WriteUInt32(Len(Of(v))) \o
            FlattenSeq([i \in DOMAIN Of(v) |->
                SerializeArg(Of(v)[i][1]) \o SerializeArg(Of(v)[i][2])])

As(type, read) == IF read.raised THEN Raised ELSE Got(Value(type, read.value), read.at)

\* t.set(key, val): a nil value leaves the key out; a nil key is an error.
SetField(t, key, val) == IF Type(val) = "Nil" THEN t ELSE Append(t, <<key, val>>)

RECURSIVE DeserializeArg(_, _), ReadPairs(_, _, _, _), ReadPairsSwapped(_, _, _, _)

\* Mutant of ReadPairs: the value is read before the key, as a compiler may
\* do when both are arguments of one call.
ReadPairsSwapped(buf, at, n, t) ==
    IF n = 0 THEN Got(Value("Table", t), at)
    ELSE LET val == DeserializeArg(buf, at)
             key == DeserializeArg(buf, val.at)
         IN  IF key.raised \/ val.raised \/ Type(key.value) = "Nil" THEN Raised
             ELSE ReadPairsSwapped(buf, key.at, n - 1, SetField(t, key.value, val.value))

ReadPairs(buf, at, n, t) ==
    IF n = 0 THEN Got(Value("Table", t), at)
    ELSE LET key == DeserializeArg(buf, at)
             val == DeserializeArg(buf, key.at)
         IN  IF key.raised \/ val.raised \/ Type(key.value) = "Nil" THEN Raised
             ELSE ReadPairs(buf, val.at, n - 1, SetField(t, key.value, val.value))

\* A NetId that is not known here arrives as nil, and so does an unknown tag.
DeserializeArg(buf, at) ==
    LET tag == Read(buf, at, "tag", 1)
        ref == Read(buf, tag.at, "uint32", 4)
    IN  IF tag.raised THEN Raised
        ELSE CASE tag.value = "Bool"    -> As("Bool", Read(buf, tag.at, "bool", 1))
               [] tag.value = "Number"  -> As("Number", Read(buf, tag.at, "double", 8))
               [] tag.value = "String"  -> As("String", ReadString(buf, tag.at))
               [] tag.value = "Vector3" -> As("Vector3", ReadMany(buf, tag.at, "float", 4, 3))
               [] tag.value = "CFrame"  -> As("CFrame", ReadMany(buf, tag.at, "float", 4, 12))
               [] tag.value = "InstanceRef" ->
                    IF ref.raised THEN Raised
                    ELSE IF ref.value \in Known THEN As("InstanceRef", ref)
                    ELSE Got(NilValue, ref.at)
               [] tag.value = "Table" ->
                    IF ref.raised THEN Raised ELSE ReadPairs(buf, ref.at, ref.value, <<>>)
               [] OTHER -> Got(NilValue, tag.at)

SerializeArgs(args) ==
    WriteUInt32(Len(args)) \o FlattenSeq([i \in DOMAIN args |-> SerializeArg(args[i])])

RECURSIVE DeserializeRest(_, _, _, _)
DeserializeRest(buf, at, n, out) ==
    IF n = 0 THEN Got(out, at)
    ELSE LET one == DeserializeArg(buf, at)
         IN  IF one.raised THEN Raised
             ELSE DeserializeRest(buf, one.at, n - 1, Append(out, one.value))

DeserializeArgs(buf) ==
    LET count == Read(buf, 0, "uint32", 4)
    IN  IF count.raised THEN Raised
        ELSE DeserializeRest(buf, count.at, count.value, <<>>)

-----------------------------------------------------------------------------
(* What should arrive. *)

\* The value a script at the other end gets for v: what it is, with nil for
\* whatever has no meaning there, and a table without the entries whose value
\* is nil there.
RECURSIVE Meant(_)
Meant(v) ==
    CASE Type(v) = "Function" -> NilValue
      [] Type(v) = "InstanceRef" -> IF Of(v) \in Known THEN v ELSE NilValue
      [] Type(v) = "Table" ->
            Value("Table", SelectSeq([i \in DOMAIN Of(v) |-> <<Meant(Of(v)[i][1]), Meant(Of(v)[i][2])>>],
                                     LAMBDA pair : Type(pair[2]) # "Nil"))
      [] OTHER -> v

\* A table cannot be built at the other end when one of its keys, or of those
\* of a table inside it, means nothing there.
RECURSIVE Meaningful(_)
Meaningful(v) ==
    Type(v) = "Table" =>
        \A i \in DOMAIN Of(v) : /\ Type(Meant(Of(v)[i][1])) # "Nil"
                               /\ Meaningful(Of(v)[i][1]) /\ Meaningful(Of(v)[i][2])

\* A message is read to its last byte and gives what was meant; one with a
\* key that means nothing raises, as does every message cut short.
Arrives(args) ==
    LET got == DeserializeArgs(SerializeArgs(args))
    IN  IF \A i \in DOMAIN args : Meaningful(args[i])
        THEN got = Got([i \in DOMAIN args |-> Meant(args[i])], Len(SerializeArgs(args)))
        ELSE got.raised

ShortRaises(args) ==
    LET buf == SerializeArgs(args)
    IN  \A n \in 0..Len(buf) - 1 : DeserializeArgs(SubSeq(buf, 1, n)).raised
=============================================================================
