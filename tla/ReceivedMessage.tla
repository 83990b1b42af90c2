--------------------------- MODULE ReceivedMessage ---------------------------
(***************************************************************************)
(* osc::ReceivedMessage (src/lopack/OscTypes.cpp, OscTypes.h): a wrapper of*)
(* a liblo message that answers questions about its arguments.  What a     *)
(* message holds is a record [path, args]; the accessors are operators on  *)
(* it.                                                                     *)
(***************************************************************************)
EXTENDS Integers, Sequences

CONSTANT None

(* Arguments: [type, val].  The value of an 'f' or 'd' is in halves, that  *)
(* of any other number in units; 'm' has a sequence of bytes.              *)

NoArg == [type |-> "*", val |-> None]

numArgs(c) == Len(c.args)

\* The argument at index at, counted from 0; arg() itself throws instead.
arg(c, at) == IF at < numArgs(c) THEN c.args[at + 1] ELSE NoArg

typeTag(c, at) == arg(c, at).type

types(c) == [i \in 1..numArgs(c) |-> c.args[i].type]

checkAddressAndTypes(c, address, ts) == address = c.path /\ ts = types(c)

\* The type tag of each type that has one, which is also the name of the member
\* of lo_arg that holds it.
Letter ==
    [Char |-> "c", Nil |-> "N", Infinitum |-> "I", Int32 |-> "i",
     Int64 |-> "h", Float |-> "f", Double |-> "d", String |-> "s",
     Symbol |-> "S", MidiMessage |-> "m", TimeTag |-> "t", Blob |-> "b"]

\* Mistake: isInt32 answers for either width, as isInt does.
TagsOfAnyInt(k) ==
    CASE k = "Bool" -> {"T", "F"}
      [] k \in {"Int", "Int32"} -> {"i", "h"}
      [] k = "Text" -> {"s", "S"}
      [] OTHER -> {Letter[k]}

\* The type tags that isBool ... isBlob accept.
TagsOf(k) ==
    CASE k = "Bool" -> {"T", "F"}
      [] k = "Int" -> {"i", "h"}
      [] k = "Text" -> {"s", "S"}
      [] OTHER -> {Letter[k]}

is(k, c, at) == typeTag(c, at) \in TagsOf(k)

Throws(e) == [exc |-> e, read |-> "none", val |-> None]

\* asMidiMessage reverses the bytes.
Got(member, v) ==
    [exc |-> "none", read |-> member,
     val |-> IF member = "m" THEN [i \in 1..Len(v) |-> v[Len(v) - i + 1]] ELSE v]

Accessors == ({"Bool"} \cup DOMAIN Letter) \ {"Nil", "Infinitum"}

\* asBool ... asBlob, for k in Accessors.  asBlob makes no type check; with a bad
\* index the others throw TypeException, since typeTag answers '*'.
as(k, c, at) ==
    IF k # "Blob" /\ ~is(k, c, at) THEN Throws("TypeException")
    ELSE IF k = "Bool" THEN Got("none", typeTag(c, at) = "T")
    ELSE IF arg(c, at) = NoArg THEN Throws("ArgException")
    ELSE Got(Letter[k], arg(c, at).val)
=============================================================================
