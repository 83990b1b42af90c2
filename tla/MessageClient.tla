---------------------------- MODULE MessageClient ----------------------------
(***************************************************************************)
(* What a client does with received messages: it gets arguments as a type  *)
(* of its own with the try... functions, and it may keep copies of a       *)
(* message beyond the callback.                                            *)
(*                                                                         *)
(* The state is the life of the messages: liblo's reference count, the     *)
(* wrapper messageCB makes, and copies of it that the client keeps.        *)
(***************************************************************************)
EXTENDS ReceivedMessage

CONSTANTS
    Messages,     \* lo_message handles
    Contents,     \* what a message may hold: [path, args]
    MaxCopies,    \* bound: copies of one wrapper the client keeps
    CHAR,         \* values of a char: 2^8
    INT,          \* values of an int32_t: 2^32
    FLOAT,        \* of a float, in halves: [prec, exp], see Floating
    DOUBLE        \* of a double

ASSUME MessageAssumption ==
    /\ CHAR \in Nat \ {0} /\ INT \in Nat \ {0}
    /\ FLOAT \in [prec : Nat, exp : Nat] /\ DOUBLE \in [prec : Nat, exp : Nat]
    /\ MaxCopies \in Nat
    /\ None \notin Messages

\* liblo has parsed the arguments: each has a type tag, and numbers have numbers.
ASSUME ContentAssumption ==
    \A c \in Contents :
        /\ numArgs(c) \in Nat
        /\ \A i \in 1..numArgs(c) :
              /\ c.args[i].type \in {"T", "F"} \cup {Letter[k] : k \in DOMAIN Letter}
              /\ c.args[i].type \in {"c", "i", "h", "f", "d"} => c.args[i].val \in Int

VARIABLES
    refs,       \* liblo: reference count of each message; 0 is not allocated
    content,    \* what each message holds
    current,    \* the message whose callback is running, or None
    copies      \* copies of the wrapper of each message that the client has

mvars == <<refs, content, current, copies>>

-----------------------------------------------------------------------------
(* tryBool ... tryString.  A char is signed, as on x86-64.                 *)

\* A conversion to an integer drops the fraction.
Trunc(h) == IF h >= 0 THEN h \div 2 ELSE -((-h) \div 2)

Signed(n, width) == ((n + width \div 2) % width) - width \div 2
Ints == (-(INT \div 2))..(INT \div 2 - 1)
Unsigned == 0..(INT - 1)

\* The numbers of a floating type.
Floating(type) == {m * 2^e : m \in (-type.prec)..type.prec, e \in 0..type.exp}

Distance(g, h) == IF g < h THEN h - g ELSE g - h

\* A conversion to a floating type gives the nearest number.  Of two as near
\* either may come out, and beyond the largest infinity (None) too.
Rounded(h, type) ==
    LET all == Floating(type)
        nearest == {g \in all : \A f \in all : Distance(g, h) =< Distance(f, h)}
    IN  IF \E f, g \in all : f =< h /\ h =< g THEN nearest
                                             ELSE nearest \cup {None}

\* The value of a numeric argument in halves.
Halves(k, v) == CASE k = "Bool" -> IF v THEN 2 ELSE 0
                  [] k \in {"Float", "Double"} -> v
                  [] OTHER -> 2 * v

\* The types that each destination is tried with, in order.
Chain ==
    LET numbers == <<"Bool", "Int32", "Int64", "Float", "Double">>
    IN  [bool |-> numbers, char |-> <<"Char", "Int32", "Int64">>,
         int |-> numbers, unsigned |-> numbers, float |-> numbers,
         double |-> numbers, string |-> <<"String", "Symbol">>]

\* A narrower integer keeps the low bits; a floating value that does not fit an
\* integer is undefined, and any value may come out.
ToInteger(k, v, range, narrowed) ==
    IF k \in {"Float", "Double"}
    THEN IF Trunc(v) \in range THEN {Trunc(v)} ELSE range
    ELSE {narrowed}

\* Mistake: the overload for unsigned keeps the cast to int.
ConvertCopied(d, k, v) ==
    CASE d = "bool" -> {Halves(k, v) # 0}
      [] d = "char" -> {Signed(v, CHAR)}
      [] d \in {"int", "unsigned"} ->
            ToInteger(k, v, Ints, Signed(Trunc(Halves(k, v)), INT))
      [] d = "float" -> Rounded(Halves(k, v), FLOAT)
      [] d = "double" -> Rounded(Halves(k, v), DOUBLE)
      [] d = "string" -> {v}

\* What *dest can be, given the answer v of as<k>.  Floating values in halves.
Convert(d, k, v) ==
    CASE d = "bool" -> {Halves(k, v) # 0}
      [] d = "char" -> {Signed(v, CHAR)}
      [] d = "int" ->
            ToInteger(k, v, Ints, Signed(Trunc(Halves(k, v)), INT))
      [] d = "unsigned" ->
            ToInteger(k, v, Unsigned, Trunc(Halves(k, v)) % INT)
      [] d = "float" -> Rounded(Halves(k, v), FLOAT)
      [] d = "double" -> Rounded(Halves(k, v), DOUBLE)
      [] d = "string" -> {v}

\* Whether a try... function succeeds, what it may throw and store.
try(d, c, at) ==
    LET fits == {i \in DOMAIN Chain[d] : is(Chain[d][i], c, at)}
        k == Chain[d][CHOOSE i \in fits : \A j \in fits : i =< j]
        got == as(k, c, at)
    IN  IF fits = {} THEN [ok |-> FALSE, exc |-> "none", dest |-> {}]
        ELSE IF got.exc # "none"
        THEN [ok |-> FALSE, exc |-> got.exc, dest |-> {}]
        ELSE [ok |-> TRUE, exc |-> "none", dest |-> Convert(d, k, got.val)]

-----------------------------------------------------------------------------
(* The life of a message.                                                  *)

MInit ==
    /\ refs = [m \in Messages |-> 0]
    /\ content = [m \in Messages |-> None]
    /\ current = None
    /\ copies = [m \in Messages |-> 0]

\* messageCB: liblo has parsed a datagram into a message of one reference; the
\* wrapper made for the callbacks takes another.
messageCB(m, c) ==
    /\ current = None
    /\ refs[m] = 0
    /\ refs' = [refs EXCEPT ![m] = 2]
    /\ content' = [content EXCEPT ![m] = c]
    /\ current' = m
    /\ UNCHANGED copies

\* The implicit copy constructor copies the handle.
Copy(m) ==
    /\ current = m \/ copies[m] > 0
    /\ copies[m] < MaxCopies
    /\ copies' = [copies EXCEPT ![m] = @ + 1]
    /\ UNCHANGED <<refs, content, current>>

\* The implicit destructor of a copy.
Drop(m) ==
    /\ copies[m] > 0
    /\ copies' = [copies EXCEPT ![m] = @ - 1]
    /\ UNCHANGED <<refs, content, current>>

\* liblo gives up n references; the last one frees the message.
Free(m, n) ==
    /\ current = m
    /\ refs' = [refs EXCEPT ![m] = @ - n]
    /\ content' = [content EXCEPT ![m] = IF refs[m] = n THEN None ELSE @]
    /\ current' = None
    /\ UNCHANGED copies

\* Mistake: a destructor releases the wrapper's reference, and copies have none.
ReturnReleasing(m) == Free(m, 2)

\* messageCB returns: the wrapper's implicit destructor releases nothing, and
\* liblo gives up its reference.
Return(m) == Free(m, 1)

MNext ==
    \E m \in Messages :
        \/ \E c \in Contents : messageCB(m, c)
        \/ Copy(m) \/ Drop(m) \/ Return(m)

MSpec == MInit /\ [][MNext]_mvars

-----------------------------------------------------------------------------
\* A wrapper that a callback has, or a copy that a client kept after it, is of
\* a message that liblo has not freed: the accessors never read freed memory.
KeptMessagesValid ==
    \A m \in Messages : current = m \/ copies[m] > 0 => refs[m] > 0

\* What a callback is given.
received == content[current]

\* Arguments a call can be about, the first bad index included.
Indices(c) == 0..numArgs(c)

\* The union lo_arg is read only as the member the type tag says, by any of the
\* checked accessors and by try..., and those never throw.
ReadsAsItsType ==
    current # None =>
        \A at \in Indices(received) :
            /\ \A k \in Accessors \ {"Blob"} :
                  as(k, received, at).read \in {"none", typeTag(received, at)}
            /\ \A d \in DOMAIN Chain : try(d, received, at).exc = "none"

\* Numbers a destination can hold, in halves.
Holds(d, h) ==
    CASE d = "bool" -> h \in {0, 2}
      [] d = "char" -> h % 2 = 0 /\ h \div 2 \in (-(CHAR \div 2))..(CHAR \div 2 - 1)
      [] d = "int" -> h % 2 = 0 /\ h \div 2 \in Ints
      [] d = "unsigned" -> h % 2 = 0 /\ h \div 2 \in Unsigned
      [] d = "float" -> h \in Floating(FLOAT)
      [] d = "double" -> h \in Floating(DOUBLE)

\* A number as a destination has it.
Exact(d, h) == CASE d = "bool" -> h = 2
                 [] d \in {"char", "int", "unsigned"} -> h \div 2
                 [] OTHER -> h

\* tryBool, tryChar and the four tryNumber store a number that the destination
\* can hold unchanged, whichever type it was sent as: a client need not know
\* whether its peer sends integers, floats or doubles.  A float or a double does
\* not hold every int64_t.
TryKeepsNumbers ==
    current # None =>
        \A at \in Indices(received), d \in DOMAIN Chain \ {"string"} :
            \A k \in {"Bool", "Int32", "Int64", "Float", "Double"} :
                is(k, received, at) /\ try(d, received, at).ok =>
                    LET h == Halves(k, as(k, received, at).val)
                    IN  Holds(d, h) => try(d, received, at).dest = {Exact(d, h)}

\* OscTypes.h:256, "throws an exception on bad index or type": the accessors
\* read an argument only as the type it has.
AccessorsThrow ==
    current # None =>
        \A at \in Indices(received), k \in Accessors :
            as(k, received, at).read \in {"none", typeTag(received, at)}
=============================================================================
