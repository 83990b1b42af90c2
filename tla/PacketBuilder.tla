---------------------------- MODULE PacketBuilder ----------------------------
(***************************************************************************)
(* What OscSender promises a well-behaved client, without handles: the     *)
(* packet sent is the value the client spelled out, message by message and *)
(* bundle by bundle, and nothing of it survives into the next packet.      *)
(***************************************************************************)
EXTENDS Naturals, Sequences

CONSTANTS Patterns, Tags, TimeTags

VARIABLES
    open,    \* open bundles, outermost first, with their finished elements
    msg,     \* <<the message being written>>, or <<>>
    done,    \* <<the finished packet>>, or <<>>
    out      \* <<the packet the last call put on the wire>>, or <<>>

pvars == <<open, msg, done, out>>

Message(path, as) == [path |-> path, args |-> as]
Bundle(tag, items) == [tag |-> tag, items |-> items]

\* bs with x added to its innermost bundle.
Into(bs, x) ==
    [bs EXCEPT ![Len(bs)] = Bundle(@.tag, Append(@.items, x))]

PInit == open = <<>> /\ msg = <<>> /\ done = <<>> /\ out = <<>>

PBeginMessage ==
    /\ msg = <<>>
    /\ done = <<>>
    /\ \E p \in Patterns : msg' = <<Message(p, <<>>)>>
    /\ UNCHANGED <<open, done>>

PAddArg ==
    /\ msg # <<>>
    /\ \E t \in Tags : msg' = <<Message(msg[1].path, Append(msg[1].args, t))>>
    /\ UNCHANGED <<open, done>>

PEndMessage ==
    /\ msg # <<>>
    /\ msg' = <<>>
    /\ IF open = <<>> THEN done' = msg /\ UNCHANGED open
                      ELSE open' = Into(open, msg[1]) /\ UNCHANGED done

PBeginBundle ==
    /\ msg = <<>>
    /\ done = <<>>
    /\ \E t \in TimeTags : open' = Append(open, Bundle(t, <<>>))
    /\ UNCHANGED <<msg, done>>

PEndBundle ==
    /\ msg = <<>>
    /\ open # <<>>
    /\ LET closed == open[Len(open)]
           outer == SubSeq(open, 1, Len(open) - 1)
       IN  IF outer = <<>> THEN open' = outer /\ done' = <<closed>>
                           ELSE open' = Into(outer, closed) /\ UNCHANGED done
    /\ UNCHANGED msg

\* UDP gives no guarantee, and send() reports no failure.
PSend ==
    /\ done # <<>>
    /\ done' = <<>>
    /\ out' \in {done, <<>>}
    /\ UNCHANGED <<open, msg>>

PClear == open' = <<>> /\ msg' = <<>> /\ done' = <<>>

\* A call that changes neither the packet nor the wire.
PIdle == UNCHANGED <<open, msg, done>>

PNext ==
    \/ PSend
    \/ /\ \/ PBeginMessage \/ PAddArg \/ PEndMessage
          \/ PBeginBundle \/ PEndBundle
          \/ PClear \/ PIdle
       /\ out' = <<>>

PSpec == PInit /\ [][PNext]_pvars
=============================================================================
