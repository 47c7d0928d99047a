------------------------- MODULE MCAtomicBroadcast --------------------------
(***************************************************************************)
(* Instances of AtomicBroadcast for TLC: the client operations that occur. *)
(***************************************************************************)
EXTENDS AtomicBroadcast

Request(u, command, broadcast) ==
  [uuid |-> u, client |-> "cli0", command |-> command, broadcast |-> broadcast]

MessageOf(type, op, from) == [type |-> type, op |-> op, from |-> from]

\* A write; the same once it says that it was broadcast; another content under
\* its uuid; a read.
Write == Request("u1", "add", FALSE)
Retry == Request("u1", "add", TRUE)
Assign == Request("u1", "assign", FALSE)
Read == Request("u2", "check", FALSE)

\* The first of four is asked for a write; the last is faulty, and may be ready
\* before the others are.
OneWrite == {Write}
OneWriteOfFirst == {<<1, Write>>}
ReadyOfLast == {MessageOf("Ready", Write, 4)}

\* The second of three is asked for a write and a read; the first is faulty and
\* spreads another content.
Contents == {Write, Retry, Assign, Read}
WriteAndReadOfSecond == {<<2, Write>>, <<2, Read>>}
OtherOfFirst == {MessageOf(type, Assign, 1) : type \in {"Init", "Ready"}}

\* The first of four is asked for either of two contents; the last is faulty.
TwoContents == {Write, Assign}
TwoContentsOfFirst == {1} \X TwoContents
InitsOfLast == {MessageOf("Init", op, 4) : op \in TwoContents}
=============================================================================
