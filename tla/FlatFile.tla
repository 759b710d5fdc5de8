------------------------------ MODULE FlatFile ------------------------------
(***************************************************************************)
(* What the comments on read, write and truncate promise the user of one   *)
(* file: it is a sequence of bytes, which a write replaces or extends and  *)
(* a read returns exactly.  Bytes may change one by one while a write is   *)
(* under way, and stay half written when it fails; no other byte changes,  *)
(* and the file grows only by the bytes of a write, all at once.           *)
(***************************************************************************)
EXTENDS Integers, Sequences

CONSTANTS
  Byte         \* the values of a byte

VARIABLES
  content,     \* the bytes of the file
  call,        \* the call under way
  answer       \* what the last call returned, once it has

varsFlat == <<content, call, answer>>

NoCall == [op |-> "none"]
NoAnswer == [code |-> "none"]
ErrorAnswer(e) == [code |-> e]
ReadAnswer(bytes) == [code |-> "ok", bytes |-> bytes]
CountAnswer(n) == [code |-> "ok", count |-> n]

FlatInit == content = <<>> /\ call = NoCall /\ answer = NoAnswer

Larger(m, n) == IF m > n THEN m ELSE n

\* The content c with the bytes of the write w in their place.
Overlaid(c, w) ==
  [p \in 1 .. Larger(Len(c), w.off + Len(w.data)) |->
     IF p - w.off \in DOMAIN w.data THEN w.data[p - w.off] ELSE c[p]]

\* d is c with some of the bytes of w that lie within it.
PartlyOverlaid(c, w, d) ==
  /\ DOMAIN d = DOMAIN c
  /\ \A p \in DOMAIN c : d[p] \in {c[p], Overlaid(c, w)[p]}

Starts ==
  /\ call = NoCall /\ answer' = NoAnswer /\ UNCHANGED content
  /\ \/ call'.op = "read" /\ call'.off \in Nat /\ call'.len \in Nat
     \/ call'.op = "write" /\ call'.off \in 0 .. Len(content) /\ call'.data \in Seq(Byte)

\* "return EINVAL if 'offset' is greater than current file length"
Refused ==
  /\ call = NoCall /\ call' = NoCall /\ UNCHANGED content
  /\ answer' \in {ErrorAnswer("EINVAL"), ErrorAnswer("ENOSPC")}

\* "exactly the number of bytes requested", or those up to the end of the file
ReadReturns ==
  /\ call.op = "read" /\ call' = NoCall /\ UNCHANGED content
  /\ answer' = ReadAnswer(SubSeq(content, call.off + 1,
                                 IF call.off + call.len > Len(content) THEN Len(content)
                                 ELSE call.off + call.len))

WritesSome ==
  /\ call.op = "write" /\ UNCHANGED <<call, answer>>
  /\ content' = Overlaid(content, call) \/ PartlyOverlaid(content, call, content')

WriteReturns ==
  /\ call.op = "write" /\ call' = NoCall
  /\ content' = Overlaid(content, call)
  /\ answer' = CountAnswer(Len(call.data))

FailsHalfWay ==
  /\ call # NoCall /\ call' = NoCall /\ answer' = ErrorAnswer("EIO")
  /\ \/ UNCHANGED content
     \/ /\ call.op = "write"
        /\ content' = Overlaid(content, call) \/ PartlyOverlaid(content, call, content')

Truncates ==
  /\ call = NoCall /\ call' = NoCall
  /\ \/ content' = <<>> /\ answer' \in {CountAnswer(0), ErrorAnswer("EIO")}
     \/ UNCHANGED content /\ answer' = ErrorAnswer("EIO")

FlatNext ==
  \/ Starts \/ Refused \/ ReadReturns \/ WritesSome \/ WriteReturns
  \/ FailsHalfWay \/ Truncates

FlatSpec == FlatInit /\ [][FlatNext]_varsFlat
=============================================================================
