----------------------------- MODULE ByteStream -----------------------------
(***************************************************************************)
(* What one direction of a tunnel promises: a TCP byte stream, cut into    *)
(* chunks.  They arrive in order, none is lost, doubled or made up, the    *)
(* end is seen only after all of them, and a stream that is cut says so.   *)
(***************************************************************************)
EXTENDS Naturals, Sequences

VARIABLES
  sent,  \* chunks the sender has written
  fin,   \* it has ended its side
  got,   \* the chunks the receiver has been given
  over   \* how the stream ended for the receiver: "no", "eof", "cut"

vars == <<sent, fin, got, over>>

Init == sent = 0 /\ fin = FALSE /\ got = <<>> /\ over = "no"

Write == ~fin /\ sent' = sent + 1 /\ UNCHANGED <<fin, got, over>>
Finish == ~fin /\ fin' = TRUE /\ UNCHANGED <<sent, got, over>>

Deliver ==
  /\ over = "no" /\ Len(got) < sent
  /\ got' = Append(got, Len(got) + 1)
  /\ UNCHANGED <<sent, fin, over>>

Eof ==
  /\ over = "no" /\ fin /\ Len(got) = sent
  /\ over' = "eof" /\ UNCHANGED <<sent, fin, got>>

Cut == over = "no" /\ over' = "cut" /\ UNCHANGED <<sent, fin, got>>

Next == Write \/ Finish \/ Deliver \/ Eof \/ Cut

Spec == Init /\ [][Next]_vars

\* What was written, and then the end, gets through, or the stream is cut.
FairSpec == Spec /\ WF_vars(Deliver \/ Eof)
=============================================================================
