---------------------------- MODULE ByteChannel ----------------------------
(***************************************************************************)
(* What RemoteFileReader and RemoteFileWriter promise of one file's bytes:  *)
(* they arrive in order, none twice and none skipped; the transfer is        *)
(* reported complete only when everything produced has been consumed; and    *)
(* once it is broken (abandoned, cancelled or failed) nothing crosses any     *)
(* more.  A byte is named by its position in the file.                      *)
(***************************************************************************)
EXTENDS Naturals, Sequences

CONSTANT Length        \* number of bytes the producer has

VARIABLES sent,        \* how many bytes the producer has handed over
          received,    \* the bytes the consumer has been given, in order
          outcome      \* "open", "complete" or "broken"

vars == <<sent, received, outcome>>

Init == /\ sent = 0
        /\ received = << >>
        /\ outcome = "open"

Produce == /\ outcome = "open"
           /\ \E n \in 1..(Length - sent) : sent' = sent + n
           /\ UNCHANGED <<received, outcome>>

Consume == /\ outcome = "open"
           /\ \E n \in 1..(sent - Len(received)) :
                received' = [i \in 1..(Len(received) + n) |-> i]
           /\ UNCHANGED <<sent, outcome>>

Complete == /\ outcome = "open"
            /\ Len(received) = sent
            /\ outcome' = "complete"
            /\ UNCHANGED <<sent, received>>

Break == /\ outcome = "open"
         /\ outcome' = "broken"
         /\ UNCHANGED <<sent, received>>

Next == Produce \/ Consume \/ Complete \/ Break

Spec == Init /\ [][Next]_vars
=============================================================================
