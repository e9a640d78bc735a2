------------------------------- MODULE Outbox -------------------------------
(***************************************************************************)
(* What one device is promised about its writes, as long as its process    *)
(* lives: the server handles them in the order they were made, each write  *)
(* completes after it was handled, and after a lost connection those not   *)
(* answered yet are handled again, all of them and in order.               *)
(*                                                                         *)
(* Writes are numbered as they are made.  The data base is one location:   *)
(* the order of writes is what matters, whichever locations they go to.    *)
(* Connection is the library that keeps this promise, ChatPair and         *)
(* MessageSend are what the app builds on it.                              *)
(***************************************************************************)
EXTENDS Naturals

VARIABLES
  issued,   \* writes made
  out,      \* those that are not answered
  applied,  \* those of them the server handled on the present connection
  latest,   \* the write the server handled last, 0 before any
  done      \* writes whose completion was called

vars == <<issued, out, applied, latest, done>>

TypeOK ==
  /\ issued \in Nat
  /\ out \subseteq 1 .. issued /\ applied \subseteq out
  /\ latest \in 0 .. issued
  /\ done \subseteq 1 .. issued

Init == issued = 0 /\ out = {} /\ applied = {} /\ latest = 0 /\ done = {}

Issue ==
  /\ issued' = issued + 1 /\ out' = out \cup {issued + 1}
  /\ UNCHANGED <<applied, latest, done>>

\* The server handles the oldest write it has not had on this connection.
Apply(n) ==
  /\ n \in out \ applied
  /\ \A m \in out : m < n => m \in applied
  /\ applied' = applied \cup {n} /\ latest' = n
  /\ UNCHANGED <<issued, out, done>>

\* Its answer arrives; the completion runs now, or later.
Ack(n) ==
  /\ n \in applied
  /\ \A m \in out : n <= m
  /\ out' = out \ {n} /\ applied' = applied \ {n}
  /\ done' \in {done, done \cup {n}}
  /\ UNCHANGED <<issued, latest>>

Complete ==
  /\ done' \in {done \cup S : S \in SUBSET ((1 .. issued) \ out)}
  /\ UNCHANGED <<issued, out, applied, latest>>

\* The connection is lost, and with it the answers on the way.
Drop ==
  /\ applied' = {}
  /\ UNCHANGED <<issued, out, latest, done>>

Next == \/ Issue \/ Complete \/ Drop
        \/ \E n \in out : Apply(n) \/ Ack(n)

Spec == Init /\ [][Next]_vars

\* Once every write is answered, the last one made is the last one handled: a
\* write handled again after a lost connection never has the last word over a
\* newer one of the same device.
LastStays == out = {} => latest = issued

\* No completion runs for a write that is not answered.
DoneAnswered == done \cap out = {}
=============================================================================
