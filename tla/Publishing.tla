----------------------------- MODULE Publishing -----------------------------
(***************************************************************************)
(* What IndexManager promises about publishing our files in the DHT: files *)
(* wait in a queue, they are begun from its front, and never more than a   *)
(* given number at a time are in the works.  DhtSearch, where the queue,   *)
(* the counter, the threads and the searches are separate, implements it.  *)
(***************************************************************************)
EXTENDS Integers, Sequences

CONSTANTS
    Files,
    Limit       \* most files in the works at a time

VARIABLES
    queue,      \* files that wait
    busy        \* how many files are in the works

vars == <<queue, busy>>

Init ==
    /\ queue = <<>>
    /\ busy = 0

\* A file is queued, in front if it is a partial one.
Submit ==
    /\ \E f \in Files : queue' \in {Append(queue, f), <<f>> \o queue}
    /\ UNCHANGED busy

\* The first file that waits is begun.
Begin ==
    /\ queue # <<>>
    /\ busy < Limit
    /\ queue' = Tail(queue)
    /\ busy' = busy + 1

\* Some files in the works are published or given up.
End ==
    /\ busy' \in 0..(busy - 1)
    /\ UNCHANGED queue

Next == Submit \/ Begin \/ End

Spec == Init /\ [][Next]_vars

=============================================================================
