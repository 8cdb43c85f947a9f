--------------------------- MODULE StreamDelivery ---------------------------
(***************************************************************************)
(* What the live stream promises a client, whatever connections it uses:   *)
(* the rendered lines of the log, each once, in log order, none left out.  *)
(***************************************************************************)
EXTENDS Naturals, Sequences

CONSTANTS Client, Line

VARIABLES
    log,    \* the rendered lines, in the order they were logged
    got     \* what each client received, over all its connections

Init == log = <<>> /\ got = [c \in Client |-> <<>>]

Log == \E x \in Line : log' = Append(log, x) /\ UNCHANGED got

Deliver(c) ==
    /\ Len(got[c]) < Len(log)
    /\ got' = [got EXCEPT ![c] = Append(@, log[Len(@) + 1])]
    /\ UNCHANGED log

Next == Log \/ \E c \in Client : Deliver(c)

Spec == Init /\ [][Next]_<<log, got>>

=============================================================================
