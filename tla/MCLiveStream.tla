---------------------------- MODULE MCLiveStream ----------------------------
(***************************************************************************)
(* LiveStream on small instances, and the promise it implements.           *)
(***************************************************************************)
EXTENDS LiveStream

\* The rendered lines of the log, in file order.
RenderedLines == InOrder(Rendered)

Delivery == INSTANCE StreamDelivery WITH
    Line <- 1..(3 * MaxBodies),
    log <- RenderedLines,
    got <- [c \in Client |-> Received(c)]

\* Each client receives the rendered lines in order, each once, none left out,
\* over all its connections.
DeliversInOrder == Delivery!Spec
=============================================================================
