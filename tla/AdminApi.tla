------------------------------ MODULE AdminApi ------------------------------
(***************************************************************************)
(* What one request of an administrator page comes to, and what the pages  *)
(* make of a mutation that did not come back with a usable answer.         *)
(***************************************************************************)

Statuses == {"200", "401", "403", "404", "409", "422", "429", "5xx"}

\* What meets one request: whether a response arrived and with which status, whether its
\* body could be read as the expected contract, and what cut the request short.
Happenings == [arrived : BOOLEAN, status : Statuses, readable : BOOLEAN,
               cut : {"no", "timeout", "abort"}]

\* A status other than success wins over everything that happens after it; a body that
\* cannot be read is told from a connection that failed by the response having arrived.
RequestOutcome(h) ==
    IF h.arrived /\ h.status # "200" THEN h.status
    ELSE IF h.arrived /\ h.readable /\ h.cut = "no" THEN "ok"
    ELSE IF h.cut = "timeout" THEN "timeout"
    ELSE IF h.cut = "abort" THEN "aborted"
    ELSE IF h.arrived THEN "invalid-response" ELSE "network"

Outcomes == {RequestOutcome(h) : h \in Happenings}

\* No caller aborts the request of a mounted page other than to supersede it.
Failures == Outcomes \ {"ok", "aborted"}

\* A mutation that failed this way may have been carried out.
Ambiguous(outcome) == outcome \in {"network", "timeout", "invalid-response", "5xx"}

\* Failures the service itself answers with, after rolling its transaction back.
Refusals == {o \in Failures : ~Ambiguous(o)}
=============================================================================
