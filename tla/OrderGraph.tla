------------------------------ MODULE OrderGraph ------------------------------
(* Fulfilment statuses of an order and the edges between them.             *)

OrderStatus == {"created", "accepted", "preparing", "ready", "completed", "cancelled"}

AllowedTransitions ==
    { <<"created", "accepted">>, <<"created", "cancelled">>, <<"accepted", "preparing">>,
      <<"preparing", "ready">>, <<"ready", "completed">> }
=============================================================================
