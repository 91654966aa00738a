--------------------------- MODULE MCSinkControl ----------------------------
(* One request of each kind that takes another path.                        *)
EXTENDS SinkControl, TLC

MCRequests ==
  { [kind |-> "config", items |-> <<"network_address">>, started |-> "keep"],
    [kind |-> "config", items |-> <<>>, started |-> "start"],
    [kind |-> "config", items |-> <<"app_config">>, started |-> "stop"],
    [kind |-> "upload"], [kind |-> "process"], [kind |-> "target"] }
MCSymmetry == Permutations(Clients)
=============================================================================
