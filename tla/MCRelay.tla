------------------------------ MODULE MCRelay ------------------------------
EXTENDS Relay, TLC

MCConfs ==
  {[type |-> "push", mode |-> "all",  dynamic |-> TRUE,  down |-> {}, toolong |-> {}],
   [type |-> "push", mode |-> "all",  dynamic |-> FALSE, down |-> {}, toolong |-> {"u1"}],
   [type |-> "push", mode |-> "hash", dynamic |-> FALSE, down |-> {}, toolong |-> {}],
   [type |-> "push", mode |-> "loop", dynamic |-> FALSE, down |-> {}, toolong |-> {}],
   [type |-> "pull", mode |-> "hash", dynamic |-> FALSE, down |-> {}, toolong |-> {}],
   [type |-> "pull", mode |-> "loop", dynamic |-> FALSE, down |-> {}, toolong |-> {}],
   [type |-> "pull", mode |-> "loop", dynamic |-> FALSE, down |-> {}, toolong |-> {"u1"}]}
MCDynamic == {c \in MCConfs : c.dynamic}
MCUpstreams == <<"u1", "u2">>
=============================================================================
