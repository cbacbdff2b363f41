--------------------------- MODULE MCRadioHandles ---------------------------
EXTENDS RadioHandles

MCNumbers == 0 .. 3

(* mesh_txrx.py, c2_gateway.py, node_status_tx.py: one thread each;
   simple_txrx.py opens the radio once, and its second thread opens nothing. *)
OneThread ==
    {[tx |-> TRUE,  rx |-> TRUE,  hops |-> TRUE,  threads |-> FALSE],
     [tx |-> FALSE, rx |-> TRUE,  hops |-> TRUE,  threads |-> FALSE],
     [tx |-> TRUE,  rx |-> FALSE, hops |-> TRUE,  threads |-> FALSE],
     [tx |-> TRUE,  rx |-> TRUE,  hops |-> FALSE, threads |-> FALSE]}

(* dashboard_server.py: the radio loop next to the threads of the HTTP
   server, which open a socket per request and the files they serve. *)
ManyThreads == {[tx |-> FALSE, rx |-> TRUE, hops |-> TRUE, threads |-> TRUE]}
=============================================================================
