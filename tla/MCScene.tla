---------------------------------- MODULE MCScene ----------------------------------
(* Two nodes with a link, the nodes alone, and one of them.                 *)
EXTENDS Scene

MCFlows == {[nodes |-> {"a", "b"}, links |-> {"ab"}], [nodes |-> {"a", "b"}, links |-> {}], [nodes |-> {"a"}, links |-> {}]}
===============================================================================
