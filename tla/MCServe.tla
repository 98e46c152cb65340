------------------------------ MODULE MCServe ------------------------------
EXTENDS Serve

\* A request of the HTTP server, and a connection of one of the others, whose accept
\* loops are alike.
MCConns == {<<"http", 1>>, <<"tcp", 1>>}
=============================================================================
