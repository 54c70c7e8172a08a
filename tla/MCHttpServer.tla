---------------------------- MODULE MCHttpServer ----------------------------
(* HttpServer with two clients on two loops.  A client sends a request with a
   header, or a request that ends with a line without a colon and another after
   it, in two parts; the server reads one if the second is there in time. *)
EXTENDS HttpServer

CONSTANTS c1, c2, l1, l2

MCLoopOf == [c \in {c1, c2} |-> IF c = c1 THEN l1 ELSE l2]

MCScripts ==
  {<<<<"request", "crlf", "header">>, <<"crlf", "crlf">>>>,
   <<<<"request">>, <<"crlf", "text", "crlf", "request", "crlf", "crlf">>>>}
=============================================================================
