------------------------ MODULE MCRequestHandlerStore ------------------------
(***************************************************************************)
(* RequestHandlerStore on the instances of MCRequestHandler.               *)
(***************************************************************************)
EXTENDS RequestHandlerStore, MCRequestHandler
=============================================================================
