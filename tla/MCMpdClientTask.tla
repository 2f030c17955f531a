-------------------------- MODULE MCMpdClientTask --------------------------
(* Model checking MpdClientTask: two status polls that replace each other,  *)
(* around the command that swaps a link for its stream, whose first         *)
(* exchange, the delete, may fail unheard.  A sync query runs as a query    *)
(* without a replace_id does.                                              *)
EXTENDS MpdClientTask

MCKind == <<"query", "command", "query">>
MCSteps == << <<"must">>, <<"may", "must">>, <<"must">> >>
MCReplaceId == <<1, 0, 1>>
=============================================================================
