---------------------------- MODULE MCScriptReload ----------------------------
(* ScriptReload with two scripts, one of which calls the API back.           *)
EXTENDS ScriptReload

CONSTANTS calling, plain, before, after, f1, f2

MCHandlers  == {calling, plain} \X (1..MaxRevision)
MCMatching  == [e \in {before, after} |->
                  IF e = before THEN MCHandlers
                  ELSE {h \in MCHandlers : h[1] = plain}]
MCWeight    == [h \in MCHandlers |-> IF h[1] = calling THEN 1 ELSE 2]
MCCallsBack == {h \in MCHandlers : h[1] = calling}
=============================================================================
