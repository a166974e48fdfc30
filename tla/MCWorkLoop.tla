---------------------------- MODULE MCWorkLoop ----------------------------
(* The work loop on one or two processors; the configurations set the      *)
(* bounds.                                                                 *)
EXTENDS WorkLoop, TLC

\* A handler's wait may be shorter or longer than the interval between two
\* clean-ups: WAIT_EXCH_REP_TIME and NET_TRAVERSAL_TIME, WAIT_FILE_REP_TIME.
ShortWait == ("oneshot" :> 1) @@ ("TASK_CLEAN_UP" :> 2)
LongWait  == ("oneshot" :> 2) @@ ("TASK_CLEAN_UP" :> 1)
=============================================================================
