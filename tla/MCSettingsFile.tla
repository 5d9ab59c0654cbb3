--------------------------- MODULE MCSettingsFile ---------------------------
(* Contents the others write: with and without our entry, with foreign and *)
(* merged ones, and what the master must refuse to touch.                  *)
EXTENDS SettingsFile

MCWritten ==
  {[form |-> "object", shaped |-> TRUE, hooks |-> h, flag |-> h = <<>>, rest |-> r] :
     h \in {<<>>, <<"stale", "foreign">>, <<"merged">>, <<"foreign", "ours">>}, r \in Rest \ {NoKeys}}
  \cup {[form |-> "object", shaped |-> TRUE, hooks |-> <<>>, flag |-> FALSE, rest |-> NoKeys]}
  \cup {[form |-> f, shaped |-> FALSE, hooks |-> <<>>, flag |-> FALSE, rest |-> NoKeys] :
          f \in {"object", "value", "garbled"}}
=============================================================================
