------------------------------ MODULE MCShell ------------------------------
(* The lines of the run of Shell: every line of up to three tokens, and     *)
(* longer ones with pipelines, lists, blocks and redirections.              *)
EXTENDS Shell

MCLines ==
    UNION {[1..n -> Tokens] : n \in 1..3} \cup
    { <<"a", "|", "a", "|", "a">>,
      <<"(", "a", ";", "a", ")", "|", "a">>,
      <<"(", "a", "&", ")", "|", "a", ">", "a">>,
      <<"a", "|", "(", "a", "&", ")">>,
      <<"a", "&", ";", "a">>,
      <<"a", ";", "a", ";", "a">>,
      <<"(", "a", "|", "a", ")", "&">>,
      <<"a", "<", "a", "|", "a", "+", "a">>,
      <<"<", "a", "a", ">", "a", "a">>,
      <<"(", "a", ")", ">", "a", "&", "&">>,
      <<"a", "|", "a", "&", ";", "a", "|", "a">>,
      <<"a", "(", "a", ")", ";">> }

MCBusyLines == { <<"a">> }

=============================================================================
