------------------------------- MODULE AgentMC -------------------------------
(***************************************************************************)
(* Command lines for AgentEvents: every subcommand with each class of      *)
(* word in each place, and the options where they matter.                  *)
(***************************************************************************)
EXTENDS AgentEvents

Words == {"empty", "big", "rel", "remote", "zero", "one", "success"}
Places == {<<>>} \cup {<<a>> : a \in Words} \cup {<<"abs", a>> : a \in Words} \cup {<<"success", a>> : a \in Words}
          \cup {<<"abs", "one", a>> : a \in Words}
Tails == {<<>>, <<"--timeout", "one">>, <<"--timeout", "empty">>, <<"--title", "empty">>,
          <<"--artifact", "empty">>, <<"--artifact", "rel">>, <<"--session">>, <<"--frob", "one">>,
          <<"--project", "rel", "--project", "rel">>, <<"--", "--frob">>}
CommandLines ==
    {<<sub>> \o place \o tail :
        sub \in Subcommands \cup {"other"}, place \in Places, tail \in Tails}

CONSTANTS c1, c2

TwoCalls == {c1, c2}
OneOfAll == c1 :> CommandLines @@ c2 :> {<<"message", "rel">>, <<"open-file", "abs">>}
=============================================================================
