----------------------------- MODULE MCOracles -----------------------------
EXTENDS Oracles

MCRegistrations ==
    {<<"no_crash">>, <<"no_stuck_op">>, <<"availability_after_heal">>,
     <<"external", "formal">>}

\* "formal" declares other phases only.
MCAssertable == Builtins \cup {"external"}
=============================================================================
