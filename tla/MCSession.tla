------------------------------ MODULE MCSession ------------------------------
(***************************************************************************)
(* Instances of Session for TLC.                                           *)
(***************************************************************************)
EXTENDS Session

SomeLines == <<"EUR/USD", "", "USD/JPY">>

All == [version : Supported \cup {0, 51}, valid : BOOLEAN, individual : BOOLEAN,
        reset : BOOLEAN, persist : BOOLEAN]

\* Either the numbers are reset or nothing is kept to be sent again.
Forgetful == {s \in All : s.reset \/ ~s.persist}
Keeping == {s \in All : s.version = 42 /\ ~s.reset /\ s.persist}
=============================================================================
