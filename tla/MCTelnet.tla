------------------------------ MODULE MCTelnet ------------------------------
\* A client of Telnet that sends data, line ends, escapes, whole and partial
\* commands, one behind the other.
EXTENDS Telnet

MCUnits ==
  { <<"x">>, <<"lf">>, <<"cr">>, <<"nul">>, <<"iac">>, <<"se">>,
    <<"iac", "do", "x">>, <<"iac", "do", "sga">>, <<"iac", "will", "naws">>,
    <<"iac", "will", "x">>, <<"iac", "wont", "x">>, <<"iac", "sb">>,
    <<"iac", "sb", "x", "iac", "se">>, <<"iac", "sb", "iac", "iac", "se">> }

=============================================================================
