------------------------------- MODULE MCSsh -------------------------------
\* The instance of Ssh that TLC checks: the bounds are in the configurations.
EXTENDS Ssh
=============================================================================
