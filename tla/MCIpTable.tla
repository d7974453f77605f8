------------------------------- MODULE MCIpTable -------------------------------
EXTENDS IpTable

\* One address is negative as a signed integer, below the zero of unused pairs.
MCIps == {-1, 1, 2, 3}
================================================================================
