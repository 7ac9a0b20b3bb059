--------------------------- MODULE MCWifiConnection ----------------------------
EXTENDS WifiConnection

CONSTANTS home, office

MCNetworks == {home, office}
===============================================================================
