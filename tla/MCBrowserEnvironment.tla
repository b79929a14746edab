------------------------- MODULE MCBrowserEnvironment -------------------------
(* Two sources, so that a failure may come between two payloads.              *)
EXTENDS BrowserEnvironment

MCSources == {"location", "online"}
MCOrder == <<"location", "online">>
==============================================================================
