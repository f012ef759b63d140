----------------------------- MODULE MCCheckout -----------------------------
(***************************************************************************)
(* Instances of Checkout.tla for TLC: every hook, token and host, with a   *)
(* ref that exists and one that does not.                                  *)
(***************************************************************************)
EXTENDS Checkout

Environments == {{}, {"HTTPS_PROXY", "GIT_TERMINAL_PROMPT", "GIT_CONFIG_PARAMETERS"}}

SomeRequests ==
    [url : {TRUE}, ref : {TRUE}, host : {"github.com"}, exists : BOOLEAN, token : {"value"},
     hook : {"plain", "retries", "raises", "mute", "absent", "impatient"},
     inherited : Environments]
    \union
    [url : {TRUE}, ref : {TRUE}, host : {"github.com", "gitlab.com"}, exists : {TRUE},
     token : {"none", "fails", "empty", "value"}, hook : {"plain"}, inherited : Environments]
    \union
    [url : BOOLEAN, ref : {FALSE}, host : {"github.com"}, exists : {TRUE},
     token : {"none"}, hook : {"plain"}, inherited : {{}}]
=============================================================================
