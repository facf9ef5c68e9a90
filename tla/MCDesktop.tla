-------------------------------- MODULE MCDesktop --------------------------------
(* Desktop with two local ports, of which a run may use one, and a remote server; a    *)
(* split tunnel that is asked for in lower case, and the rules that switch it off.      *)
EXTENDS Desktop

CONSTANTS l1, l2, r1, browser

MCApps == {browser}
MCAsked == {[enabled |-> TRUE, mode |-> "exclusive", selected |-> {}],
            [enabled |-> FALSE, mode |-> "INCLUSIVE", selected |-> {}]}
==================================================================================
