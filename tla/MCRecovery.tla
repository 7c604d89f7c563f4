----------------------------- MODULE MCRecovery -----------------------------
(* Sessions with and without confirmed references, on a lane that knows its    *)
(* chain or not, over AMF (its force drops the other slot) and QSV.            *)
EXTENDS Recovery

Sessions == [floor : {TRUE}, ledger : BOOLEAN, keep : {FALSE}, drop : {FALSE}]
            \union [floor : {TRUE}, ledger : {FALSE}, keep : {TRUE}, drop : {TRUE}]
            \union [floor : {FALSE}, ledger : {TRUE}, keep : {FALSE}, drop : BOOLEAN]
Unconfirmed == [floor : {FALSE}, ledger : {FALSE}, keep : {FALSE}, drop : {FALSE}]
=============================================================================
