--------------------------- MODULE MC_DocumentAcl ---------------------------
(* Small instances of DocumentAcl for TLC; values are in the .cfg files. *)
EXTENDS DocumentAcl, TLC

NoAdmin == {}
AdminShare == {<<"viewer", "bob">>}

\* Bound of the passing run: what requests share, and whom they revoke.
OnlyBobViews ==
    \A p \in Requests :
        req[p].pc = "idle" /\ req'[p].pc \in {"share", "revoke"}
            => req'[p].tuple = <<"viewer", "bob">>

MCSpec ==
    /\ Init /\ [][Next /\ OnlyBobViews]_vars
    /\ \A p \in Requests : WF_vars(Continue(p))
=============================================================================
