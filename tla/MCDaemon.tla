------------------------------ MODULE MCDaemon ------------------------------
(* Small instances of the daemon's life for TLC. *)
EXTENDS Daemon

CONSTANTS alice, bob

\* Every kind of signer, and a remote one of another account.
Signers == {[mode |-> m, pubkey |-> alice] : m \in {"local", "remote", "locked"}}
           \cup {[mode |-> "remote", pubkey |-> bob]}
=============================================================================
