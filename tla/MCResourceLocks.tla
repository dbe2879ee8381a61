-------------------------- MODULE MCResourceLocks --------------------------
(***************************************************************************)
(* Small instances of the lock registry: one profile, nested prefixes, a   *)
(* key in and a key outside of each of them.                               *)
(***************************************************************************)
EXTENDS ResourceLocks

CONSTANTS a, b

MCChunk  == {a, b}
MCKey    == {<<a>>, <<a, b>>, <<b>>}
MCPrefix == {<<a>>, <<a, b>>}

=============================================================================
