------------------------- MODULE MCObjectMutations -------------------------
(***************************************************************************)
(* Small instances of object mutations: two folders with one object each,  *)
(* and a folder inside one of them.                                        *)
(***************************************************************************)
EXTENDS ObjectMutations

CONSTANTS d, e, s, x, y

MCChunk  == {d, e, s, x, y}
MCKey    == {<<d, x>>, <<e, x>>, <<d, s>>}
MCFolder == {d, e, s}
MCPrefix == {<<d>>, <<e>>, <<d, s>>}
MCRank   == <<d>> :> 0 @@ <<d, s>> :> 1 @@ <<e>> :> 2
MCLockId == Op \X (1..3)

Do(kind, keys) == [kind |-> kind, keys |-> keys]
MCExisting == {<<d, x>>, <<e, x>>}
MCJob ==
  {Do("copy", <<<<e, x>>, <<d, x>>>>), Do("move", <<<<d, x>>, <<e, x>>>>),
   Do("move", <<<<e, x>>, <<d, x>>>>), Do("folder", <<<<d, s>>>>),
   Do("write", <<<<d, x>>>>), Do("delete", <<<<d, x>>, <<e, x>>>>),
   Do("delete", <<<<e, x>>, <<d, x>>>>)}
MCPage == {[prefix |-> <<d>>, flat |-> FALSE]}

\* A rename within a folder.
MCRenameKey == MCKey \cup {<<d, y>>}
MCRename == {Do("move", <<<<d, x>>, <<d, y>>>>)}

\* One new object, and the flat listing.
MCCreate == {Do("folder", <<<<d, s>>>>)}
MCFlat == {[prefix |-> <<d>>, flat |-> TRUE]}

OpSymmetry == Permutations(Op)

=============================================================================
