------------------------- MODULE MCMultipartUpload -------------------------
(***************************************************************************)
(* Small instances of multipart uploads: two tasks that upload one key, a  *)
(* file of one or three parts, and an upload of another tool.              *)
(***************************************************************************)
EXTENDS MultipartUpload

OursSymmetry == Permutations(Ours)

=============================================================================
