------------------------------ MODULE Listings ------------------------------
(***************************************************************************)
(* Folders and objects of one bucket, as the views of the browser list     *)
(* them: what is directly in a folder, in the order of the service.        *)
(***************************************************************************)
EXTENDS Integers, Sequences, FiniteSets, SequencesExt

CONSTANTS
  Folder,        \* the folders below the root
  Root,          \* the root of the bucket
  File,          \* the objects
  Within,        \* [Folder \cup File -> the folder it is in]
  OrderOf        \* [Folder \cup File -> its rank in a listing]

Entry == Folder \cup File
Place == Folder \cup {Root}

ASSUME ListingsAssumption ==
  /\ Within \in [Entry -> Place] /\ Root \notin Entry
  /\ IsFiniteSet(Entry) /\ Folder \cap File = {}
  /\ OrderOf \in [Entry -> Nat] /\ \A a, b \in Entry : OrderOf[a] = OrderOf[b] => a = b

\* A listing in the order of the service.
Listed(among) ==
  CHOOSE seq \in [1 .. Cardinality(among) -> among] :
    \A i, j \in DOMAIN seq : i < j => OrderOf[seq[i]] < OrderOf[seq[j]]

\* What useObjects answers for a folder.
Contents(place) == {e \in Entry : Within[e] = place}

\* What useFlatObjects answers: every object below the folder.
useFlatObjects(place) ==
  IF place = Root THEN File ELSE {f \in File : Within[f] = place}
=============================================================================
