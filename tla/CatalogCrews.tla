------------------------------ MODULE CatalogCrews ------------------------------
(***************************************************************************)
(* ProductCatalog with the workers that are at work named: one of them, the*)
(* seller who does one thing after the other, or all of them at once.      *)
(* Checks and writes that are statements apart promise more to the first   *)
(* than to the others; what that is, is stated here.                       *)
(***************************************************************************)
EXTENDS ProductCatalog

VARIABLE crew   \* the workers that serve requests

Crews == {{w} : w \in Workers} \cup {Workers}

CrewInit == Init /\ crew \in Crews

CrewNext == (\E w \in crew : Handle(w)) /\ UNCHANGED crew

CrewSpec == CrewInit /\ [][CrewNext]_<<vars, crew>>

OneAtATime == \E w \in Workers : crew = {w}

----------------------------------------------------------------------------
(* Properties.                                                              *)

(* One request at a time: prices and ranges of choices are in order.       *)
AloneDataSane == OneAtATime => DataSane

(* One request at a time: the number of images stays within its limits.    *)
AloneImagesWithinLimits == OneAtATime => ImagesWithinLimits

(* One request at a time: a new order leaves no two rows in one place.     *)
AloneOrderSettles == [][OneAtATime => OrderSettles]_vars

----------------------------------------------------------------------------
(* Invariants the proofs rest on.                                           *)

\* Nobody but w has a request under way.
Aside(w) == \A v \in Workers \ {w} : job[v].pc = "idle"

\* What the checks of a request found still holds when it writes, as long as no
\* other request comes in between.
StillChecked(j) ==
  /\ j.pc = "write" /\ j.op = "create" => Sane(j.kind, j.data)
  /\ j.pc = "write" /\ j.op = "update" => Sane(j.kind, Merged(j.kind, data[j.row], j.data))
  /\ j.pc = "write" /\ j.op = "order" =>
       {j.seq[i] : i \in DOMAIN j.seq} = Siblings(j.kind, j.row)

AloneInv == CatalogInv /\ DataSane /\ \A w \in Workers : StillChecked(job[w])

\* Nor do the counts of images it was checked against change; a product just
\* created has no image yet.
StillCounted(j) ==
  /\ j.pc = "write" /\ j.op = "create" /\ j.kind = "image" =>
       owner[j.row] # None /\ Cardinality(Siblings("image", j.row)) < MAX_PRODUCT_IMAGES
  /\ j.pc = "write" /\ j.op = "delete" /\ j.row \in Ids["image"] =>
       Cardinality(Siblings("image", owner[j.row])) > MIN_PRODUCT_IMAGES
  /\ j.pc = "image" =>
       owner[j.row] # None /\ \A r \in Ids["image"] : owner[r] # j.row

\* No image is kept of a product that was never created.
NoOrphans == \A r \in Ids["image"] : owner[r] \in Rows => owner[owner[r]] # None

CountInv == NoOrphans /\ ImagesWithinLimits /\ \A w \in Workers : StillCounted(job[w])

CrewInv ==
  /\ CatalogInv
  /\ crew \in Crews
  /\ \A w \in Workers : crew = {w} => Aside(w) /\ AloneInv /\ CountInv
=============================================================================
