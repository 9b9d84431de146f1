------------------------------ MODULE ContentCrews ------------------------------
(***************************************************************************)
(* SellerContent with the handlers that are at work named: one of them, the*)
(* seller who does one thing after the other, or all of them at once.      *)
(***************************************************************************)
EXTENDS SellerContent

VARIABLE crew   \* the handlers that serve requests

Crews == {{w} : w \in Handlers} \cup {Handlers}

CrewInit == ContentInit /\ crew \in Crews

CrewNext ==
  /\ \/ \E w \in crew, s \in Stores :
          AskBanner(w, s) \/ AskTopic(w, s) \/ AskProfile(w, s) \/ AskLabels(w, s)
     \/ \E w \in crew : Write(w)
     \/ \E p \in Products : SoftDeleteProduct(p)
  /\ UNCHANGED crew

CrewSpec == CrewInit /\ [][CrewNext]_<<contentVars, crew>>

OneAtATime == \E w \in Handlers : crew = {w}

(* One request at a time: a banner's link has the column of its type, and  *)
(* no other, whatever fields its requests gave, left out or cleared.       *)
AloneLinkFollowsType == OneAtATime => LinkFollowsType

----------------------------------------------------------------------------
(* Invariants the proofs rest on.                                           *)

\* Exactly the column of its type.
Follows(link) == \A c \in Columns : link[c] # Null <=> ColumnOf[link.type] = c

\* What a request is about to write makes a link that follows its type, as long
\* as the banner is as it was found.
StillResolved(j) ==
  /\ j.pc = "write" /\ j.op = "create banner" => Follows(j.data)
  /\ j.pc = "write" /\ j.op = "update banner" =>
       Follows(ResolveNextBannerLinkValues(j.data, banner[j.row]))

CrewInv ==
  /\ HomeInv
  /\ crew \in Crews
  /\ \A w \in Handlers : crew = {w} =>
       /\ LinkFollowsType /\ StillResolved(task[w])
       /\ \A v \in Handlers \ {w} : task[v].pc = "idle"
=============================================================================
