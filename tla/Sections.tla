------------------------------ MODULE Sections ------------------------------
(***************************************************************************)
(* projects/sections.py: the state of each section, derived on every read  *)
(* from the current versions, their anchors and the latest gates.           *)
(*                                                                         *)
(* A version is the version its content comes from (itself when new), the  *)
(* versions of the earlier sections it is anchored to, and whether it lost *)
(* something that later sections hold on to: a brief the chosen team does  *)
(* not suit any more, a twin or a requirement that is gone.  Offers        *)
(* (UPDATE_AVAILABLE) hold nothing back and count as FINE; archetypes are  *)
(* unchanged; the design is the generated one.                             *)
(***************************************************************************)
EXTENDS GateFlow

CONSTANT Twins      \* the User Twins of the project

VARIABLES lines,    \* per section, its versions
          gateOf,    \* per section, its latest gate
          past,     \* per section, the supersession of that gate
          pending   \* per section, the proposed changes

Section == {"brief", "team", "twins", "requirements", "design"}

(* What a change is about: a section, or one of the twins.                 *)
Parts(k) == IF k = "twins" THEN Twins ELSE {k}

(* What a version of the section references. *)
Anchors ==
  [brief |-> {}, team |-> {"brief"}, twins |-> {"brief", "team"},
   requirements |-> {"brief", "team", "twins"},
   design |-> {"team", "twins", "requirements"}]

Cur(k) == Len(lines[k])

Current(k) == lines[k][Cur(k)]

Anchor(k, u) == Current(k).on[u]

(* gate_is_currently_approved *)
Approved(k) == gateOf[k].status = "APPROVED" /\ gateOf[k].artifact = Cur(k)

(* Something was lost between version v of section u and version w. *)
Lost(u, v, w) == \E i \in (v + 1)..w : lines[u][i].drops

(* The content of the current version of k was made for this version of u. *)
MadeFor(k, u) == lines[k][Current(k).origin].on[u]

(* Any revision of a twin that is proposed, on whatever snapshot; of the   *)
(* Definition and the Design only a change of the current version.         *)
RevisionPending(k) == \E change \in pending[k] : k = "twins" \/ change.base = Cur(k)

-----------------------------------------------------------------------------

(* The section that the ones before it are reached through. *)
Source == [team |-> "brief", twins |-> "team", requirements |-> "twins", design |-> "requirements"]

(* Mutant: only the reference to the source is renewed. *)
AnchoredToSource(k, v) == [Current(k).on EXCEPT ![Source[k]] = v]

(* The references a version of k gets from version v of its source: the    *)
(* Definition and the Design take over those of their source.              *)
AnchoredTo(k, v) ==
  [u \in Anchors[k] |->
     IF u = Source[k] THEN v
     ELSE IF k = "twins" THEN Cur(u)
     ELSE lines[Source[k]][v].on[u]]

(* What the content of a section holds on to: the team has to suit the     *)
(* brief, the Definition cites twins, the Design cites requirements.       *)
HoldsOn ==
  [brief |-> {}, team |-> {"brief"}, twins |-> {}, requirements |-> {"twins"},
   design |-> {"twins", "requirements"}]

(* The content can rest on these versions; the Design's set of twins has   *)
(* to be the same.                                                         *)
Fits(k, on) ==
  /\ \A u \in HoldsOn[k] : ~Lost(u, MadeFor(k, u), on[u])
  /\ k = "design" => ~Lost("twins", on["twins"], MadeFor(k, "twins"))

(* Mutant: a proposed change does not stand in the way. *)
ObstructedByContent(k) == ~Fits(k, AnchoredTo(k, Cur(Source[k])))

(* The obstacles to an update. *)
Obstructed(k) == ~Fits(k, AnchoredTo(k, Cur(Source[k]))) \/ RevisionPending(k)

Ready(upstream) ==
  \A section \in upstream : section.state # "IN_PROGRESS" /\ ~section.blocked

(* Mutant: whether it is behind is asked before whether it is approved. *)
DerivedUnapproved(k, behind, upstream) ==
  LET state == IF behind THEN "TO_UPDATE" ELSE IF ~Approved(k) THEN "IN_PROGRESS" ELSE "FINE"
  IN  [state |-> state,
       blocked |-> state = "TO_UPDATE" /\ (~Ready(upstream) \/ Obstructed(k))]

Derived(k, behind, upstream) ==
  LET state == IF ~Approved(k) THEN "IN_PROGRESS" ELSE IF behind THEN "TO_UPDATE" ELSE "FINE"
  IN  [state |-> state,
       blocked |-> state = "TO_UPDATE" /\ (~Ready(upstream) \/ Obstructed(k))]

Behind(section) == section.state = "TO_UPDATE"

Moved(k, u) == Anchor(k, u) # Cur(u)

BriefSection == Derived("brief", FALSE, {})

TeamSection == Derived("team", Moved("team", "brief"), {BriefSection})

TwinsSection ==
  Derived("twins",
          Moved("twins", "brief") \/ Moved("twins", "team") \/ Behind(TeamSection),
          {BriefSection, TeamSection})

RequirementsSection ==
  Derived("requirements",
          \/ \E u \in Anchors.requirements : Moved("requirements", u)
          \/ Behind(TeamSection)
          \/ Behind(TwinsSection),
          {BriefSection, TeamSection, TwinsSection})

(* Mutant: only the Definition it was made for is compared. *)
DesignSectionAlone ==
  Derived("design", Moved("design", "requirements"),
          {BriefSection, TeamSection, TwinsSection, RequirementsSection})

DesignSection ==
  Derived("design",
          \/ Moved("design", "requirements")
          \/ Behind(RequirementsSection)
          \/ \E u \in {"team", "twins"} : Anchor("design", u) # Anchor("requirements", u)
          \/ Moved("design", "twins"),
          {BriefSection, TeamSection, TwinsSection, RequirementsSection})

SectionOf ==
  [brief |-> BriefSection, team |-> TeamSection, twins |-> TwinsSection,
   requirements |-> RequirementsSection, design |-> DesignSection]

(* alignment.sections *)
ToAlign ==
  LET section == SectionOf
      IfBehind(k) == IF Behind(section[k]) THEN <<k>> ELSE <<>>
  IN  IfBehind("team") \o IfBehind("twins") \o IfBehind("requirements") \o IfBehind("design")
=============================================================================
