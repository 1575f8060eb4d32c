--------------------------- MODULE Organizations ---------------------------
(***************************************************************************)
(* Organizations, their members' roles and the handlers that change them:  *)
(* organizations.routes.ts behind requireRole and assertRole of rbac.ts.   *)
(* Each call is a handler other calls interleave with at every await.  An  *)
(* organization is named after the call that creates it, and all of them   *)
(* have the same display name, so that their slugs collide: slug n stands  *)
(* for the base slug with suffix n, 1 for none.                            *)
(*                                                                         *)
(* No route turns an invitation into a membership; Join is what the seed   *)
(* script and the tests do in the database instead.                        *)
(***************************************************************************)
EXTENDS Integers, FiniteSets

CONSTANTS
  Requests,  \* calls to the routes, each made at most once
  Users

ASSUME RequestAssumption == IsFiniteSet(Requests)

VARIABLES
  slug,     \* per organization its slug, 0 while it does not exist
  role,     \* per organization, the role of each user
  invited,  \* the calls whose Invitation row exists
  audited,  \* the calls whose AuditLog row exists
  req,      \* per request, the state of the handler that serves it
  applied   \* history: the calls whose write was committed

vars == <<slug, role, invited, audited, req, applied>>

Roles == {"VIEWER", "MEMBER", "ADMIN", "OWNER"}
ROLE_RANK == [VIEWER |-> 0, MEMBER |-> 1, ADMIN |-> 2, OWNER |-> 3]

Orgs == {o \in Requests : slug[o] > 0}
Taken(n) == \E o \in Orgs : slug[o] = n

InFlight == {"sent", "probing", "creating", "writing", "auditing"}

(* level is req.membership.role as requireRole read it; was is history,    *)
(* the role of the target that the write replaced.                         *)
RequestState ==
  [pc : InFlight \cup {"idle", "ok", "forbidden", "error", "lost"},
   kind : {"none", "create", "invite", "role"},
   user : Users \cup {"none"}, org : Requests \cup {"none"},
   target : Users \cup {"none"}, grant : Roles \cup {"none"},
   level : Roles \cup {"none"}, was : Roles \cup {"none"}, probe : Nat]

Unsent ==
  [pc |-> "idle", kind |-> "none", user |-> "none", org |-> "none",
   target |-> "none", grant |-> "none", level |-> "none", was |-> "none",
   probe |-> 0]

Init ==
  /\ slug = [o \in Requests |-> 0]
  /\ role = [o \in Requests |-> [u \in Users |-> "none"]]
  /\ invited = {}
  /\ audited = {}
  /\ req = [r \in Requests |-> Unsent]
  /\ applied = {}

----------------------------------------------------------------------------
(* The callers.                                                            *)

SendCreate(r, u) ==
  /\ req[r].pc = "idle"
  /\ req' = [req EXCEPT ![r] =
       [Unsent EXCEPT !.pc = "probing", !.kind = "create", !.user = u, !.probe = 1]]
  /\ UNCHANGED <<slug, role, invited, audited, applied>>

SendInvite(r, u, o, grant) ==
  /\ req[r].pc = "idle"
  /\ req' = [req EXCEPT ![r] =
       [Unsent EXCEPT !.pc = "sent", !.kind = "invite", !.user = u, !.org = o,
                      !.grant = grant]]
  /\ UNCHANGED <<slug, role, invited, audited, applied>>

SendRole(r, u, o, target, grant) ==
  /\ req[r].pc = "idle"
  /\ req' = [req EXCEPT ![r] =
       [Unsent EXCEPT !.pc = "sent", !.kind = "role", !.user = u, !.org = o,
                      !.target = target, !.grant = grant]]
  /\ UNCHANGED <<slug, role, invited, audited, applied>>

Join(o, u, as) ==
  /\ o \in Orgs
  /\ role[o][u] = "none"
  /\ role' = [role EXCEPT ![o][u] = as]
  /\ UNCHANGED <<slug, invited, audited, req, applied>>

----------------------------------------------------------------------------
(* Creating an organization.                                               *)

Goto(r, pc) == req' = [req EXCEPT ![r].pc = pc]

\* Mutant of NextProbe: a suffix that skips.
NextProbeSkips(n) == n + 2

NextProbe(n) == n + 1

(* One turn of the loop that looks for a free slug.                        *)
ProbeSlug(r) ==
  /\ req[r].pc = "probing"
  /\ IF Taken(req[r].probe) THEN req' = [req EXCEPT ![r].probe = NextProbe(@)]
                            ELSE Goto(r, "creating")
  /\ UNCHANGED <<slug, role, invited, audited, applied>>

\* Mutant of Founded: the creator as ADMIN.
FoundedAsAdmin(r) == [role EXCEPT ![r][req[r].user] = "ADMIN"]

Founded(r) == [role EXCEPT ![r][req[r].user] = "OWNER"]

(* The transaction inserts the organization and its owner, or neither: the *)
(* unique index on slug refuses one taken since the loop ended.            *)
CreateOrg(r) ==
  /\ req[r].pc = "creating"
  /\ \/ /\ Taken(req[r].probe)
        /\ Goto(r, "error")
        /\ UNCHANGED <<slug, role, applied>>
     \/ /\ ~Taken(req[r].probe)
        /\ slug' = [slug EXCEPT ![r] = req[r].probe]
        /\ role' = Founded(r)
        /\ applied' = applied \cup {r}
        /\ Goto(r, "auditing")
  /\ UNCHANGED <<invited, audited>>

----------------------------------------------------------------------------
(* Inviting and changing roles.                                            *)

AtLeast(as, min) == as # "none" /\ ROLE_RANK[as] >= ROLE_RANK[min]

\* Mutant of MayName: the test is dropped.
MayNameAnyone(level, grant) == TRUE

(* Only an OWNER may name another: both handlers test the role that        *)
(* requireRole read, before their first await.                             *)
MayName(level, grant) == grant = "OWNER" => level = "OWNER"

(* requireRole(ADMIN) and the test that follows it.                        *)
Authorize(r) ==
  LET level == role[req[r].org][req[r].user] IN
  /\ req[r].pc = "sent"
  /\ \/ /\ AtLeast(level, "ADMIN") /\ MayName(level, req[r].grant)
        /\ req' = [req EXCEPT ![r].pc = "writing", ![r].level = level]
     \/ /\ ~(AtLeast(level, "ADMIN") /\ MayName(level, req[r].grant))
        /\ Goto(r, "forbidden")
  /\ UNCHANGED <<slug, role, invited, audited, applied>>

WriteInvitation(r) ==
  /\ req[r].pc = "writing" /\ req[r].kind = "invite"
  /\ invited' = invited \cup {r}
  /\ applied' = applied \cup {r}
  /\ Goto(r, "auditing")
  /\ UNCHANGED <<slug, role, audited>>

(* The update fails if the target is not a member.                         *)
WriteRole(r) ==
  LET o == req[r].org
      u == req[r].target IN
  /\ req[r].pc = "writing" /\ req[r].kind = "role"
  /\ \/ /\ role[o][u] = "none"
        /\ Goto(r, "error")
        /\ UNCHANGED <<role, applied>>
     \/ /\ role[o][u] # "none"
        /\ role' = [role EXCEPT ![o][u] = req[r].grant]
        /\ applied' = applied \cup {r}
        /\ req' = [req EXCEPT ![r].pc = "auditing", ![r].was = role[o][u]]
  /\ UNCHANGED <<slug, invited, audited>>

\* Mutant of Auditable: the trail is written before the change.
AuditableEarly(r) == req[r].pc \in {"writing", "auditing"}

Auditable(r) == req[r].pc = "auditing"

(* audit never throws: the answer is the same when its insert fails.       *)
Audit(r) ==
  /\ Auditable(r)
  /\ audited' \in {audited, audited \cup {r}}
  /\ Goto(r, "ok")
  /\ UNCHANGED <<slug, role, invited, applied>>

Lose(r) ==
  /\ req[r].pc \in InFlight
  /\ Goto(r, "lost")
  /\ UNCHANGED <<slug, role, invited, audited, applied>>

Handle(r) ==
  \/ ProbeSlug(r) \/ CreateOrg(r)
  \/ Authorize(r) \/ WriteInvitation(r) \/ WriteRole(r)
  \/ Audit(r)

Call(r, u) ==
  \/ SendCreate(r, u)
  \/ \E o \in Orgs, grant \in Roles :
       \/ SendInvite(r, u, o, grant)
       \/ \E target \in Users : SendRole(r, u, o, target, grant)

Next ==
  \/ \E r \in Requests : Handle(r) \/ Lose(r) \/ \E u \in Users : Call(r, u)
  \/ \E o \in Requests, u \in Users, as \in Roles \ {"OWNER"} : Join(o, u, as)

Spec == Init /\ [][Next]_vars

----------------------------------------------------------------------------
(* Properties.                                                             *)

TypeOK ==
  /\ slug \in [Requests -> Nat]
  /\ role \in [Requests -> [Users -> Roles \cup {"none"}]]
  /\ invited \in SUBSET Requests
  /\ audited \in SUBSET Requests
  /\ req \in [Requests -> RequestState]
  /\ applied \in SUBSET Requests

(* Organizations of one name get the slugs 1 .. n, without a gap or a      *)
(* repetition, however their creations overlap and whichever fail.         *)
SlugsContiguous ==
  {slug[o] : o \in Orgs} = 1 .. Cardinality(Orgs)

Owned(o) == \E u \in Users : role[o][u] = "OWNER"

(* An organization has an owner from its creation, and until a role change *)
(* of one of its owners is committed.                                      *)
OwnedUntilDemotion ==
  \A o \in Orgs :
    \/ Owned(o)
    \/ \E r \in applied : req[r].org = o /\ req[r].was = "OWNER"

(* The authority of an owner exists nowhere: no owner, no invitation to be *)
(* one, no handler that read OWNER as its caller's role.                   *)
Ownerless(o) ==
  /\ ~Owned(o)
  /\ \A r \in invited : req[r].org = o => req[r].grant # "OWNER"
  /\ \A r \in Requests :
       req[r].org = o /\ req[r].pc = "writing" => req[r].level # "OWNER"

(* That authority cannot be made out of nothing: whatever admins do, an    *)
(* organization without it stays without it.                               *)
OwnershipNotForged ==
  [][\A o \in Orgs : Ownerless(o) => Ownerless(o)']_vars

(* The audit trail names no change that was refused, failed or was lost    *)
(* before it was made.                                                     *)
AuditTruthful == audited \subseteq applied

=============================================================================
