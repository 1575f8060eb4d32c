-------------------------- MODULE OrganizationsProofs --------------------------
(***************************************************************************)
(* What holds of Organizations for any users and any finite number of      *)
(* calls.                                                                  *)
(***************************************************************************)
EXTENDS Organizations, FiniteSetTheorems, TLAPS

USE RequestAssumption

(* A call has written, or is past the point where it could.                *)
Past == {"auditing", "ok", "lost"}

(* What the handlers know at each of their steps: which fields a call has, *)
(* that slugs below the one it probes are taken and stay taken, and, past  *)
(* requireRole, that it may grant what it is about to grant.               *)
Sound(r) ==
  /\ r \in applied \cup invited \cup Orgs => req[r].pc \in Past
  /\ req[r].pc = "auditing" => r \in applied
  /\ req[r].pc \in {"probing", "creating"} =>
       /\ req[r].user \in Users /\ req[r].probe \in Nat \ {0}
       /\ \A n \in 1 .. req[r].probe - 1 : Taken(n)
  /\ req[r].pc \in {"sent", "writing"} =>
       /\ req[r].user \in Users /\ req[r].org \in Orgs /\ req[r].grant \in Roles
       /\ req[r].kind = "role" => req[r].target \in Users
  /\ req[r].pc = "writing" => MayName(req[r].level, req[r].grant)

OrgInv ==
  /\ TypeOK
  /\ \A r \in Requests : Sound(r)
  /\ AuditTruthful

LEMMA OrgsPersist ==
  ASSUME TypeOK, UNCHANGED slug
  PROVE  Orgs' = Orgs /\ \A n : Taken(n)' <=> Taken(n)
BY DEF Orgs, Taken

Places == InFlight \cup {"idle", "ok", "forbidden", "error", "lost"}

(* What a step that only moves on does.                                    *)
LEMMA Moves ==
  ASSUME TypeOK, NEW r \in Requests, NEW pc \in Places, Goto(r, pc)
  PROVE  /\ req' = [req EXCEPT ![r] = [req[r] EXCEPT !.pc = pc]]
         /\ [req[r] EXCEPT !.pc = pc] \in RequestState
         /\ req' \in [Requests -> RequestState]
         /\ req'[r] = [req[r] EXCEPT !.pc = pc] /\ req'[r].pc = pc
         /\ \A q \in Requests \ {r} : req'[q] = req[q]
<1>1. req \in [Requests -> RequestState] /\ req[r] \in RequestState
  BY DEF TypeOK
<1>2. [req[r] EXCEPT !.pc = pc] \in RequestState /\ [req[r] EXCEPT !.pc = pc].pc = pc
  BY <1>1 DEF RequestState, Places
<1>3. req' = [req EXCEPT ![r] = [req[r] EXCEPT !.pc = pc]]
  BY <1>1 DEF Goto
<1> QED
  BY <1>1, <1>2, <1>3

(* A step that writes nothing and moves only r to a sound state.           *)
LEMMA OnlyCall ==
  ASSUME OrgInv, NEW r \in Requests, NEW state \in RequestState,
         req' = [req EXCEPT ![r] = state],
         UNCHANGED <<slug, role, invited, audited, applied>>,
         Sound(r)'
  PROVE  OrgInv'
<1>1. TypeOK'
  BY DEF OrgInv, TypeOK
<1>2. ASSUME NEW q \in Requests \ {r} PROVE Sound(q)'
  <2>1. req'[q] = req[q]
    BY DEF OrgInv, TypeOK
  <2>2. Sound(q) /\ TypeOK
    BY DEF OrgInv
  <2> QED
    BY <2>1, <2>2, OrgsPersist DEF Sound
<1> QED
  BY <1>1, <1>2 DEF OrgInv, AuditTruthful

LEMMA CallKeeps ==
  ASSUME OrgInv, NEW r \in Requests, NEW u \in Users, Call(r, u)
  PROVE  OrgInv'
<1>1. TypeOK /\ Sound(r) /\ req[r].pc = "idle" /\ Orgs' = Orgs
  BY OrgsPersist DEF OrgInv, Call, SendCreate, SendInvite, SendRole
<1>2. r \notin applied \cup invited \cup Orgs
  BY <1>1 DEF Sound, Past
<1>3. CASE SendCreate(r, u)
  <2> DEFINE state == [Unsent EXCEPT !.pc = "probing", !.kind = "create", !.user = u, !.probe = 1]
  <2>1. state \in RequestState
    BY DEF RequestState, Unsent, InFlight
  <2>2. req' = [req EXCEPT ![r] = state] /\ UNCHANGED <<slug, role, invited, audited, applied>>
    BY <1>3 DEF SendCreate
  <2>3. /\ req'[r].pc = "probing" /\ req'[r].user = u /\ req'[r].probe = 1
    BY <1>1, <2>2 DEF TypeOK, Unsent
  <2>4. Sound(r)'
    BY <1>1, <1>2, <2>2, <2>3 DEF Sound
  <2> QED
    BY <2>1, <2>2, <2>4, OnlyCall
<1>4. ASSUME NEW o \in Orgs, NEW grant \in Roles, SendInvite(r, u, o, grant)
      PROVE  OrgInv'
  <2> DEFINE state == [Unsent EXCEPT !.pc = "sent", !.kind = "invite", !.user = u,
                                     !.org = o, !.grant = grant]
  <2>1. state \in RequestState
    BY DEF RequestState, Unsent, InFlight, Orgs
  <2>2. req' = [req EXCEPT ![r] = state] /\ UNCHANGED <<slug, role, invited, audited, applied>>
    BY <1>4 DEF SendInvite
  <2>3. /\ req'[r].pc = "sent" /\ req'[r].user = u /\ req'[r].org = o /\ req'[r].grant = grant
        /\ req'[r].kind = "invite"
    BY <1>1, <2>2 DEF TypeOK, Unsent
  <2>4. Sound(r)'
    BY <1>1, <1>2, <2>2, <2>3 DEF Sound
  <2> QED
    BY <2>1, <2>2, <2>4, OnlyCall
<1>5. ASSUME NEW o \in Orgs, NEW grant \in Roles, NEW target \in Users,
             SendRole(r, u, o, target, grant)
      PROVE  OrgInv'
  <2> DEFINE state == [Unsent EXCEPT !.pc = "sent", !.kind = "role", !.user = u,
                                     !.org = o, !.target = target, !.grant = grant]
  <2>1. state \in RequestState
    BY DEF RequestState, Unsent, InFlight, Orgs
  <2>2. req' = [req EXCEPT ![r] = state] /\ UNCHANGED <<slug, role, invited, audited, applied>>
    BY <1>5 DEF SendRole
  <2>3. /\ req'[r].pc = "sent" /\ req'[r].user = u /\ req'[r].org = o /\ req'[r].grant = grant
        /\ req'[r].target = target
    BY <1>1, <2>2 DEF TypeOK, Unsent
  <2>4. Sound(r)'
    BY <1>1, <1>2, <2>2, <2>3 DEF Sound
  <2> QED
    BY <2>1, <2>2, <2>4, OnlyCall
<1> QED
  BY <1>3, <1>4, <1>5 DEF Call

(* A call that only moves on, to a place where nothing is asked of it.     *)
LEMMA GotoKeeps ==
  ASSUME OrgInv, NEW r \in Requests, NEW pc \in {"ok", "forbidden", "error", "lost"},
         Goto(r, pc), pc \in Past \/ req[r].pc \notin Past,
         UNCHANGED <<slug, role, invited, audited, applied>>
  PROVE  OrgInv'
<1> DEFINE state == [req[r] EXCEPT !.pc = pc]
<1>1. TypeOK /\ Sound(r)
  BY DEF OrgInv
<1>2. state \in RequestState /\ req' = [req EXCEPT ![r] = state] /\ req'[r].pc = pc
  BY <1>1, Moves DEF Places
<1>3. Sound(r)'
  BY <1>1, <1>2, OrgsPersist DEF Sound, Past
<1> QED
  BY <1>2, <1>3, OnlyCall

LEMMA ProbeSlugKeeps ==
  ASSUME OrgInv, NEW r \in Requests, ProbeSlug(r) PROVE OrgInv'
<1>1. TypeOK /\ Sound(r) /\ req[r].pc = "probing" /\ UNCHANGED <<slug, role, invited, audited, applied>>
  BY DEF OrgInv, ProbeSlug
<1>2. /\ req[r].user \in Users /\ req[r].probe \in Nat \ {0}
      /\ \A n \in 1 .. req[r].probe - 1 : Taken(n)
  BY <1>1 DEF Sound
<1>3. CASE Taken(req[r].probe)
  <2> DEFINE state == [req[r] EXCEPT !.probe = req[r].probe + 1]
  <2>0. req \in [Requests -> RequestState] /\ req[r] \in RequestState
    BY <1>1 DEF TypeOK
  <2>1. state \in RequestState /\ req' = [req EXCEPT ![r] = state]
    <3>1. state \in RequestState
      BY <1>2, <2>0 DEF RequestState
    <3>2. req' = [req EXCEPT ![r] = state]
      BY <1>3, <2>0 DEF ProbeSlug, NextProbe
    <3> QED
      BY <3>1, <3>2
  <2>2. /\ req'[r].pc = "probing" /\ req'[r].user = req[r].user
        /\ req'[r].probe = req[r].probe + 1
    BY <1>1, <2>1 DEF TypeOK, RequestState
  <2>3. \A n \in 1 .. req'[r].probe - 1 : Taken(n)
    BY <1>2, <1>3, <2>2
  <2>4. Sound(r)'
    BY <1>1, <1>2, <2>2, <2>3, OrgsPersist DEF Sound, Past
  <2> QED
    BY <1>1, <2>1, <2>4, OnlyCall
<1>4. CASE ~Taken(req[r].probe)
  <2> DEFINE state == [req[r] EXCEPT !.pc = "creating"]
  <2>1. state \in RequestState /\ req' = [req EXCEPT ![r] = state]
    BY <1>1, <1>4, Moves DEF ProbeSlug, InFlight, Places
  <2>2. /\ req'[r].pc = "creating" /\ req'[r].user = req[r].user
        /\ req'[r].probe = req[r].probe
    BY <1>1, <2>1 DEF TypeOK, RequestState
  <2>3. Sound(r)'
    BY <1>1, <1>2, <2>2, OrgsPersist DEF Sound, Past
  <2> QED
    BY <1>1, <2>1, <2>3, OnlyCall
<1> QED
  BY <1>3, <1>4

(* What the transaction that creates an organization does when it commits. *)
LEMMA Creates ==
  ASSUME OrgInv, NEW r \in Requests, req[r].pc = "creating",
         slug' = [slug EXCEPT ![r] = req[r].probe]
  PROVE  /\ r \notin Orgs /\ Orgs' = Orgs \cup {r} /\ slug'[r] = req[r].probe
         /\ \A o \in Orgs : slug'[o] = slug[o]
         /\ \A n : Taken(n) => Taken(n)'
<1>1. TypeOK /\ Sound(r)
  BY DEF OrgInv
<1>2. r \notin Orgs /\ req[r].probe \in Nat \ {0}
  BY <1>1 DEF Sound, Past
<1>3. slug'[r] = req[r].probe /\ \A o \in Requests \ {r} : slug'[o] = slug[o]
  BY <1>1 DEF TypeOK
<1>4. Orgs' = Orgs \cup {r}
  BY <1>2, <1>3 DEF Orgs
<1>5. \A o \in Orgs : slug'[o] = slug[o]
  BY <1>2, <1>3 DEF Orgs
<1> QED
  BY <1>2, <1>3, <1>4, <1>5 DEF Taken

LEMMA CreateOrgKeeps ==
  ASSUME OrgInv, NEW r \in Requests, CreateOrg(r) PROVE OrgInv'
<1>1. TypeOK /\ Sound(r) /\ req[r].pc = "creating"
  BY DEF OrgInv, CreateOrg
<1>2. req[r].user \in Users /\ req[r].probe \in Nat \ {0}
  BY <1>1 DEF Sound
<1>3. CASE Goto(r, "error") /\ UNCHANGED <<slug, role, applied, invited, audited>>
  BY <1>1, <1>3, GotoKeeps DEF Past
<1>4. CASE /\ slug' = [slug EXCEPT ![r] = req[r].probe]
           /\ role' = Founded(r)
           /\ applied' = applied \cup {r}
           /\ Goto(r, "auditing")
           /\ UNCHANGED <<invited, audited>>
  <2>1. /\ req' \in [Requests -> RequestState] /\ req'[r].pc = "auditing"
        /\ \A q \in Requests \ {r} : req'[q] = req[q]
    BY <1>1, <1>4, Moves DEF InFlight, Places
  <2>2. role' \in [Requests -> [Users -> Roles \cup {"none"}]]
    BY <1>1, <1>2, <1>4 DEF TypeOK, Founded, Roles
  <2>3. TypeOK'
    BY <1>1, <1>2, <1>4, <2>1, <2>2 DEF TypeOK
  <2>4. Sound(r)'
    BY <1>4, <2>1 DEF Sound, Past
  <2>5. ASSUME NEW q \in Requests \ {r} PROVE Sound(q)'
    <3>1. Sound(q)
      BY DEF OrgInv
    <3>2. req'[q] = req[q] /\ Orgs' = Orgs \cup {r} /\ \A n : Taken(n) => Taken(n)'
      BY <1>1, <1>4, <2>1, Creates
    <3> QED
      BY <1>4, <3>1, <3>2 DEF Sound
  <2> QED
    BY <1>4, <2>3, <2>4, <2>5 DEF OrgInv, AuditTruthful
<1> QED
  BY <1>3, <1>4 DEF CreateOrg

LEMMA AuthorizeKeeps ==
  ASSUME OrgInv, NEW r \in Requests, Authorize(r) PROVE OrgInv'
<1> DEFINE level == role[req[r].org][req[r].user]
<1>1. TypeOK /\ Sound(r) /\ req[r].pc = "sent" /\ UNCHANGED <<slug, role, invited, audited, applied>>
  BY DEF OrgInv, Authorize
<1>2. CASE AtLeast(level, "ADMIN") /\ MayName(level, req[r].grant)
           /\ req' = [req EXCEPT ![r].pc = "writing", ![r].level = level]
  <2> DEFINE state == [req[r] EXCEPT !.pc = "writing", !.level = level]
  <2>0. level \in Roles \cup {"none"}
    BY <1>1 DEF Sound, TypeOK, Orgs
  <2>1. state \in RequestState /\ req' = [req EXCEPT ![r] = state]
    BY <1>1, <1>2, <2>0 DEF TypeOK, RequestState, InFlight
  <2>2. /\ req'[r].pc = "writing" /\ req'[r].level = level
        /\ req'[r].user = req[r].user /\ req'[r].org = req[r].org
        /\ req'[r].grant = req[r].grant /\ req'[r].kind = req[r].kind
        /\ req'[r].target = req[r].target
    BY <1>1, <2>1 DEF TypeOK, RequestState
  <2>3. Sound(r)'
    <3> HIDE DEF level, state
    <3> QED BY <1>1, <1>2, <2>2, OrgsPersist DEF Sound, Past, MayName
  <2> QED
    BY <1>1, <2>1, <2>3, OnlyCall
<1>3. CASE Goto(r, "forbidden")
  BY <1>1, <1>3, GotoKeeps DEF Past
<1> QED
  BY <1>2, <1>3 DEF Authorize

(* A write that leaves the organizations as they are.                      *)
LEMMA WriteKeeps ==
  ASSUME OrgInv, NEW r \in Requests, NEW state \in RequestState,
         req[r].pc = "writing",
         req' = [req EXCEPT ![r] = state], state.pc = "auditing",
         role' \in [Requests -> [Users -> Roles \cup {"none"}]],
         invited' \in {invited, invited \cup {r}}, applied' = applied \cup {r},
         UNCHANGED <<slug, audited>>
  PROVE  OrgInv'
<1>1. TypeOK'
  BY DEF OrgInv, TypeOK
<1>2. Sound(r)'
  BY DEF Sound, Past, OrgInv, TypeOK
<1>3. ASSUME NEW q \in Requests \ {r} PROVE Sound(q)'
  <2>1. Sound(q) /\ TypeOK /\ req'[q] = req[q]
    BY DEF OrgInv, TypeOK
  <2> QED
    BY <2>1, OrgsPersist DEF Sound
<1> QED
  BY <1>1, <1>2, <1>3 DEF OrgInv, AuditTruthful

LEMMA WriteInvitationKeeps ==
  ASSUME OrgInv, NEW r \in Requests, WriteInvitation(r) PROVE OrgInv'
<1> DEFINE state == [req[r] EXCEPT !.pc = "auditing"]
<1>1. TypeOK /\ req[r].pc = "writing"
  BY DEF OrgInv, WriteInvitation
<1>2. state \in RequestState /\ req' = [req EXCEPT ![r] = state] /\ state.pc = "auditing"
  BY <1>1 DEF TypeOK, RequestState, WriteInvitation, Goto, InFlight
<1> QED
  BY <1>1, <1>2, WriteKeeps DEF WriteInvitation, TypeOK

LEMMA WriteRoleKeeps ==
  ASSUME OrgInv, NEW r \in Requests, WriteRole(r) PROVE OrgInv'
<1> DEFINE o == req[r].org  u == req[r].target
<1>1. TypeOK /\ Sound(r) /\ req[r].pc = "writing" /\ req[r].kind = "role"
      /\ UNCHANGED <<slug, invited, audited>>
  BY DEF OrgInv, WriteRole
<1>2. o \in Requests /\ u \in Users /\ req[r].grant \in Roles
  BY <1>1 DEF Sound, Orgs
<1>3. CASE Goto(r, "error") /\ UNCHANGED <<role, applied>>
  BY <1>1, <1>3, GotoKeeps DEF Past
<1>4. CASE /\ role' = [role EXCEPT ![o][u] = req[r].grant]
           /\ applied' = applied \cup {r}
           /\ req' = [req EXCEPT ![r].pc = "auditing", ![r].was = role[o][u]]
  <2> DEFINE state == [req[r] EXCEPT !.pc = "auditing", !.was = role[o][u]]
  <2>0. /\ req \in [Requests -> RequestState] /\ req[r] \in RequestState
        /\ role[o][u] \in Roles \cup {"none"}
    BY <1>1, <1>2 DEF TypeOK
  <2>1. state \in RequestState /\ req' = [req EXCEPT ![r] = state] /\ state.pc = "auditing"
    <3>1. state \in RequestState /\ state.pc = "auditing"
      BY <2>0 DEF RequestState, InFlight
    <3>2. req' = [req EXCEPT ![r] = state]
      BY <1>4, <2>0
    <3> QED
      BY <3>1, <3>2
  <2>2. role' \in [Requests -> [Users -> Roles \cup {"none"}]]
    BY <1>1, <1>2, <1>4 DEF TypeOK
  <2> QED
    BY <1>1, <1>4, <2>1, <2>2, WriteKeeps
<1> QED
  BY <1>3, <1>4 DEF WriteRole

LEMMA AuditKeeps ==
  ASSUME OrgInv, NEW r \in Requests, Audit(r) PROVE OrgInv'
<1>1. /\ TypeOK /\ Sound(r) /\ req[r].pc = "auditing"
      /\ audited' \in {audited, audited \cup {r}} /\ Goto(r, "ok")
      /\ UNCHANGED <<slug, role, invited, applied>>
  BY DEF OrgInv, Audit, Auditable
<1>2. /\ req' \in [Requests -> RequestState] /\ req'[r].pc = "ok"
      /\ \A q \in Requests \ {r} : req'[q] = req[q]
  BY <1>1, Moves DEF Places
<1>3. TypeOK' /\ AuditTruthful'
  BY <1>1, <1>2 DEF OrgInv, TypeOK, AuditTruthful, Sound
<1>4. Sound(r)'
  BY <1>2 DEF Sound, Past
<1>5. ASSUME NEW q \in Requests \ {r} PROVE Sound(q)'
  BY <1>1, <1>2, OrgsPersist DEF Sound, OrgInv
<1> QED
  BY <1>3, <1>4, <1>5 DEF OrgInv

LEMMA JoinKeeps ==
  ASSUME OrgInv, NEW o \in Requests, NEW u \in Users, NEW as \in Roles, Join(o, u, as)
  PROVE  OrgInv'
<1>1. TypeOK'
  BY DEF OrgInv, TypeOK, Join
<1>2. ASSUME NEW q \in Requests PROVE Sound(q)'
  BY OrgsPersist DEF Sound, OrgInv, Join
<1> QED
  BY <1>1, <1>2 DEF OrgInv, AuditTruthful, Join

LEMMA InitOrg == Init => OrgInv
BY DEF Init, OrgInv, TypeOK, RequestState, Unsent, Sound, Orgs, AuditTruthful, InFlight

LEMMA NextOrg == OrgInv /\ [Next]_vars => OrgInv'
<1> SUFFICES ASSUME OrgInv, [Next]_vars PROVE OrgInv'
  OBVIOUS
<1>1. ASSUME NEW r \in Requests, Handle(r) PROVE OrgInv'
  BY <1>1, ProbeSlugKeeps, CreateOrgKeeps, AuthorizeKeeps, WriteInvitationKeeps,
     WriteRoleKeeps, AuditKeeps DEF Handle
<1>2. ASSUME NEW r \in Requests, Lose(r) PROVE OrgInv'
  BY <1>2, GotoKeeps DEF Lose, Past
<1>3. ASSUME NEW r \in Requests, NEW u \in Users, Call(r, u) PROVE OrgInv'
  BY <1>3, CallKeeps
<1>4. ASSUME NEW o \in Requests, NEW u \in Users, NEW as \in Roles \ {"OWNER"}, Join(o, u, as)
      PROVE  OrgInv'
  BY <1>4, JoinKeeps
<1>5. CASE UNCHANGED vars
  BY <1>5 DEF vars, OrgInv, TypeOK, Sound, Orgs, Taken, AuditTruthful
<1> QED
  BY <1>1, <1>2, <1>3, <1>4, <1>5 DEF Next

(* Type correctness.                                                       *)
THEOREM TypeCorrect == Spec => []TypeOK
<1>1. OrgInv => TypeOK
  BY DEF OrgInv
<1> QED
  BY <1>1, InitOrg, NextOrg, PTL DEF Spec

(* The audit trail names only changes that were committed.                 *)
THEOREM TrailIsTrue == Spec => []AuditTruthful
<1>1. OrgInv => AuditTruthful
  BY DEF OrgInv
<1> QED
  BY <1>1, InitOrg, NextOrg, PTL DEF Spec

----------------------------------------------------------------------------
(* Slugs.  A probe that is free has all smaller ones taken.                *)

LEMMA OrgsOnlyGrow ==
  ASSUME OrgInv, [Next]_vars
  PROVE  \/ UNCHANGED slug
         \/ \E r \in Requests : CreateOrg(r) /\ slug' = [slug EXCEPT ![r] = req[r].probe]
                                /\ ~Taken(req[r].probe) /\ role' = Founded(r)
                                /\ invited' = invited /\ Goto(r, "auditing")
                                /\ applied' = applied \cup {r}
BY DEF Next, Handle, ProbeSlug, CreateOrg, Authorize, WriteInvitation, WriteRole, Audit,
       Lose, Call, SendCreate, SendInvite, SendRole, Join, vars

LEMMA SlugsStay == ASSUME OrgInv, SlugsContiguous, [Next]_vars PROVE SlugsContiguous'
<1>1. CASE UNCHANGED slug
  BY <1>1 DEF SlugsContiguous, Orgs
<1>2. ASSUME NEW r \in Requests, CreateOrg(r), slug' = [slug EXCEPT ![r] = req[r].probe],
             ~Taken(req[r].probe)
      PROVE  SlugsContiguous'
  <2> DEFINE probe == req[r].probe  size == Cardinality(Orgs)
  <2>1. req[r].pc = "creating" /\ Sound(r)
    BY <1>2 DEF CreateOrg, OrgInv
  <2>2. probe \in Nat \ {0} /\ \A n \in 1 .. probe - 1 : Taken(n)
    BY <2>1 DEF Sound
  <2>3. IsFiniteSet(Orgs)
    BY FS_Subset DEF Orgs
  <2>4. size \in Nat
    BY <2>3, FS_CardinalityType
  <2>5. /\ r \notin Orgs /\ Orgs' = Orgs \cup {r} /\ slug'[r] = probe
        /\ \A o \in Orgs : slug'[o] = slug[o]
    BY <1>2, <2>1, Creates
  <2>6. Cardinality(Orgs') = size + 1
    BY <2>3, <2>5, FS_AddElement
  <2>7. \A n : Taken(n) <=> n \in 1 .. size
    BY DEF SlugsContiguous, Taken
  <2>8. probe = size + 1
    <3> HIDE DEF probe, size
    <3>1. probe \notin 1 .. size
      BY <1>2, <2>7 DEF probe
    <3>2. size \in 0 .. probe - 1 \/ probe - 1 = size
      BY <2>2, <2>4, <3>1
    <3>3. CASE probe - 1 > size
      <4>1. probe - 1 \in 1 .. probe - 1
        BY <2>2, <2>4, <3>3
      <4> QED
        BY <2>2, <2>4, <2>7, <3>3, <4>1
    <3> QED
      BY <2>2, <2>4, <3>2, <3>3
  <2>9. {slug'[o] : o \in Orgs'} = {slug[o] : o \in Orgs} \cup {probe}
    BY <2>5
  <2>10. {slug'[o] : o \in Orgs'} = 1 .. size + 1
    <3> HIDE DEF probe, size
    <3>1. {slug[o] : o \in Orgs} = 1 .. size
      BY DEF SlugsContiguous, size
    <3>2. 1 .. size + 1 = (1 .. size) \cup {size + 1}
      BY <2>4
    <3>3. {slug'[o] : o \in Orgs'} = (1 .. size) \cup {size + 1}
      BY <2>8, <2>9, <3>1, Zenon
    <3> QED
      BY <3>2, <3>3, Zenon
  <2> QED
    BY <2>6, <2>10 DEF SlugsContiguous
<1> QED
  BY <1>1, <1>2, OrgsOnlyGrow

(* Organizations of one name have the slugs 1 .. n.                        *)
THEOREM SlugsInOrder == Spec => []SlugsContiguous
<1>1. Init => SlugsContiguous
  <2> SUFFICES ASSUME Init PROVE SlugsContiguous
    OBVIOUS
  <2>1. Orgs = {}
    BY DEF Init, Orgs
  <2> QED
    BY <2>1, FS_EmptySet DEF SlugsContiguous
<1> QED
  BY <1>1, InitOrg, NextOrg, SlugsStay, PTL DEF Spec

----------------------------------------------------------------------------
(* Owners.  Calls that have written keep what they wrote.                  *)

LEMMA PastKept ==
  ASSUME OrgInv, NEW r \in applied \cup invited, [Next]_vars
  PROVE  /\ r \in applied => r \in applied'
         /\ req'[r].org = req[r].org /\ req'[r].was = req[r].was /\ req'[r].grant = req[r].grant
<1>1. r \in Requests /\ req[r].pc \in Past /\ req \in [Requests -> RequestState]
  BY DEF OrgInv, TypeOK, Sound
<1>2. req[r].pc \notin {"idle", "probing", "creating", "sent", "writing"}
  BY <1>1 DEF Past
<1>3. ASSUME NEW q \in Requests, NEW pc, Goto(q, pc)
      PROVE  req'[r].org = req[r].org /\ req'[r].was = req[r].was /\ req'[r].grant = req[r].grant
  BY <1>1, <1>3 DEF Goto, RequestState
<1>4. ASSUME NEW q \in Requests \ {r}, \A p \in Requests \ {q} : req'[p] = req[p]
      PROVE  req'[r] = req[r]
  BY <1>1, <1>4
<1>5. ASSUME NEW q \in Requests, Handle(q) \/ Lose(q)
      PROVE  \/ UNCHANGED req \/ \E pc : Goto(q, pc)
             \/ q # r /\ \A p \in Requests \ {q} : req'[p] = req[p]
  BY <1>1, <1>2, <1>5 DEF Handle, ProbeSlug, CreateOrg, Authorize, WriteInvitation, WriteRole,
     Audit, Lose
<1>6. ASSUME NEW q \in Requests, NEW u \in Users, Call(q, u)
      PROVE  q # r /\ \A p \in Requests \ {q} : req'[p] = req[p]
  BY <1>1, <1>2, <1>6 DEF Call, SendCreate, SendInvite, SendRole
<1>7. applied \subseteq applied'
  BY DEF Next, Handle, ProbeSlug, CreateOrg, Authorize, WriteInvitation, WriteRole, Audit,
         Lose, Call, SendCreate, SendInvite, SendRole, Join, vars
<1>8. CASE Next
  BY <1>3, <1>4, <1>5, <1>6, <1>7, <1>8 DEF Next, Join
<1>9. CASE UNCHANGED vars
  BY <1>7, <1>9 DEF vars
<1> QED
  BY <1>8, <1>9

(* A step that takes ownership from a user is the role change of an owner. *)
LEMMA OwnersStay ==
  ASSUME OrgInv, [Next]_vars, NEW o \in Orgs, NEW u \in Users,
         role[o][u] = "OWNER", role'[o][u] # "OWNER"
  PROVE  \E r \in Requests : r \in applied' /\ req'[r].org = o /\ req'[r].was = "OWNER"
<1>1. TypeOK /\ o \in Requests
  BY DEF OrgInv, Orgs
<1>2. PICK r \in Requests : WriteRole(r) /\ role[req[r].org][req[r].target] # "none"
                            /\ role' = [role EXCEPT ![req[r].org][req[r].target] = req[r].grant]
                            /\ applied' = applied \cup {r}
                            /\ req' = [req EXCEPT ![r].pc = "auditing",
                                         ![r].was = role[req[r].org][req[r].target]]
  <2>1. ASSUME NEW r \in Requests, CreateOrg(r) PROVE role'[o][u] = role[o][u]
    <3>1. r \notin Orgs
      BY <2>1 DEF CreateOrg, OrgInv, Sound, Past
    <3> QED
      BY <1>1, <2>1, <3>1 DEF CreateOrg, Founded, TypeOK
  <2>2. ASSUME NEW p \in Requests, NEW v \in Users, NEW as \in Roles, Join(p, v, as)
        PROVE  role'[o][u] = role[o][u]
    BY <1>1, <2>2 DEF Join, TypeOK
  <2> QED
    BY <2>1, <2>2 DEF Next, Handle, ProbeSlug, Authorize, WriteInvitation, WriteRole, Audit,
       Lose, Call, SendCreate, SendInvite, SendRole, vars
<1>3. Sound(r) /\ req[r].pc = "writing" /\ req[r].kind = "role"
  BY <1>2 DEF WriteRole, OrgInv
<1>4. req[r].org \in Requests /\ req[r].target \in Users
  BY <1>3 DEF Sound, Orgs
<1>5. req[r].org = o /\ req[r].target = u
  BY <1>1, <1>2, <1>4 DEF TypeOK
<1>6. req'[r].org = o /\ req'[r].was = "OWNER"
  BY <1>1, <1>2, <1>5 DEF TypeOK, RequestState
<1> QED
  BY <1>2, <1>6

LEMMA OwnedStays == ASSUME OrgInv, OwnedUntilDemotion, [Next]_vars PROVE OwnedUntilDemotion'
<1> SUFFICES ASSUME NEW o \in Orgs'
             PROVE  Owned(o)' \/ \E r \in applied' : req'[r].org = o /\ req'[r].was = "OWNER"
  BY DEF OwnedUntilDemotion
<1>1. CASE o \in Orgs
  <2>1. CASE Owned(o)
    BY <1>1, <2>1, OwnersStay DEF Owned
  <2>2. CASE \E r \in applied : req[r].org = o /\ req[r].was = "OWNER"
    BY <2>2, PastKept
  <2> QED
    BY <1>1, <2>1, <2>2 DEF OwnedUntilDemotion
<1>2. CASE o \notin Orgs
  <2>1. PICK r \in Requests : CreateOrg(r) /\ slug' = [slug EXCEPT ![r] = req[r].probe]
                              /\ role' = Founded(r)
    BY <1>2, OrgsOnlyGrow DEF Orgs
  <2>2. r = o
    BY <1>2, <2>1, Creates DEF CreateOrg
  <2>3. req[r].user \in Users /\ TypeOK
    BY <2>1 DEF CreateOrg, OrgInv, Sound
  <2>4. role'[o][req[r].user] = "OWNER"
    BY <2>1, <2>2, <2>3 DEF Founded, TypeOK
  <2> QED
    BY <2>3, <2>4 DEF Owned
<1> QED
  BY <1>1, <1>2

(* No organization loses its last owner but by a committed role change.    *)
THEOREM OwnersRemain == Spec => []OwnedUntilDemotion
<1>1. Init => OwnedUntilDemotion
  BY DEF Init, OwnedUntilDemotion, Orgs
<1> QED
  BY <1>1, InitOrg, NextOrg, OwnedStays, PTL DEF Spec

----------------------------------------------------------------------------
(* The authority of an owner is passed on by owners only.                  *)

(* A role, an invitation or a handler's authority that a step makes.       *)
LEMMA NoForgery ==
  ASSUME OrgInv, [Next]_vars, NEW o \in Orgs, Ownerless(o) PROVE Ownerless(o)'
<1>1. TypeOK /\ o \in Requests /\ req \in [Requests -> RequestState]
  BY DEF OrgInv, Orgs, TypeOK
<1>2. ASSUME NEW u \in Users PROVE role'[o][u] # "OWNER"
  <2>1. role[o][u] # "OWNER"
    BY DEF Ownerless, Owned
  <2>2. ASSUME NEW r \in Requests, CreateOrg(r) PROVE role'[o][u] = role[o][u]
    <3>1. r \notin Orgs
      BY <2>2 DEF CreateOrg, OrgInv, Sound, Past
    <3> QED
      BY <1>1, <2>2, <3>1 DEF CreateOrg, Founded, TypeOK
  <2>3. ASSUME NEW r \in Requests, WriteRole(r) PROVE role'[o][u] # "OWNER"
    <3>1. Sound(r) /\ req[r].pc = "writing"
      BY <2>3 DEF WriteRole, OrgInv
    <3>2. req[r].org = o => req[r].grant # "OWNER"
      BY <3>1 DEF Sound, MayName, Ownerless
    <3> QED
      BY <1>1, <2>1, <2>3, <3>2 DEF WriteRole, TypeOK
  <2>4. ASSUME NEW p \in Requests, NEW v \in Users, NEW as \in Roles \ {"OWNER"}, Join(p, v, as)
        PROVE  role'[o][u] # "OWNER"
    BY <1>1, <2>1, <2>4 DEF Join, TypeOK
  <2> QED
    BY <2>1, <2>2, <2>3, <2>4 DEF Next, Handle, ProbeSlug, Authorize, WriteInvitation, Audit,
       Lose, Call, SendCreate, SendInvite, SendRole, vars
<1>3. ASSUME NEW r \in Requests, req'[r].org = o, req'[r].pc = "writing"
      PROVE  req'[r].level # "OWNER"
  <2>1. CASE req'[r] = req[r]
    BY <1>3, <2>1 DEF Ownerless
  <2>2. CASE Authorize(r)
    <3>1. /\ req'[r].level = role[req[r].org][req[r].user] /\ req'[r].org = req[r].org
          /\ req[r].pc = "sent"
      BY <1>1, <1>3, <2>2 DEF Authorize, Goto, RequestState
    <3>2. req[r].user \in Users
      BY <3>1 DEF OrgInv, Sound
    <3> QED
      BY <1>3, <3>1, <3>2 DEF Ownerless, Owned
  <2>3. ASSUME NEW q \in Requests \ {r}, Handle(q) \/ Lose(q) \/ \E u \in Users : Call(q, u)
        PROVE  req'[r] = req[r]
    BY <1>1, <2>3 DEF Handle, ProbeSlug, CreateOrg, Authorize, WriteInvitation, WriteRole, Audit,
       Lose, Goto, Call, SendCreate, SendInvite, SendRole
  <2>4. ASSUME ProbeSlug(r) \/ CreateOrg(r) \/ WriteInvitation(r) \/ WriteRole(r) \/ Audit(r)
               \/ Lose(r) \/ \E u \in Users : Call(r, u)
        PROVE  FALSE
    <3>1. ASSUME ProbeSlug(r) PROVE req'[r].pc \in {"probing", "creating"}
      BY <1>1, <3>1 DEF ProbeSlug, Goto, RequestState
    <3>2. ASSUME CreateOrg(r) \/ WriteInvitation(r) \/ WriteRole(r) \/ Audit(r) \/ Lose(r)
          PROVE  req'[r].pc \in {"error", "auditing", "ok", "lost"}
      BY <1>1, <3>2 DEF CreateOrg, WriteInvitation, WriteRole, Audit, Lose, Goto, RequestState
    <3>3. ASSUME NEW u \in Users, Call(r, u) PROVE req'[r].pc \in {"probing", "sent"}
      BY <1>1, <3>3 DEF Call, SendCreate, SendInvite, SendRole, Unsent
    <3> QED
      BY <1>3, <2>4, <3>1, <3>2, <3>3
  <2>5. ASSUME NEW q \in Requests, Handle(q) \/ Lose(q) \/ \E u \in Users : Call(q, u)
        PROVE  req'[r] = req[r] \/ Authorize(r)
    BY <2>3, <2>4, <2>5 DEF Handle
  <2>6. req'[r] = req[r] \/ Authorize(r)
    BY <2>5 DEF Next, Join, vars
  <2> QED
    BY <2>1, <2>2, <2>6
<1>4. ASSUME NEW r \in invited', req'[r].org = o PROVE req'[r].grant # "OWNER"
  <2>1. CASE r \in invited
    BY <1>4, <2>1, PastKept DEF Ownerless
  <2>2. CASE r \notin invited
    <3>1. WriteInvitation(r) /\ r \in Requests
      BY <2>2 DEF Next, Handle, ProbeSlug, CreateOrg, Authorize, WriteInvitation, WriteRole,
         Audit, Lose, Call, SendCreate, SendInvite, SendRole, Join, vars
    <3>2. Sound(r) /\ req[r].pc = "writing" /\ Goto(r, "auditing")
      BY <3>1 DEF WriteInvitation, OrgInv
    <3>3. req'[r].org = req[r].org /\ req'[r].grant = req[r].grant
      BY <1>1, <3>1, <3>2 DEF Goto, RequestState
    <3> QED
      BY <1>4, <3>1, <3>2, <3>3 DEF Sound, MayName, Ownerless
  <2> QED
    BY <2>1, <2>2
<1>5. ~Owned(o)'
  BY <1>2 DEF Owned
<1> QED
  BY <1>3, <1>4, <1>5 DEF Ownerless

(* No step gives an organization the authority of an owner that has none.  *)
THEOREM OwnersMadeByOwners == Spec => OwnershipNotForged
<1>1. ASSUME OrgInv, [Next]_vars
      PROVE  [\A o \in Orgs : Ownerless(o) => Ownerless(o)']_vars
  BY <1>1, NoForgery
<1> QED
  BY <1>1, InitOrg, NextOrg, PTL DEF Spec, OwnershipNotForged

=============================================================================
