--------------------------- MODULE DocumentStore ---------------------------
(***************************************************************************)
(* One document row, its DocumentVersion history and the handlers of       *)
(* documents.routes.ts that write them, with the editors of page.tsx that  *)
(* call them.  Every PUT and every restore is an instance of an Express    *)
(* handler: it awaits a read, then a transaction, then a publish, and any  *)
(* other handler may run at each await.                                    *)
(*                                                                         *)
(* A request stands for the content it wants to write: a save r writes     *)
(* content r, so contents are told apart without being spelled out.        *)
(* rev, since and log are history that no handler reads: rev numbers the   *)
(* states of the row (0 is "no row yet"), since is the state the row was   *)
(* in when a call was made, log[n] is state n.                             *)
(*                                                                         *)
(* updatedAt is what the clock of the instance says when Prisma runs the   *)
(* update.  Two commits may share a millisecond, and since the stamp is    *)
(* taken before the row is locked, and instances have clocks of their own, *)
(* a later commit may even carry an earlier stamp: Steps is a parameter.   *)
(***************************************************************************)
EXTENDS Integers, Sequences

CONSTANTS
  Requests,    \* PUT and restore calls, each made at most once
  Editors,     \* browser tabs with the document open
  Writers,     \* the editors whose role is MEMBER or above
  Blank,       \* content of a document that was just created
  Steps        \* what a commit may add to updatedAt, in milliseconds

ASSUME ContentAssumption == Blank \notin Requests
ASSUME WriterAssumption == Writers \subseteq Editors
ASSUME StepsAssumption == Steps \subseteq Int

VARIABLES
  doc,       \* the row: content, updatedAt, and its number
  versions,  \* contents of the DocumentVersion rows, oldest first
  cache,     \* per editor, the document in its query cache
  req,       \* per request, the state of the handler that serves it
  log        \* history: every state the row has had, in order

vars == <<doc, versions, cache, req, log>>

Contents == Requests \cup {Blank}
Snapshot == [content : Contents, updatedAt : Int, rev : Nat]
NoRow == [content |-> Blank, updatedAt |-> 0, rev |-> 0]

InFlight == {"sent", "checked", "committed", "published"}
Settled == {"denied", "conflict", "saved", "failed", "lost"}
Committed == {"committed", "published", "saved", "failed"}

(* token is expectedUpdatedAt; base is the state the editor was looking at *)
(* when it sent the request; existing is the row as the handler read it;   *)
(* result is the row the transaction returned.                             *)
RequestState ==
  [pc : InFlight \cup Settled \cup {"idle"},
   kind : {"none", "save", "restore"},
   editor : Editors \cup {"none"},
   token : Int, base : Nat, pick : Nat, since : Nat,
   existing : Snapshot, result : Snapshot]

Unsent ==
  [pc |-> "idle", kind |-> "none", editor |-> "none", token |-> 0, base |-> 0,
   pick |-> 0, since |-> 0, existing |-> NoRow, result |-> NoRow]

Init ==
  /\ doc = NoRow
  /\ versions = <<>>
  /\ cache = [e \in Editors |-> NoRow]
  /\ req = [r \in Requests |-> Unsent]
  /\ log = <<>>

----------------------------------------------------------------------------
(* The editor.                                                             *)

Create ==
  /\ doc.rev = 0
  /\ doc' = [content |-> Blank, updatedAt |-> 0, rev |-> 1]
  /\ log' = <<doc'>>
  /\ UNCHANGED <<versions, cache, req>>

(* GET of the document: on mount, on document.updated, after a restore.    *)
Load(e) ==
  /\ doc.rev > 0
  /\ cache' = [cache EXCEPT ![e] = doc]
  /\ UNCHANGED <<doc, versions, req, log>>

SendSave(r, e) ==
  /\ req[r].pc = "idle"
  /\ cache[e].rev > 0
  /\ req' = [req EXCEPT ![r] =
       [Unsent EXCEPT !.pc = "sent", !.kind = "save", !.editor = e,
                      !.token = cache[e].updatedAt, !.base = cache[e].rev,
                      !.since = doc.rev]]
  /\ UNCHANGED <<doc, versions, cache, log>>

SendRestore(r, e, i) ==
  /\ req[r].pc = "idle"
  /\ cache[e].rev > 0
  /\ req' = [req EXCEPT ![r] =
       [Unsent EXCEPT !.pc = "sent", !.kind = "restore", !.editor = e,
                      !.pick = i, !.since = doc.rev]]
  /\ UNCHANGED <<doc, versions, cache, log>>

----------------------------------------------------------------------------
(* The handlers.                                                           *)

\* Mutants of Conflicts: no comparison, or >= where the code has #.
ConflictsNever(r) == FALSE
ConflictsInclusive(r) == req[r].kind = "save" /\ req[r].token <= doc.updatedAt

Conflicts(r) == req[r].kind = "save" /\ req[r].token # doc.updatedAt

Deny(r) ==
  /\ req[r].pc = "sent"
  /\ req[r].editor \notin Writers
  /\ req' = [req EXCEPT ![r].pc = "denied"]
  /\ UNCHANGED <<doc, versions, cache, log>>

Reject(r) ==
  /\ req[r].pc = "sent"
  /\ req[r].editor \in Writers
  /\ Conflicts(r)
  /\ req' = [req EXCEPT ![r].pc = "conflict", ![r].existing = doc]
  /\ UNCHANGED <<doc, versions, cache, log>>

Check(r) ==
  /\ req[r].pc = "sent"
  /\ req[r].editor \in Writers
  /\ ~Conflicts(r)
  /\ req' = [req EXCEPT ![r].pc = "checked", ![r].existing = doc]
  /\ UNCHANGED <<doc, versions, cache, log>>

NewContent(r) == IF req[r].kind = "save" THEN r ELSE versions[req[r].pick]

\* Mutant of Archived: what is filed is the new content.
ArchivedNew(r) == NewContent(r)

(* The transaction writes the new content whatever the row holds by now,   *)
(* and archives the content the handler read.                              *)
Archived(r) == req[r].existing.content

CommitAt(r, step) ==
  LET row == [content |-> NewContent(r), updatedAt |-> doc.updatedAt + step,
              rev |-> doc.rev + 1]
  IN  /\ req[r].pc = "checked"
      /\ doc' = row
      /\ versions' = Append(versions, Archived(r))
      /\ log' = Append(log, row)
      /\ req' = [req EXCEPT ![r].pc = "committed", ![r].result = row]
      /\ UNCHANGED cache

Commit(r) == \E step \in Steps : CommitAt(r, step)

Publish(r) ==
  /\ req[r].pc = "committed"
  /\ req' = [req EXCEPT ![r].pc = "published"]
  /\ UNCHANGED <<doc, versions, cache, log>>

(* Redis refuses the publish: the caller gets a 500 for a committed write. *)
PublishFails(r) ==
  /\ req[r].pc = "committed"
  /\ req' = [req EXCEPT ![r].pc = "failed"]
  /\ UNCHANGED <<doc, versions, cache, log>>

(* The editor puts the document of a PUT's response into its cache; after  *)
(* a restore it refetches, which is a Load.                                *)
Respond(r) ==
  /\ req[r].pc = "published"
  /\ req' = [req EXCEPT ![r].pc = "saved"]
  /\ cache' = IF req[r].kind = "save"
                THEN [cache EXCEPT ![req[r].editor] = req[r].result]
                ELSE cache
  /\ UNCHANGED <<doc, versions, log>>

(* The process or the connection dies and takes the request with it.       *)
Lose(r) ==
  /\ req[r].pc \in InFlight
  /\ req' = [req EXCEPT ![r].pc = "lost"]
  /\ UNCHANGED <<doc, versions, cache, log>>

Send(r, e) ==
  \/ SendSave(r, e)
  \/ \E i \in 1 .. Len(versions) : SendRestore(r, e, i)

Handle(r) ==
  \/ Deny(r) \/ Reject(r) \/ Check(r) \/ Commit(r)
  \/ Publish(r) \/ PublishFails(r) \/ Respond(r) \/ Lose(r)

Next ==
  \/ Create
  \/ \E e \in Editors : Load(e)
  \/ \E r \in Requests : Handle(r) \/ \E e \in Editors : Send(r, e)

Spec == Init /\ [][Next]_vars

----------------------------------------------------------------------------
(* Properties.                                                             *)

TypeOK ==
  /\ doc \in Snapshot
  /\ versions \in Seq(Contents)
  /\ cache \in [Editors -> Snapshot]
  /\ req \in [Requests -> RequestState]
  /\ log \in Seq(Snapshot)

(* Call r wrote state n of the row; it replaced the state before.          *)
Wrote(r, n) == req[r].result.rev = n /\ n > 0
Replaced(r) == req[r].result.rev - 1

(* Each write of the row leaves exactly one version behind, and the        *)
(* version holds what the document contained at some moment between the    *)
(* sending of that call and its write: the history never shows a text the  *)
(* document did not have, nor one that was already gone when the call was  *)
(* made.                                                                   *)
HistoryGenuine ==
  /\ Len(log) = doc.rev
  /\ doc.rev > 0 => Len(versions) = doc.rev - 1
  /\ \A i \in 1 .. Len(versions) :
       \E r \in Requests :
         /\ Wrote(r, i + 1)
         /\ \E n \in req[r].since .. i : versions[i] = log[n].content

(* A 409 is never spurious: the row had moved past the state the editor    *)
(* was looking at before the handler read it.                              *)
ConflictGenuine ==
  \A r \in Requests : req[r].pc = "conflict" => req[r].existing.rev > req[r].base

(* The handler that made state n + 1 had read a state before n.            *)
OverlappedAt(n) ==
  \E r \in Requests : Wrote(r, n + 1) /\ req[r].existing.rev < n

(* Version n holds the content of state n, so that restoring it undoes the *)
(* write that filed it, unless that write's handler overlapped the write   *)
(* before it.                                                              *)
LossNeedsOverlap ==
  \A n \in 1 .. doc.rev - 1 :
    versions[n] = log[n].content \/ OverlappedAt(n)

(* A save replaces a state its editor had not seen only in two cases: that *)
(* state was committed between the save's own read and its write, or it    *)
(* carries the very updatedAt the editor sent.                             *)
OverwriteNeedsOverlap ==
  \A r \in Requests :
    req[r].pc \in Committed /\ req[r].kind = "save" =>
      \/ Replaced(r) = req[r].base
      \/ req[r].existing.rev < Replaced(r)
      \/ log[Replaced(r)].updatedAt = log[req[r].base].updatedAt

(* A save replaces only the state its editor had seen; any other write     *)
(* in between turns it into a 409.                                         *)
NoSilentOverwrite ==
  \A r \in Requests :
    req[r].pc \in Committed /\ req[r].kind = "save" => Replaced(r) = req[r].base

----------------------------------------------------------------------------
(* The abstract register.                                                  *)

AskOf(r) ==
  [kind |-> req[r].kind, token |-> req[r].token, pick |-> req[r].pick,
   since |-> req[r].since]

Over == Committed \cup {"denied", "lost"}

OutcomeOf(r) ==
  CASE req[r].pc = "idle" -> "none"
    [] req[r].pc \in {"sent", "checked"} -> "open"
    [] req[r].pc = "conflict" -> "rejected"
    [] req[r].pc \in Over /\ req[r].result.rev > 0 -> "accepted"
    [] req[r].pc \in Over /\ req[r].result.rev = 0 -> "dropped"

Register ==
  INSTANCE VersionedRegister
    WITH Clients <- Requests,
         states <- log,
         history <- versions,
         ask <- [r \in Requests |-> AskOf(r)],
         outcome <- [r \in Requests |-> OutcomeOf(r)]

(* However the handlers interleave, each call can be explained by one      *)
(* state the document was in during the call: the save was judged against  *)
(* that state, and that state is what it or the restore filed.             *)
ImplementsRegister == Register!Spec

=============================================================================
