------------------------- MODULE VersionedRegister -------------------------
(***************************************************************************)
(* What saving a document promises while calls overlap.  Every call looks  *)
(* at the document once, at some moment between its start and its end; it  *)
(* is judged by the state it saw, and if it succeeds it files that state   *)
(* in the history and puts its own content on top of whatever is there     *)
(* when it ends.  A save names the stamp of the state it was based on and  *)
(* succeeds only if it saw that stamp.  There is no step here at which the *)
(* document is looked at: the moment is chosen when the call ends.         *)
(***************************************************************************)
EXTENDS Integers, Sequences

CONSTANTS Clients, Blank, Steps

VARIABLES
  states,   \* the document's states, numbered, each with its stamp
  history,  \* the contents filed, oldest first
  ask,      \* what each client asked for, and when
  outcome   \* what became of it

vars == <<states, history, ask, outcome>>

Now == Len(states)

Nothing == [kind |-> "none", token |-> 0, pick |-> 0, since |-> 0]

Init ==
  /\ states = <<>>
  /\ history = <<>>
  /\ ask = [c \in Clients |-> Nothing]
  /\ outcome = [c \in Clients |-> "none"]

Create ==
  /\ Now = 0
  /\ states' = <<[content |-> Blank, updatedAt |-> 0, rev |-> 1]>>
  /\ UNCHANGED <<history, ask, outcome>>

Ask(c, question) ==
  /\ outcome[c] = "none"
  /\ ask' = [ask EXCEPT ![c] = question]
  /\ outcome' = [outcome EXCEPT ![c] = "open"]
  /\ UNCHANGED <<states, history>>

AskSave(c, b) ==
  Ask(c, [kind |-> "save", token |-> states[b].updatedAt, pick |-> 0, since |-> Now])

AskRestore(c, i) ==
  Ask(c, [kind |-> "restore", token |-> 0, pick |-> i, since |-> Now])

(* The states c may have seen, if it ends now.                             *)
Seen(c) == ask[c].since .. Now

Content(c) == IF ask[c].kind = "save" THEN c ELSE history[ask[c].pick]

Accept(c) ==
  /\ outcome[c] = "open"
  /\ outcome' = [outcome EXCEPT ![c] = "accepted"]
  /\ \E step \in Steps :
       states' = Append(states, [content |-> Content(c),
                                 updatedAt |-> states[Now].updatedAt + step,
                                 rev |-> Now + 1])
  /\ \E n \in Seen(c) :
       /\ ask[c].kind = "save" => states[n].updatedAt = ask[c].token
       /\ history' = Append(history, states[n].content)
  /\ UNCHANGED ask

Reject(c) ==
  /\ outcome[c] = "open"
  /\ outcome' = [outcome EXCEPT ![c] = "rejected"]
  /\ ask[c].kind = "save"
  /\ \E n \in Seen(c) : states[n].updatedAt # ask[c].token
  /\ UNCHANGED <<states, history, ask>>

Drop(c) ==
  /\ outcome[c] = "open"
  /\ outcome' = [outcome EXCEPT ![c] = "dropped"]
  /\ UNCHANGED <<states, history, ask>>

Next ==
  \/ Create
  \/ \E c \in Clients :
       \/ \E b \in 1 .. Now : AskSave(c, b)
       \/ \E i \in 1 .. Len(history) : AskRestore(c, i)
       \/ Accept(c)
       \/ Reject(c)
       \/ Drop(c)

Spec == Init /\ [][Next]_vars
=============================================================================
