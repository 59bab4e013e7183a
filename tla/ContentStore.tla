---------------------------- MODULE ContentStore ----------------------------
(***************************************************************************)
(* What the artifact catalog promises its callers, without files, locks or *)
(* transactions.  Content becomes available all at once, together with the *)
(* document that refers to it; it never stops being available; a call that *)
(* is answered "ok" has its content available and its document recorded;   *)
(* a document is recorded only when everything it refers to can be read.   *)
(***************************************************************************)

CONSTANTS Client,   \* processes that call the store
          Hash,     \* content digests
          Doc,      \* immutable CVE version documents
          NoDoc,    \* the document of a call that carries none (a feed fetch)
          RefsOf    \* the digests a document refers to

VARIABLES available,  \* digests whose content can be read
          recorded,   \* documents that are recorded
          want,       \* the digests each client's last call carries
          doc,        \* the document each client's last call carries
          reply       \* how that call was answered, "none" while it was not

vars == <<available, recorded, want, doc, reply>>

Verdict == {"ok", "failed", "unknown"}

Init ==
  /\ available = {}
  /\ recorded = {}
  /\ want = [c \in Client |-> {}]
  /\ doc = [c \in Client |-> NoDoc]
  /\ reply = [c \in Client |-> "none"]

(* A client asks for some content, and perhaps a document, to be stored.   *)
Ask(c) ==
  /\ \E w \in SUBSET Hash : want' = [want EXCEPT ![c] = w]
  /\ \E d \in Doc \cup {NoDoc} : doc' = [doc EXCEPT ![c] = d]
  /\ reply' = [reply EXCEPT ![c] = "none"]
  /\ UNCHANGED <<available, recorded>>

DocOf(c) == {doc[c]} \ {NoDoc}

(* Everything a call carries is published in one step.  The step may also  *)
(* answer the call; a commit whose acknowledgement is lost answers nothing *)
(* yet, or reports a failure.                                              *)
Publish(c) ==
  /\ reply[c] = "none"
  /\ available' = available \cup want[c]
  /\ recorded' = recorded \cup DocOf(c)
  /\ \A d \in DocOf(c) : RefsOf[d] \subseteq available'
  /\ \E r \in {"none", "ok", "failed"} : reply' = [reply EXCEPT ![c] = r]
  /\ UNCHANGED <<want, doc>>

(* "ok" is only answered when it is true.                                  *)
Answer(c) ==
  /\ reply[c] = "none"
  /\ \E r \in Verdict :
       /\ r = "ok" => want[c] \subseteq available /\ DocOf(c) \subseteq recorded
       /\ reply' = [reply EXCEPT ![c] = r]
  /\ UNCHANGED <<available, recorded, want, doc>>

Next == \E c \in Client : Ask(c) \/ Publish(c) \/ Answer(c)

Spec == Init /\ [][Next]_vars

=============================================================================
