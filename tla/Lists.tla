------------------------------- MODULE Lists -------------------------------
(***************************************************************************)
(* The BSD <sys/queue.h> lists the server links its dictionaries in,       *)
(* written as sequences whose first element is the head of the list.       *)
(***************************************************************************)
EXTENDS Integers, SequencesExt

\* TAILQ_REMOVE and LIST_REMOVE: take the linked element e out of list s.
Unlink(s, e) == RemoveAt(s, CHOOSE i \in DOMAIN s : s[i] = e)

\* No element is linked twice.
Linear(s) == \A i, j \in DOMAIN s : s[i] = s[j] => i = j
=============================================================================
