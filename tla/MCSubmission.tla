----------------------------- MODULE MCSubmission -----------------------------
(***************************************************************************)
(* Finite instances of Submission: workloads of a few calls, drawn in      *)
(* every combination from a pool of requests.                              *)
(***************************************************************************)
EXTENDS Submission, TLC

CONSTANTS ann, bob, p1, p2, p3, k1, b1, b2

OwnerOf == p1 :> ann @@ p2 :> ann
Spelling == "A" :> "a" @@ "a" :> "a"

Register(email, strong) == [op |-> "register", email |-> email, strong |-> strong]
Create(user, name) == [op |-> "project", user |-> user, name |-> name]
Task(user, project, type, key, body) ==
    [op |-> "task", user |-> user, project |-> project, type |-> type, key |-> key, body |-> body]

\* A submission, the same with another body or project, one without a key; two
\* spellings of an address and of a project's name.
Accepted == <<Task(ann, p1, "sleep", k1, b1), Task(ann, p1, "sleep", k1, b2),
              Task(ann, p2, "sleep", k1, b1), Task(ann, p1, "sleep", NoKey, b1),
              Register("A", TRUE), Register("a", TRUE),
              Create(ann, "A"), Create(ann, "a"), Create(bob, "A")>>

\* One request for each reason to refuse it.
Refused == <<Task(bob, p1, "sleep", k1, b1), Task(ann, p3, "sleep", k1, b1),
             Task(ann, p1, "email", k1, b1), Task(NoUser, p1, "sleep", k1, b1),
             Register("A", FALSE), Create(NoUser, "A")>>

Loads(pool) ==
    {[c \in Calls |-> pool[n[c]]] :
        n \in {m \in [Calls -> DOMAIN pool] : \A c, d \in Calls : c < d => m[c] <= m[d]}}

Racing == Loads(Accepted) \cup Loads(Refused)

=============================================================================
