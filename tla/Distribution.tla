---------------------------- MODULE Distribution ----------------------------
(***************************************************************************)
(* The distribution service sends the parts of one request to the clusters *)
(* they are for, all at once, and merges the answers.  A part that meets a *)
(* connection or server error is sent again, up to MaxTries times, whether *)
(* or not the other cluster has carried it out.                            *)
(***************************************************************************)
EXTENDS Naturals

CONSTANTS
  Request,   \* the requests whose parts are distributed
  Remote,    \* the other clusters
  MaxTries   \* stop_max_attempt_number

ASSUME MaxTriesAssumption == MaxTries \in Nat \ {0}

VARIABLES
  call,   \* of each request: where its part for each cluster is
  tries   \* of each request: attempts at each part

distribution_vars == <<call, tries>>

Place == {"none", "sent", "run", "ok", "refused"}

DistributionInit ==
  /\ call = [r \in Request |-> [c \in Remote |-> "none"]]
  /\ tries = [r \in Request |-> [c \in Remote |-> 0]]

\* A request for the clusters in C arrives with the body of each of them.
Distribute(r, C) ==
  /\ call' = [call EXCEPT ![r] = [c \in Remote |-> IF c \in C THEN "sent" ELSE "none"]]
  /\ tries' = [tries EXCEPT ![r] = [c \in Remote |-> IF c \in C THEN 1 ELSE 0]]

Put(r, c, from, to) ==
  /\ call[r][c] = from
  /\ call' = [call EXCEPT ![r][c] = to]

\* The other cluster begins to carry its part out, or answers that it failed.
Arrives(r, c) == Put(r, c, "sent", "run") /\ UNCHANGED tries
Fails(r, c) == Put(r, c, "sent", "refused") /\ UNCHANGED tries

\* There is no key to sign the part with: nothing is sent.
Unsigned(r, c) == tries[r][c] = 1 /\ Fails(r, c)

\* The cluster is not among the cached ones: it is left out of the answer.
Unknown(r, c) == tries[r][c] = 1 /\ Put(r, c, "sent", "none") /\ UNCHANGED tries

\* One cluster is not the sender's to ask: nothing is sent to any.
RefuseAll(r) ==
  /\ \E c \in Remote : call[r][c] = "sent"
  /\ \A c \in Remote : call[r][c] \in {"none", "sent"} /\ tries[r][c] < 2
  /\ call' = [call EXCEPT ![r] =
                [c \in Remote |-> IF @[c] = "sent" THEN "refused" ELSE @[c]]]
  /\ UNCHANGED tries

Succeeds(r, c, from) == Put(r, c, from, "ok") /\ UNCHANGED tries

\* No answer comes from where the part was: it is sent again or given up.
Again(r, c, from) ==
  /\ tries[r][c] < MaxTries
  /\ Put(r, c, from, "sent")
  /\ tries' = [tries EXCEPT ![r][c] = @ + 1]

GiveUp(r, c, from) == tries[r][c] = MaxTries /\ Put(r, c, from, "refused") /\ UNCHANGED tries

\* joinall has returned.
Answered(r) == \A c \in Remote : call[r][c] \in {"none", "ok", "refused"}

=============================================================================
