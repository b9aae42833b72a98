----------------------------- MODULE RunLeases -----------------------------
(***************************************************************************)
(* What the server promises about measurement runs, without its locks,     *)
(* contexts, channels and goroutines.                                      *)
(*                                                                         *)
(* A run is a lease on one of MaxRuns places.  It is granted once, open to *)
(* at most MaxStreams streams at a time, then closing, then ended; it      *)
(* keeps its place until the last stream has left, and no stream joins a   *)
(* run that is closing.  RunRegistry implements this.                      *)
(***************************************************************************)
EXTENDS Naturals, FiniteSets

CONSTANTS Runs, Streams, MaxRuns, MaxStreams

VARIABLES
  lease,  \* the state of each run
  users   \* the streams in each run

vars == <<lease, users>>

InState(st) == {r \in Runs : lease[r] = st}
Outstanding == InState("open") \cup InState("closing")

TypeOK ==
  /\ lease \in [Runs -> {"none", "open", "closing", "ended"}]
  /\ users \in [Runs -> SUBSET Streams]

Init ==
  /\ lease = [r \in Runs |-> "none"]
  /\ users = [r \in Runs |-> {}]

\* Runs that are over give their places back, others begin to close, and a new run
\* may be granted: one request does all three at once.
Turnover(begin, end, grant) ==
  /\ begin \subseteq InState("open")
  /\ end \subseteq {r \in InState("closing") \cup begin : users[r] = {}}
  /\ grant \subseteq InState("none")
  /\ Cardinality((Outstanding \ end) \cup grant) <= MaxRuns
  /\ lease' = [r \in Runs |-> IF r \in end THEN "ended"
                              ELSE IF r \in begin THEN "closing"
                              ELSE IF r \in grant THEN "open"
                              ELSE lease[r]]
  /\ UNCHANGED users

Join(s, r) ==
  /\ lease[r] = "open"
  /\ s \notin UNION {users[q] : q \in Runs}
  /\ Cardinality(users[r]) < MaxStreams
  /\ users' = [users EXCEPT ![r] = @ \cup {s}]
  /\ UNCHANGED lease

Leave(s, r) ==
  /\ s \in users[r]
  /\ users' = [users EXCEPT ![r] = @ \ {s}]
  /\ UNCHANGED lease

Next ==
  \/ \E begin \in SUBSET InState("open") :
       \E end \in SUBSET (InState("closing") \cup begin), grant \in SUBSET InState("none") :
         Turnover(begin, end, grant)
  \/ \E s \in Streams, r \in Runs : Join(s, r) \/ Leave(s, r)

Spec == Init /\ [][Next]_vars

\* Every lease runs out, every stream leaves, and a place nobody uses is given back.
Fairness ==
  /\ \A r \in Runs : WF_vars(Turnover({r}, {}, {})) /\ WF_vars(Turnover({}, {r}, {}))
  /\ \A s \in Streams, r \in Runs : WF_vars(Leave(s, r))

FairSpec == Spec /\ Fairness
=============================================================================
