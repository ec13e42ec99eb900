----------------------- MODULE TermsConditionsRegister -----------------------
(***************************************************************************)
(* TermsConditions implements AcceptanceRegister: however the requests     *)
(* interleave, and whatever raises, each one takes effect at one instant.  *)
(***************************************************************************)
EXTENDS TermsConditions

\* Both documents accepted: what the terms are for, computed by nobody else.
Accepted(row) == row.accept_main /\ row.accept_userdata

AbsRow(row) ==
  IF row = NoRow THEN NoRow
  ELSE [accepted |-> Accepted(row), until |-> row.until]

\* A request has taken effect when its row is committed, or read.
Stage(t) == IF pc[t] \in {"close", "answer"} THEN "done" ELSE "called"
AbsCall(t) ==
  IF req[t] = NoRequest THEN NoRequest
  ELSE [op |-> req[t].op, user |-> req[t].user, stage |-> Stage(t),
        value |-> AbsRow(req[t].row)]

Register == INSTANCE AcceptanceRegister WITH
  register <- [u \in Users |-> AbsRow(accepts[u])],
  call <- [t \in Threads |-> AbsCall(t)],
  NoCall <- NoRequest

ASSUME RegisterAssumption ==
  /\ NoRow \notin Register!Terms
  /\ NoRequest \notin Register!Calls

\* Each request takes effect at one instant, what was answered 204 has been
\* stored, and access (for Allocate) or its display (on the site) is granted
\* only if the caller had accepted all terms at an instant of the call and
\* they last for Margin from the answer on (has_testbed_access and the
\* handlers), although threads exchange each other's connections.
ImplementsRegister == Register!Spec

\* The stored testbed_access, which the site shows, is what Allocate derives
\* from the two other fields (register_accept, derive_testbed_access), in the
\* table and in every request.
RowOK(row) == row # NoRow => row.testbed_access = Accepted(row)
StoredAccessAgrees ==
  /\ \A u \in Users : RowOK(accepts[u])
  /\ \A t \in Threads : req[t] # NoRequest => RowOK(req[t].row)

\* A thread is idle exactly if it serves no request.
IdleOK == \A t \in Threads : pc[t] = "idle" <=> req[t] = NoRequest
=============================================================================
