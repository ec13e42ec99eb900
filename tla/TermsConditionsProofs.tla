------------------------ MODULE TermsConditionsProofs ------------------------
(***************************************************************************)
(* TermsConditions implements AcceptanceRegister, for every number of      *)
(* users and threads and every duration.                                   *)
(***************************************************************************)
EXTENDS TermsConditionsRegister, TLAPS

Inv == TermsTypeOK /\ StoredAccessAgrees /\ IdleOK

\* A row that register_accept makes is a row, and its testbed_access agrees.
LEMMA NewRowOK ==
  ASSUME now \in Nat, NEW doc \in Documents
  PROVE  NewRow(doc) \in Rows /\ RowOK(NewRow(doc))
<1>1. PICK K \in SUBSET Keys : doc \in [K -> BOOLEAN]
  BY DEF Documents
<1>2. Safe(doc, "accept_main") \in BOOLEAN /\ Safe(doc, "accept_userdata") \in BOOLEAN
  BY <1>1 DEF Safe
<1>3. now + Duration \in Nat
  BY TermsAssumption
<1>4. QED
  BY <1>2, <1>3 DEF NewRow, Rows, RowOK, Accepted, derive_testbed_access

\* A request begins: the invariant of the thread that serves it.
LEMMA ServeStep ==
  ASSUME Inv, NEW t \in Threads, NEW op \in Ops, NEW u \in Users,
         NEW row \in Rows \cup {NoRow}, RowOK(row),
         Serve(t, op, u, row)
  PROVE  Inv'
<1> DEFINE r == [op |-> op, user |-> u, row |-> row]
<1>1. r \in Requests /\ r # NoRequest
  BY TermsAssumption DEF Requests
<1>2. TermsTypeOK'
  BY <1>1 DEF Inv, Serve, TermsTypeOK, Places, Replies
<1>3. StoredAccessAgrees'
  BY <1>1 DEF Inv, Serve, TermsTypeOK, StoredAccessAgrees
<1>4. IdleOK'
  BY <1>1 DEF Inv, Serve, TermsTypeOK, IdleOK
<1>5. QED
  BY <1>2, <1>3, <1>4 DEF Inv

\* A request ends.
LEMMA EndStep ==
  ASSUME Inv, NEW t \in Threads, NEW a \in Replies, EndRequest(t, a),
         UNCHANGED <<now, accepts, con>>
  PROVE  Inv'
<1>1. TermsTypeOK'
  BY DEF Inv, EndRequest, TermsTypeOK, Places
<1>2. StoredAccessAgrees'
  BY DEF Inv, EndRequest, TermsTypeOK, StoredAccessAgrees
<1>3. IdleOK'
  BY DEF Inv, EndRequest, TermsTypeOK, IdleOK
<1>4. QED
  BY <1>1, <1>2, <1>3 DEF Inv

\* A thread goes to another place with the request it has.
LEMMA MoveStep ==
  ASSUME Inv, NEW t \in Threads, pc[t] # "idle",
         NEW place \in Places \ {"idle"}, Goto(t, place),
         UNCHANGED <<now, req, reply>>,
         accepts' \in [Users -> Rows \cup {NoRow}],
         \A u \in Users : RowOK(accepts'[u]),
         con' \in [DBs -> Threads \cup {NoThread}]
  PROVE  Inv'
<1>1. TermsTypeOK'
  BY DEF Inv, Goto, TermsTypeOK
<1>2. StoredAccessAgrees'
  BY DEF Inv, TermsTypeOK, StoredAccessAgrees
<1>3. IdleOK'
  BY DEF Inv, Goto, TermsTypeOK, IdleOK
<1>4. QED
  BY <1>1, <1>2, <1>3 DEF Inv

\* A thread that is not idle has a request.
LEMMA BusyHasRequest ==
  ASSUME Inv, NEW t \in Threads, pc[t] # "idle"
  PROVE  req[t] \in Requests /\ req[t] # NoRequest /\ MyDb(t) \in DBs
         /\ req[t].user \in Users /\ req[t].op \in Ops
         /\ req[t].row \in Rows \cup {NoRow} /\ RowOK(req[t].row)
<1>1. req[t] \in Requests /\ req[t] # NoRequest
  BY DEF Inv, TermsTypeOK, IdleOK
<1>2. req[t].user \in Users /\ req[t].op \in Ops /\ req[t].row \in Rows \cup {NoRow}
  BY <1>1 DEF Requests
<1>3. QED
  BY <1>1, <1>2 DEF Inv, StoredAccessAgrees, MyDb, DbOf, DBs

LEMMA InitInv == Init => Inv
<1> SUFFICES ASSUME Init PROVE Inv
  OBVIOUS
<1>1. TermsTypeOK
  BY DEF Init, TermsTypeOK, Places, Replies
<1>2. StoredAccessAgrees
  BY DEF Init, StoredAccessAgrees, RowOK
<1>3. IdleOK
  BY DEF Init, IdleOK
<1>4. QED
  BY <1>1, <1>2, <1>3 DEF Inv

LEMMA NextInv == Inv /\ [Next]_vars => Inv'
<1> SUFFICES ASSUME Inv, [Next]_vars PROVE Inv'
  OBVIOUS
<1>1. CASE UNCHANGED vars
  BY <1>1 DEF vars, Inv, TermsTypeOK, StoredAccessAgrees, RowOK, IdleOK
<1>2. CASE Tick
  <2>1. TermsTypeOK'
    BY <1>2 DEF Inv, Tick, TermsTypeOK
  <2>2. StoredAccessAgrees' /\ IdleOK'
    BY <1>2 DEF Inv, Tick, StoredAccessAgrees, RowOK, IdleOK
  <2>3. QED
    BY <2>1, <2>2 DEF Inv
<1>3. ASSUME NEW t \in Threads, NEW a \in {"200", "400", "403", "raised"}, Refuse(t, a)
      PROVE  Inv'
  <2>1. TermsTypeOK'
    BY <1>3 DEF Inv, Refuse, TermsTypeOK, Replies
  <2>2. StoredAccessAgrees' /\ IdleOK'
    BY <1>3 DEF Inv, Refuse, StoredAccessAgrees, RowOK, IdleOK
  <2>3. QED
    BY <2>1, <2>2 DEF Inv
<1>4. ASSUME NEW t \in Threads, NEW u \in Users \cup {Anonymous}, do_PUT(t, u)
      PROVE  Inv'
  <2>1. CASE \E a \in {"200", "400", "403", "raised"} : Refuse(t, a)
    BY <2>1, <1>3
  <2>2. CASE u # Anonymous /\ \E doc \in Documents : Serve(t, "accept", u, NewRow(doc))
    <3>1. PICK doc \in Documents : Serve(t, "accept", u, NewRow(doc))
      BY <2>2
    <3>2. now \in Nat /\ u \in Users /\ "accept" \in Ops
      BY <2>2 DEF Inv, TermsTypeOK, Ops, Writes
    <3>3. QED
      BY <3>1, <3>2, NewRowOK, ServeStep
  <2>3. QED
    BY <1>4, <2>1, <2>2 DEF do_PUT
<1>5. ASSUME NEW t \in Threads, NEW u \in Users \cup {Anonymous},
             do_DELETE(t, u) \/ do_GET(t, u) \/ Allocate(t, u)
      PROVE  Inv'
  <2>1. CASE Refuse(t, "200") \/ Refuse(t, "403")
    BY <2>1, <1>3
  <2>2. CASE u # Anonymous /\ \E op \in {"decline", "show", "check"} : Serve(t, op, u, NoRow)
    <3>1. PICK op \in {"decline", "show", "check"} : Serve(t, op, u, NoRow)
      BY <2>2
    <3>2. op \in Ops /\ u \in Users /\ RowOK(NoRow)
      BY <2>2 DEF Ops, Writes, RowOK
    <3>3. QED
      BY <3>1, <3>2, ServeStep
  <2>3. QED
    BY <1>5, <2>1, <2>2 DEF do_DELETE, do_GET, Allocate
<1>6. ASSUME NEW t \in Threads, ThreadStep(t) PROVE Inv'
  <2>1. CASE DatabaseError(t)
    BY <2>1, EndStep DEF DatabaseError, Replies
  <2>2. CASE Connect(t)
    <3>1. MyDb(t) \in DBs
      BY <2>2, BusyHasRequest DEF Connect
    <3>2. con' \in [DBs -> Threads \cup {NoThread}]
      BY <2>2, <3>1 DEF Connect, Inv, TermsTypeOK
    <3>3. accepts' \in [Users -> Rows \cup {NoRow}] /\ \A u \in Users : RowOK(accepts'[u])
      BY <2>2 DEF Connect, Inv, TermsTypeOK, StoredAccessAgrees
    <3>4. QED
      BY <2>2, <3>2, <3>3, MoveStep DEF Connect, Places
  <2>3. CASE Cursor(t) \/ Close(t)
    <3>1. CASE EndRequest(t, "raised")
      BY <2>3, <3>1, EndStep DEF Cursor, Close, Replies
    <3>2. CASE (Goto(t, "execute") \/ Goto(t, "answer")) /\ UNCHANGED <<req, reply>>
      <4>1. accepts' \in [Users -> Rows \cup {NoRow}] /\ (\A u \in Users : RowOK(accepts'[u]))
            /\ con' \in [DBs -> Threads \cup {NoThread}]
        BY <2>3 DEF Cursor, Close, Inv, TermsTypeOK, StoredAccessAgrees
      <4>2. QED
        BY <2>3, <3>2, <4>1, MoveStep DEF Cursor, Close, Places
    <3>3. QED
      BY <2>3, <3>1, <3>2 DEF Cursor, Close
  <2>4. CASE Select(t)
    <3>1. req[t] \in Requests /\ req[t].user \in Users
      BY <2>4, BusyHasRequest DEF Select
    <3> DEFINE row == accepts[req[t].user]
    <3>2. row \in Rows \cup {NoRow} /\ RowOK(row)
      BY <3>1 DEF Inv, TermsTypeOK, StoredAccessAgrees
    <3>3. req'[t] = [req[t] EXCEPT !.row = row] /\ req'[t] \in Requests /\ req'[t].row = row
      BY <2>4, <3>1, <3>2 DEF Select, Inv, TermsTypeOK, Requests
    <3>4. \A s \in Threads : s # t => req'[s] = req[s]
      BY <2>4 DEF Select, Inv, TermsTypeOK
    <3>5. TermsTypeOK'
      BY <2>4, <3>3, <3>4 DEF Select, Goto, Inv, TermsTypeOK, Places
    <3>6. StoredAccessAgrees'
      BY <2>4, <3>2, <3>3, <3>4 DEF Select, Inv, StoredAccessAgrees
    <3>7. IdleOK'
      <4>1. req'[t] # NoRequest /\ pc'[t] # "idle"
        BY <2>4, <3>3, TermsAssumption DEF Select, Goto, Inv, TermsTypeOK
      <4>2. QED
        BY <2>4, <3>4, <4>1 DEF Select, Goto, Inv, TermsTypeOK, IdleOK
    <3>8. QED
      BY <3>5, <3>6, <3>7 DEF Inv
  <2>5. CASE BeginWrite(t)
    <3>1. accepts' \in [Users -> Rows \cup {NoRow}] /\ (\A u \in Users : RowOK(accepts'[u]))
          /\ con' \in [DBs -> Threads \cup {NoThread}]
      BY <2>5 DEF BeginWrite, Inv, TermsTypeOK, StoredAccessAgrees
    <3>2. QED
      BY <2>5, <3>1, MoveStep DEF BeginWrite, Places
  <2>6. CASE Commit(t)
    <3>1. req[t].row \in Rows \cup {NoRow} /\ RowOK(req[t].row)
      BY <2>6, BusyHasRequest DEF Commit
    <3>2. accepts' \in [Users -> Rows \cup {NoRow}] /\ (\A u \in Users : RowOK(accepts'[u]))
          /\ con' \in [DBs -> Threads \cup {NoThread}]
      BY <2>6, <3>1 DEF Commit, Inv, TermsTypeOK, StoredAccessAgrees
    <3>3. QED
      BY <2>6, <3>2, MoveStep DEF Commit, Places
  <2>7. CASE Respond(t)
    <3>1. \E a \in Replies : EndRequest(t, a)
      BY <2>7 DEF Respond, Replies
    <3>2. QED
      BY <2>7, <3>1, EndStep DEF Respond
  <2>8. QED
    BY <1>6, <2>1, <2>2, <2>3, <2>4, <2>5, <2>6, <2>7 DEF ThreadStep
<1>7. QED
  BY <1>1, <1>2, <1>4, <1>5, <1>6 DEF Next

\* The table, the requests and the connections keep their types.
THEOREM TermsTypes == Spec => []TermsTypeOK
<1>1. Inv => TermsTypeOK
  BY DEF Inv
<1>2. QED
  BY InitInv, NextInv, <1>1, PTL DEF Spec

\* The access that the site shows is the one that Allocate derives
\* (StoredAccessAgrees; register_accept, derive_testbed_access).
THEOREM StoredAccessIsDerived == Spec => []StoredAccessAgrees
<1>1. Inv => StoredAccessAgrees
  BY DEF Inv
<1>2. QED
  BY InitInv, NextInv, <1>1, PTL DEF Spec

-----------------------------------------------------------------------------
(* The refinement: each step of TermsConditions is a step of the register. *)

AbsCalls == [t \in Threads |-> AbsCall(t)]
AbsRegister == [u \in Users |-> AbsRow(accepts[u])]

\* What a row stands for.
LEMMA AbsRowType ==
  ASSUME NEW row \in Rows \cup {NoRow}
  PROVE  /\ AbsRow(row) = NoRow <=> row = NoRow
         /\ row # NoRow => AbsRow(row) = [accepted |-> Accepted(row), until |-> row.until]
         /\ AbsRow(row) \in Register!Terms \cup {NoRow}
<1>1. CASE row = NoRow
  BY <1>1 DEF AbsRow
<1>2. CASE row # NoRow
  <2>1. Accepted(row) \in BOOLEAN /\ row.until \in Nat
    BY <1>2 DEF Rows, Accepted
  <2>2. AbsRow(row) = [accepted |-> Accepted(row), until |-> row.until]
    BY <1>2 DEF AbsRow
  <2>3. AbsRow(row) \in Register!Terms
    BY <2>1, <2>2 DEF Register!Terms
  <2>4. QED
    BY <1>2, <2>2, <2>3, RegisterAssumption
<1>3. QED
  BY <1>1, <1>2

\* What the request of a thread that is not idle stands for.
LEMMA AbsCallType ==
  ASSUME Inv, NEW t \in Threads, pc[t] # "idle"
  PROVE  /\ AbsCall(t) # NoRequest
         /\ AbsCall(t) = [op |-> req[t].op, user |-> req[t].user,
                          stage |-> Stage(t),
                          value |-> AbsRow(req[t].row)]
<1>1. /\ req[t] # NoRequest /\ req[t].user \in Users /\ req[t].op \in Ops
      /\ AbsRow(req[t].row) \in Register!Terms \cup {NoRow}
  BY BusyHasRequest, AbsRowType
<1>2. AbsCall(t) = [op |-> req[t].op, user |-> req[t].user,
                    stage |-> Stage(t),
                    value |-> AbsRow(req[t].row)]
  BY <1>1 DEF AbsCall
<1>3. AbsCall(t) \in Register!Calls
  BY <1>1, <1>2 DEF Stage, Register!Calls, Register!Writes, Register!Reads, Ops, Writes
<1>4. QED
  BY <1>2, <1>3, RegisterAssumption

\* A step of one thread changes the call of that thread only.
LEMMA CallsExcept ==
  ASSUME Inv, Inv', NEW t \in Threads,
         \A s \in Threads : s # t => req'[s] = req[s] /\ pc'[s] = pc[s]
  PROVE  AbsCalls' = [AbsCalls EXCEPT ![t] = AbsCall(t)']
<1>1. ASSUME NEW s \in Threads, s # t PROVE AbsCall(s)' = AbsCall(s)
  BY <1>1 DEF AbsCall, Stage, AbsRow, Accepted
<1>2. QED
  BY <1>1 DEF AbsCalls

LEMMA SameRegister ==
  ASSUME UNCHANGED accepts
  PROVE  AbsRegister' = AbsRegister
BY DEF AbsRegister, AbsRow, Accepted

LEMMA ServeMaps ==
  ASSUME Inv, Inv', NEW t \in Threads, NEW op \in Ops, NEW u \in Users,
         NEW row \in Rows \cup {NoRow}, Serve(t, op, u, row),
         op # "accept" => row = NoRow,
         op = "accept" => row \in Rows /\ row.until = now + Duration
  PROVE  Register!Invoke(t)
<1> DEFINE c == [op |-> op, user |-> u, stage |-> "called", value |-> AbsRow(row)]
<1>1. AbsCall(t) = NoRequest
  BY DEF Serve, Inv, IdleOK, AbsCall
<1>2. AbsCall(t)' = c
  <2>1. req'[t] = [op |-> op, user |-> u, row |-> row] /\ pc'[t] = "connect"
    BY DEF Serve, Inv, TermsTypeOK
  <2>2. req'[t] # NoRequest
    BY <2>1 DEF Inv, IdleOK
  <2>3. AbsCall(t)' = [op |-> req'[t].op, user |-> req'[t].user,
                       stage |-> Stage(t)',
                       value |-> AbsRow(req'[t].row)]
    BY <2>2 DEF AbsCall, AbsRow, Accepted
  <2>4. Stage(t)' = "called"
    BY <2>1 DEF Stage
  <2>5. req'[t].op = op /\ req'[t].user = u /\ req'[t].row = row
    BY <2>1
  <2>6. QED
    BY <2>3, <2>4, <2>5
<1>3. AbsCalls' = [AbsCalls EXCEPT ![t] = c]
  BY <1>2, CallsExcept DEF Serve, Inv, TermsTypeOK
<1>4. Register!Start(t, c)
  BY <1>1, <1>3, SameRegister DEF Serve, Register!Start, AbsCalls, AbsRegister
<1>5. CASE op = "accept"
  <2>1. AbsRow(row) = [accepted |-> Accepted(row), until |-> now + Duration]
    BY <1>5, TermsAssumption DEF AbsRow
  <2>2. Accepted(row) \in BOOLEAN
    BY <1>5 DEF Accepted, Rows
  <2>3. QED
    BY <1>4, <1>5, <2>1, <2>2 DEF Register!Invoke
<1>6. CASE op # "accept"
  <2>1. AbsRow(row) = NoRow /\ op \in {"check", "show", "decline"}
    BY <1>6 DEF AbsRow, Ops, Writes
  <2>2. QED
    BY <1>4, <2>1 DEF Register!Invoke, Register!Reads
<1>7. QED
  BY <1>5, <1>6

LEMMA EndMaps ==
  ASSUME Inv, Inv', NEW t \in Threads, NEW a \in Replies, pc[t] # "idle",
         EndRequest(t, a), UNCHANGED <<now, accepts, con>>
  PROVE  Register!Finish(t, a)
<1>1. AbsCall(t) # NoRequest
  BY AbsCallType
<1>2. AbsCall(t)' = NoRequest
  BY DEF EndRequest, Inv, TermsTypeOK, AbsCall
<1>3. AbsCalls' = [AbsCalls EXCEPT ![t] = NoRequest]
  BY <1>2, CallsExcept DEF EndRequest, Inv, TermsTypeOK
<1>4. QED
  BY <1>1, <1>3, SameRegister DEF EndRequest, Register!Finish, AbsCalls, AbsRegister

\* A thread goes on to a place where its call has taken effect as before.
LEMMA MoveMaps ==
  ASSUME Inv, Inv', NEW t \in Threads, NEW place \in {"cursor", "execute", "commit", "answer"},
         Goto(t, place), UNCHANGED <<now, accepts, req, reply>>,
         pc[t] \in {"connect", "cursor", "execute", "close"},
         pc[t] = "close" <=> place = "answer"
  PROVE  UNCHANGED Register!vars
<1>1. pc'[t] = place /\ req'[t] = req[t] /\ pc'[t] # "idle"
  BY DEF Goto, Inv, TermsTypeOK
<1>2. Stage(t)' = Stage(t)
  BY <1>1 DEF Stage
<1>3. AbsCall(t)' = AbsCall(t)
  BY <1>1, <1>2 DEF AbsCall, AbsRow, Accepted
<1>4. AbsCalls' = [AbsCalls EXCEPT ![t] = AbsCall(t)]
  BY <1>3, CallsExcept DEF Goto, Inv, TermsTypeOK
<1>5. AbsCalls' = AbsCalls
  BY <1>4 DEF AbsCalls
<1>6. QED
  BY <1>5, SameRegister DEF Register!vars, AbsCalls, AbsRegister

LEMMA SelectMaps ==
  ASSUME Inv, Inv', NEW t \in Threads, Select(t)
  PROVE  Register!TakeEffect(t)
<1> DEFINE u == req[t].user
<1>1. /\ pc[t] = "execute" /\ pc'[t] = "close" /\ u \in Users
      /\ req[t] \in Requests /\ req[t].op \notin Writes
      /\ req'[t] = [req[t] EXCEPT !.row = accepts[u]]
  BY BusyHasRequest DEF Select, Goto, Inv, TermsTypeOK
<1>2. req'[t].op = req[t].op /\ req'[t].user = u /\ req'[t].row = accepts[u]
  BY <1>1 DEF Requests
<1>3. AbsCall(t) # NoRequest /\ AbsCall(t) = [op |-> req[t].op, user |-> u,
        stage |-> "called", value |-> AbsRow(req[t].row)]
  <2>1. Stage(t) = "called"
    BY <1>1 DEF Stage
  <2>2. QED
    BY <1>1, <2>1, AbsCallType
<1>4. AbsCall(t)' = [op |-> req[t].op, user |-> u, stage |-> "done", value |-> AbsRow(accepts[u])]
  <2>1. req'[t] # NoRequest /\ Stage(t)' = "done"
    BY <1>1 DEF Stage, Inv, IdleOK
  <2>2. AbsCall(t)' = [op |-> req'[t].op, user |-> req'[t].user,
                       stage |-> Stage(t)',
                       value |-> AbsRow(req'[t].row)]
    BY <2>1 DEF AbsCall, AbsRow, Accepted
  <2>3. QED
    BY <1>2, <2>1, <2>2
<1>5. AbsCalls' = [AbsCalls EXCEPT ![t] = AbsCall(t)']
  BY CallsExcept DEF Select, Goto, Inv, TermsTypeOK
<1>6. AbsCalls' = [AbsCalls EXCEPT ![t] = Register!Done(AbsCalls[t], AbsRegister[u])]
  <2>1. AbsRegister[u] = AbsRow(accepts[u])
    BY <1>1 DEF AbsRegister
  <2>2. AbsCalls[t].op = req[t].op /\ AbsCalls[t].user = u
    BY <1>3 DEF AbsCalls
  <2>3. QED
    BY <1>4, <1>5, <2>1, <2>2 DEF Register!Done
<1>7. AbsCalls[t].op \notin Register!Writes /\ AbsCalls[t].user = u /\ AbsCalls[t].stage = "called"
      /\ AbsCalls[t] # NoRequest
  BY <1>1, <1>3 DEF AbsCalls, Writes, Register!Writes
<1>8. QED
  BY <1>6, <1>7, SameRegister DEF Select, Register!TakeEffect, AbsCalls, AbsRegister

LEMMA CommitMaps ==
  ASSUME Inv, Inv', NEW t \in Threads, Commit(t), req[t].op \in Writes
  PROVE  Register!TakeEffect(t)
<1> DEFINE u == req[t].user
           a == AbsRow(req[t].row)
<1>1. /\ pc[t] = "commit" /\ pc'[t] = "close" /\ u \in Users /\ req'[t] = req[t]
      /\ req[t] # NoRequest
  BY BusyHasRequest DEF Commit, Goto, Inv, TermsTypeOK
<1>2. AbsCall(t) # NoRequest /\ AbsCall(t) = [op |-> req[t].op, user |-> u,
        stage |-> "called", value |-> a]
  <2>1. Stage(t) = "called"
    BY <1>1 DEF Stage
  <2>2. QED
    BY <1>1, <2>1, AbsCallType
<1>3. AbsCall(t)' = [op |-> req[t].op, user |-> u, stage |-> "done", value |-> a]
  <2>1. Stage(t)' = "done"
    BY <1>1 DEF Stage
  <2>2. AbsCall(t)' = [op |-> req'[t].op, user |-> req'[t].user,
                       stage |-> Stage(t)',
                       value |-> AbsRow(req'[t].row)]
    BY <1>1 DEF AbsCall, AbsRow, Accepted
  <2>3. QED
    BY <1>1, <2>1, <2>2
<1>4. AbsCalls' = [AbsCalls EXCEPT ![t] = AbsCall(t)']
  BY CallsExcept DEF Commit, Goto, Inv, TermsTypeOK
<1>5. AbsCalls' = [AbsCalls EXCEPT ![t] = Register!Done(AbsCalls[t], a)]
  <2>1. AbsCalls[t].op = req[t].op /\ AbsCalls[t].user = u
    BY <1>2 DEF AbsCalls
  <2>2. QED
    BY <1>3, <1>4, <2>1 DEF Register!Done
<1>6. AbsRegister' = [AbsRegister EXCEPT ![u] = a]
  <2>1. accepts' = [accepts EXCEPT ![u] = req[t].row] /\ accepts \in [Users -> Rows \cup {NoRow}]
    BY DEF Commit, Inv, TermsTypeOK
  <2>2. QED
    BY <1>1, <2>1 DEF AbsRegister, AbsRow, Accepted
<1>7. /\ AbsCalls[t].op \in Register!Writes /\ AbsCalls[t].user = u /\ AbsCalls[t].stage = "called"
      /\ AbsCalls[t].value = a /\ AbsCalls[t] # NoRequest
  BY <1>2 DEF AbsCalls, Writes, Register!Writes
<1>8. QED
  BY <1>5, <1>6, <1>7 DEF Commit, Register!TakeEffect, AbsCalls, AbsRegister

LEMMA RespondMaps ==
  ASSUME Inv, Inv', NEW t \in Threads, Respond(t)
  PROVE  Register!Answer(t)
<1> DEFINE row == req[t].row
           v == AbsRow(row)
<1>1. /\ pc[t] = "answer" /\ req[t].op \in Ops
      /\ row \in Rows \cup {NoRow} /\ RowOK(row)
  BY BusyHasRequest DEF Respond
<1>2. AbsCall(t) # NoRequest /\ AbsCall(t) = [op |-> req[t].op, user |-> req[t].user,
        stage |-> "done", value |-> v]
  <2>1. Stage(t) = "done"
    BY <1>1 DEF Stage
  <2>2. QED
    BY <1>1, <2>1, AbsCallType
<1>3. AbsCalls[t] # NoRequest /\ AbsCalls[t].op = req[t].op /\ AbsCalls[t].stage = "done"
      /\ AbsCalls[t].value = v
  BY <1>2 DEF AbsCalls
<1>4. /\ has_testbed_access(row) <=> Register!Grants(v)
      /\ get_user_accepts(row) <=> Register!Grants(v)
  <2>1. CASE row = NoRow
    <3>1. v = NoRow
      BY <2>1 DEF AbsRow
    <3>2. QED
      BY <2>1, <3>1 DEF has_testbed_access, get_user_accepts, Register!Grants
  <2>2. CASE row # NoRow
    <3>1. v # NoRow /\ v.accepted = Accepted(row) /\ v.until = row.until
      BY <1>1, <2>2, AbsRowType
    <3>2. row.until \in Nat /\ now \in Nat /\ Margin \in Nat
      BY <1>1, <2>2, TermsAssumption DEF Rows, Inv, TermsTypeOK
    <3>3. Expired(row) <=> ~(v.until >= now + Margin)
      BY <3>1, <3>2 DEF Expired
    <3>4. row.testbed_access = Accepted(row)
      BY <1>1, <2>2 DEF RowOK
    <3>5. QED
      BY <2>2, <3>1, <3>3, <3>4 DEF has_testbed_access, get_user_accepts,
         derive_testbed_access, Accepted, Register!Grants
  <2>3. QED
    BY <2>1, <2>2
<1> DEFINE a == IF req[t].op \in Writes THEN "204"
                ELSE IF Register!Grants(v) THEN "yes" ELSE "no"
<1>5. EndRequest(t, a)
  BY <1>4 DEF Respond
<1>6. a \in Replies
  BY DEF Replies
<1>7. Register!Finish(t, a)
  BY <1>1, <1>5, <1>6, EndMaps DEF Respond
<1>8. QED
  BY <1>3, <1>7 DEF Register!Answer, AbsCalls, Writes, Register!Writes

\* Only a write is committed.
CommitsWrites == \A t \in Threads : pc[t] = "commit" => req[t].op \in Writes

LEMMA CommitsWritesStep ==
  ASSUME Inv, CommitsWrites, [Next]_vars
  PROVE  CommitsWrites'
<1>1. CASE UNCHANGED vars
  BY <1>1 DEF vars, CommitsWrites
<1>2. CASE Tick
  BY <1>2 DEF Tick, CommitsWrites
<1>3. ASSUME NEW t \in Threads, NEW u \in Users \cup {Anonymous},
             do_PUT(t, u) \/ do_DELETE(t, u) \/ do_GET(t, u) \/ Allocate(t, u)
      PROVE  CommitsWrites'
  BY <1>3 DEF do_PUT, do_DELETE, do_GET, Allocate, Serve, Refuse,
     CommitsWrites, Inv, TermsTypeOK
<1>4. ASSUME NEW t \in Threads, ThreadStep(t) PROVE CommitsWrites'
  BY <1>4 DEF ThreadStep, DatabaseError, Connect, Cursor, Select, BeginWrite,
     Commit, Close, Respond, EndRequest, Goto, CommitsWrites, Inv, TermsTypeOK
<1>5. QED
  BY <1>1, <1>2, <1>3, <1>4 DEF Next

LEMMA InitMaps == Init => Register!Init
<1> SUFFICES ASSUME Init PROVE Register!Init
  OBVIOUS
<1>1. \A u \in Users : AbsRow(accepts[u]) = NoRow
  BY DEF Init, AbsRow
<1>2. \A t \in Threads : AbsCall(t) = NoRequest
  BY DEF Init, AbsCall
<1>3. QED
  BY <1>1, <1>2 DEF Init, Register!Init

\* Each step of the code is a step of the register, or changes nothing of it.
LEMMA StepMaps ==
  ASSUME Inv, Inv', CommitsWrites, [Next]_vars
  PROVE  [Register!Next]_Register!vars
<1>1. CASE UNCHANGED vars
  BY <1>1 DEF vars, Register!vars, AbsRow, Accepted, AbsCall, Stage
<1>2. CASE Tick
  <2>1. AbsCalls' = AbsCalls
    BY <1>2 DEF Tick, AbsCalls, AbsCall, Stage, AbsRow, Accepted
  <2>2. now' \in Nat /\ now' >= now
    BY <1>2 DEF Tick, Inv, TermsTypeOK
  <2>3. Register!Pass
    BY <1>2, <2>1, <2>2, SameRegister DEF Tick, Register!Pass, AbsCalls, AbsRegister
  <2>4. QED
    BY <2>3 DEF Register!Next
<1>3. ASSUME NEW t \in Threads, NEW a \in {"200", "400", "403", "raised"}, Refuse(t, a)
      PROVE  [Register!Next]_Register!vars
  <2>1. AbsCalls' = AbsCalls
    BY <1>3 DEF Refuse, AbsCalls, AbsCall, Stage, AbsRow, Accepted
  <2>2. AbsCall(t) = NoRequest
    BY <1>3 DEF Refuse, Inv, IdleOK, AbsCall
  <2>3. Register!Reject(t)
    BY <1>3, <2>1, <2>2, SameRegister DEF Refuse, Register!Reject, AbsCalls, AbsRegister
  <2>4. QED
    BY <2>3 DEF Register!Next
<1>4. ASSUME NEW t \in Threads, NEW u \in Users \cup {Anonymous},
             do_PUT(t, u) \/ do_DELETE(t, u) \/ do_GET(t, u) \/ Allocate(t, u)
      PROVE  [Register!Next]_Register!vars
  <2>1. CASE \E a \in {"200", "400", "403", "raised"} : Refuse(t, a)
    BY <2>1, <1>3
  <2>2. CASE u # Anonymous /\ \E doc \in Documents : Serve(t, "accept", u, NewRow(doc))
    <3>1. PICK doc \in Documents : Serve(t, "accept", u, NewRow(doc))
      BY <2>2
    <3>2. now \in Nat /\ u \in Users /\ "accept" \in Ops
      BY <2>2 DEF Inv, TermsTypeOK, Ops, Writes
    <3>3. NewRow(doc) \in Rows /\ NewRow(doc).until = now + Duration
      BY <3>2, NewRowOK DEF NewRow
    <3>4. Register!Invoke(t)
      BY <3>1, <3>2, <3>3, ServeMaps
    <3>5. QED
      BY <3>4 DEF Register!Next
  <2>3. CASE u # Anonymous /\ \E op \in {"decline", "show", "check"} : Serve(t, op, u, NoRow)
    <3>1. PICK op \in {"decline", "show", "check"} : Serve(t, op, u, NoRow)
      BY <2>3
    <3>2. op \in Ops /\ op # "accept" /\ u \in Users
      BY <2>3 DEF Ops, Writes
    <3>3. Register!Invoke(t)
      BY <3>1, <3>2, ServeMaps
    <3>4. QED
      BY <3>3 DEF Register!Next
  <2>4. QED
    BY <1>4, <2>1, <2>2, <2>3 DEF do_PUT, do_DELETE, do_GET, Allocate
<1>5. ASSUME NEW t \in Threads, ThreadStep(t)
      PROVE  [Register!Next]_Register!vars
  <2>1. ASSUME EndRequest(t, "raised"), pc[t] # "idle", UNCHANGED <<now, accepts, con>>
        PROVE  [Register!Next]_Register!vars
    <3>1. Register!Raise(t)
      BY <2>1, EndMaps DEF Register!Raise, Replies
    <3>2. QED
      BY <3>1 DEF Register!Next
  <2>2. CASE DatabaseError(t)
    BY <2>1, <2>2 DEF DatabaseError
  <2>3. CASE Connect(t)
    BY <2>3, MoveMaps DEF Connect
  <2>4. CASE Cursor(t)
    <3>1. CASE EndRequest(t, "raised")
      BY <2>1, <2>4, <3>1 DEF Cursor
    <3>2. CASE Goto(t, "execute") /\ UNCHANGED <<req, reply>>
      BY <2>4, <3>2, MoveMaps DEF Cursor
    <3>3. QED
      BY <2>4, <3>1, <3>2 DEF Cursor
  <2>5. CASE Select(t)
    BY <2>5, SelectMaps DEF Register!Next
  <2>6. CASE BeginWrite(t)
    BY <2>6, MoveMaps DEF BeginWrite
  <2>7. CASE Commit(t)
    <3>1. req[t].op \in Writes
      BY <2>7 DEF Commit, CommitsWrites
    <3>2. QED
      BY <2>7, <3>1, CommitMaps DEF Register!Next
  <2>8. CASE Close(t)
    <3>1. CASE EndRequest(t, "raised")
      BY <2>1, <2>8, <3>1 DEF Close
    <3>2. CASE Goto(t, "answer") /\ UNCHANGED <<req, reply>>
      BY <2>8, <3>2, MoveMaps DEF Close
    <3>3. QED
      BY <2>8, <3>1, <3>2 DEF Close
  <2>9. CASE Respond(t)
    BY <2>9, RespondMaps DEF Register!Next
  <2>10. QED
    BY <1>5, <2>2, <2>3, <2>4, <2>5, <2>6, <2>7, <2>8, <2>9 DEF ThreadStep
<1>6. QED
  BY <1>1, <1>2, <1>4, <1>5 DEF Next

\* ImplementsRegister: requests are atomic, and access is granted only on terms
\* that the caller had accepted (do_PUT, do_DELETE, do_GET, has_testbed_access).
THEOREM RegisterImplemented == Spec => ImplementsRegister
<1>1. Init => CommitsWrites
  BY DEF Init, CommitsWrites
<1>2. Inv /\ CommitsWrites /\ [Next]_vars => (Inv /\ CommitsWrites)'
  BY NextInv, CommitsWritesStep
<1>3. Inv /\ Inv' /\ CommitsWrites /\ [Next]_vars => [Register!Next]_Register!vars
  BY StepMaps
<1>4. QED
  BY InitInv, InitMaps, <1>1, <1>2, <1>3, PTL DEF Spec, ImplementsRegister, Register!Spec
=============================================================================
