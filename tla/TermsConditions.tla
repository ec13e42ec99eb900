--------------------------- MODULE TermsConditions ---------------------------
(***************************************************************************)
(* The terms-and-conditions add-on: an SQLite table of what each user has  *)
(* accepted, written by the HTTP handlers of the site and read by them and *)
(* by Allocate.  TermsAndConditionsDB opens a connection per call, but     *)
(* keeps it in an attribute of an object that all threads share; SQLite's  *)
(* Python binding lets only the thread that opened a connection use it.    *)
(***************************************************************************)
EXTENDS Naturals

CONSTANTS
  Users,        \* URNs of the clients' certificates
  Anonymous,    \* a client without a URN in its certificate
  Threads,      \* threads of the server, one request each
  NoRow,        \* the table has no row
  NoRequest,    \* the thread is idle
  NoThread,
  Duration,     \* how long an acceptance holds (365 days)
  Margin,       \* how long it must still hold to count (10 minutes)
  MaxTime       \* bound of the clock

VARIABLES
  now,
  accepts,  \* accepts[u]: the committed row of user u, or NoRow
  con,      \* con[db]: the thread whose connection self.con of that object is
  pc,
  req,      \* req[t]: the request that thread t serves
  reply     \* reply[t]: the answer to the last request of t

vars == <<now, accepts, con, pc, req, reply>>

Keys == {"accept_main", "accept_userdata"}
\* The two singletons: Site.get() for the handlers, Helper.get() for Allocate.
DBs == {"site", "api"}
DbOf(op) == IF op = "check" THEN "api" ELSE "site"

\* json.dumps(safe_accepts) and until_date.
Rows == [accept_main : BOOLEAN, accept_userdata : BOOLEAN,
         testbed_access : BOOLEAN, until : Nat]
\* What json.loads can return: an object, of which only Keys matter ...
Documents == UNION {[K -> BOOLEAN] : K \in SUBSET Keys}

Writes == {"accept", "decline"}
Ops == Writes \cup {"check", "show"}
Requests == [op : Ops, user : Users, row : Rows \cup {NoRow}]

ASSUME TermsAssumption ==
  /\ Anonymous \notin Users /\ NoThread \notin Threads
  /\ NoRow \notin Rows /\ NoRequest \notin Requests
  /\ Duration \in Nat /\ Margin \in Nat /\ MaxTime \in Nat

Places == {"idle", "connect", "cursor", "execute", "commit", "close", "answer"}
Replies == {"none", "200", "204", "400", "403", "raised", "yes", "no"}

TermsTypeOK ==
  /\ now \in Nat
  /\ accepts \in [Users -> Rows \cup {NoRow}]
  /\ con \in [DBs -> Threads \cup {NoThread}]
  /\ pc \in [Threads -> Places]
  /\ req \in [Threads -> Requests \cup {NoRequest}]
  /\ reply \in [Threads -> Replies]

Init ==
  /\ now = 0
  /\ accepts = [u \in Users |-> NoRow]
  /\ con = [d \in DBs |-> NoThread]
  /\ pc = [t \in Threads |-> "idle"]
  /\ req = [t \in Threads |-> NoRequest]
  /\ reply = [t \in Threads |-> "none"]

-----------------------------------------------------------------------------
\* The helpers of TermsAndConditionsHelper and TermsAndConditionsSite.

\* user_accepts[key] if key in user_accepts else False
Safe(doc, key) == key \in DOMAIN doc /\ doc[key]

derive_testbed_access(accept_main, accept_userdata) ==
  accept_main /\ accept_userdata

\* until < now + 10 minutes: ignore the row.
Expired(row) == row.until < now + Margin

has_testbed_access(row) ==
  /\ row # NoRow
  /\ ~Expired(row)
  /\ derive_testbed_access(row.accept_main, row.accept_userdata)

\* The 'testbed_access' of the document that the site shows to the user.
get_user_accepts(row) ==
  /\ row # NoRow
  /\ ~Expired(row)
  /\ row.testbed_access

\* Mutant: one accepted document is enough for the stored access.
StoreAccessOfMain(doc) ==
  [accept_main |-> Safe(doc, "accept_main"),
   accept_userdata |-> Safe(doc, "accept_userdata"),
   testbed_access |-> Safe(doc, "accept_main"), until |-> now + Duration]

\* Mutant: the document is stored without testbed_access.
StoreNoAccess(doc) ==
  [accept_main |-> Safe(doc, "accept_main"),
   accept_userdata |-> Safe(doc, "accept_userdata"), until |-> now + Duration]

\* The row that register_accept stores for a document.
NewRow(doc) ==
  LET main == Safe(doc, "accept_main")
      userdata == Safe(doc, "accept_userdata")
  IN [accept_main |-> main, accept_userdata |-> userdata,
      testbed_access |-> derive_testbed_access(main, userdata),
      until |-> now + Duration]

-----------------------------------------------------------------------------
\* The requests.

Serve(t, op, u, row) ==
  /\ pc[t] = "idle"
  /\ pc' = [pc EXCEPT ![t] = "connect"]
  /\ req' = [req EXCEPT ![t] = [op |-> op, user |-> u, row |-> row]]
  /\ reply' = [reply EXCEPT ![t] = "none"]
  /\ UNCHANGED <<now, accepts, con>>

Refuse(t, a) ==
  /\ pc[t] = "idle"
  /\ reply' = [reply EXCEPT ![t] = a]
  /\ UNCHANGED <<now, accepts, con, pc, req>>

\* PUT /terms_conditions/accept of a document, of no or too much data or no
\* JSON (400), or of JSON that is no object ("key in 7" raises TypeError).
do_PUT(t, u) ==
  \/ u = Anonymous /\ Refuse(t, "403")
  \/ u # Anonymous /\ \E doc \in Documents : Serve(t, "accept", u, NewRow(doc))
  \/ u # Anonymous /\ \E a \in {"400", "raised"} : Refuse(t, a)

do_DELETE(t, u) ==
  \/ u = Anonymous /\ Refuse(t, "403")
  \/ u # Anonymous /\ Serve(t, "decline", u, NoRow)

\* The status line 200 is sent first, and a 403 that follows is no status any
\* more: to somebody without a URN the answer is a 200 that shows nothing.
do_GET(t, u) ==
  \/ u = Anonymous /\ Refuse(t, "200")
  \/ u # Anonymous /\ Serve(t, "show", u, NoRow)

\* Allocate asks for the access of its caller.
Allocate(t, u) == u # Anonymous /\ Serve(t, "check", u, NoRow)

-----------------------------------------------------------------------------
\* find_user_accepts, register_user_accepts and delete_user_accepts.

MyDb(t) == DbOf(req[t].op)
Owns(t) == con[MyDb(t)] = t
Goto(t, place) == pc' = [pc EXCEPT ![t] = place]

EndRequest(t, a) ==
  /\ pc' = [pc EXCEPT ![t] = "idle"]
  /\ req' = [req EXCEPT ![t] = NoRequest]
  /\ reply' = [reply EXCEPT ![t] = a]

\* sqlite3 raises: the disk, or a lock that is not free within 5 seconds.  An
\* open transaction is rolled back.
DatabaseError(t) ==
  /\ pc[t] \in {"connect", "cursor", "execute", "commit", "close"}
  /\ EndRequest(t, "raised")
  /\ UNCHANGED <<now, accepts, con>>

\* self.con = sqlite3.connect(...)
Connect(t) ==
  /\ pc[t] = "connect"
  /\ con' = [con EXCEPT ![MyDb(t)] = t]
  /\ Goto(t, "cursor")
  /\ UNCHANGED <<now, accepts, req, reply>>

\* with self.con: cursor = self.con.cursor().  The connection of another
\* thread raises ProgrammingError, and so does closing it.
Cursor(t) ==
  /\ pc[t] = "cursor"
  /\ IF Owns(t)
     THEN Goto(t, "execute") /\ UNCHANGED <<req, reply>>
     ELSE EndRequest(t, "raised")
  /\ UNCHANGED <<now, accepts, con>>

Select(t) ==
  /\ pc[t] = "execute"
  /\ req[t].op \notin Writes
  /\ req' = [req EXCEPT ![t].row = accepts[req[t].user]]
  /\ Goto(t, "close")
  /\ UNCHANGED <<now, accepts, con, reply>>

\* Mutant: the statement without "with self.con", which commits.
WriteWithoutCommit(t) ==
  /\ pc[t] = "execute"
  /\ req[t].op \in Writes
  /\ Goto(t, "close")
  /\ UNCHANGED <<now, accepts, con, req, reply>>

\* INSERT OR REPLACE, or DELETE: begins a transaction, one at a time.
BeginWrite(t) ==
  /\ pc[t] = "execute"
  /\ req[t].op \in Writes
  /\ \A s \in Threads : pc[s] # "commit"
  /\ Goto(t, "commit")
  /\ UNCHANGED <<now, accepts, con, req, reply>>

\* The end of the "with", whose connection is the one of this thread.
Commit(t) ==
  /\ pc[t] = "commit"
  /\ accepts' = [accepts EXCEPT ![req[t].user] = req[t].row]
  /\ Goto(t, "close")
  /\ UNCHANGED <<now, con, req, reply>>

\* finally: self.con.close(), perhaps of another thread's connection by now.
Close(t) ==
  /\ pc[t] = "close"
  /\ IF Owns(t)
     THEN Goto(t, "answer") /\ UNCHANGED <<req, reply>>
     ELSE EndRequest(t, "raised")
  /\ UNCHANGED <<now, accepts, con>>

\* 204 for a write, the answer for a read, computed with the time it is now.
Respond(t) ==
  /\ pc[t] = "answer"
  /\ LET row == req[t].row
         ok == IF req[t].op = "check" THEN has_testbed_access(row)
               ELSE get_user_accepts(row)
     IN EndRequest(t, IF req[t].op \in Writes THEN "204"
                      ELSE IF ok THEN "yes" ELSE "no")
  /\ UNCHANGED <<now, accepts, con>>

-----------------------------------------------------------------------------
Tick ==
  /\ now < MaxTime
  /\ now' = now + 1
  /\ UNCHANGED <<accepts, con, pc, req, reply>>

ThreadStep(t) ==
  \/ DatabaseError(t) \/ Connect(t) \/ Cursor(t) \/ Select(t)
  \/ BeginWrite(t) \/ Commit(t) \/ Close(t) \/ Respond(t)

Next ==
  \/ Tick
  \/ \E t \in Threads :
       \/ \E u \in Users \cup {Anonymous} :
            do_PUT(t, u) \/ do_DELETE(t, u) \/ do_GET(t, u) \/ Allocate(t, u)
       \/ ThreadStep(t)

Spec == Init /\ [][Next]_vars
=============================================================================
