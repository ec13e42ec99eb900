------------------------- MODULE AcceptanceRegister -------------------------
(***************************************************************************)
(* What the terms-and-conditions add-on promises: one atomic register per  *)
(* user.  Each call takes effect at one instant between its start and its  *)
(* answer, or raises.  Access is granted only on the terms the register    *)
(* held at that instant, if they hold for another Margin when the answer   *)
(* is given.                                                               *)
(***************************************************************************)
EXTENDS Naturals

CONSTANTS Users, Threads, NoRow, NoCall, Duration, Margin

VARIABLES register,   \* register[u]: the terms of user u, or NoRow
          now,
          call,       \* call[t]: the call thread t executes, or NoCall
          reply       \* reply[t]: what the last call of t was answered

vars == <<register, now, call, reply>>

Terms == [accepted : BOOLEAN, until : Nat]
Writes == {"accept", "decline"}
Reads == {"check", "show"}
Calls == [op : Writes \cup Reads, user : Users, stage : {"called", "done"},
          value : Terms \cup {NoRow}]

Init ==
  /\ register = [u \in Users |-> NoRow]
  /\ now = 0
  /\ call = [t \in Threads |-> NoCall]
  /\ reply = [t \in Threads |-> "none"]

Start(t, c) ==
  /\ call[t] = NoCall
  /\ call' = [call EXCEPT ![t] = c]
  /\ reply' = [reply EXCEPT ![t] = "none"]
  /\ UNCHANGED <<register, now>>

Invoke(t) ==
  \E u \in Users :
    \/ \E b \in BOOLEAN :
         Start(t, [op |-> "accept", user |-> u, stage |-> "called",
                   value |-> [accepted |-> b, until |-> now + Duration]])
    \/ \E op \in Reads \cup {"decline"} :
         Start(t, [op |-> op, user |-> u, stage |-> "called", value |-> NoRow])

\* A request that is not understood, or comes from nobody, has no effect.
Reject(t) ==
  /\ call[t] = NoCall
  /\ reply' \in {[reply EXCEPT ![t] = a] : a \in {"200", "400", "403", "raised"}}
  /\ UNCHANGED <<register, now, call>>

Done(c, value) ==
  [op |-> c.op, user |-> c.user, stage |-> "done", value |-> value]

TakeEffect(t) ==
  /\ call[t] # NoCall
  /\ call[t].stage = "called"
  /\ IF call[t].op \in Writes
     THEN /\ register' = [register EXCEPT ![call[t].user] = call[t].value]
          /\ call' = [call EXCEPT ![t] = Done(call[t], call[t].value)]
     ELSE /\ call' = [call EXCEPT ![t] = Done(call[t], register[call[t].user])]
          /\ UNCHANGED register
  /\ UNCHANGED <<now, reply>>

Grants(terms) ==
  /\ terms # NoRow
  /\ terms.accepted
  /\ terms.until >= now + Margin

Finish(t, a) ==
  /\ call[t] # NoCall
  /\ call' = [call EXCEPT ![t] = NoCall]
  /\ reply' = [reply EXCEPT ![t] = a]
  /\ UNCHANGED <<register, now>>

Answer(t) ==
  /\ call[t] # NoCall
  /\ call[t].stage = "done"
  /\ Finish(t, IF call[t].op \in Writes THEN "204"
               ELSE IF Grants(call[t].value) THEN "yes" ELSE "no")

\* A call may raise before or after it took effect.
Raise(t) == Finish(t, "raised")

Pass ==
  /\ now' \in Nat /\ now' >= now
  /\ UNCHANGED <<register, call, reply>>

Next ==
  \/ Pass
  \/ \E t \in Threads :
       Invoke(t) \/ Reject(t) \/ TakeEffect(t) \/ Answer(t) \/ Raise(t)

Spec == Init /\ [][Next]_vars
=============================================================================
