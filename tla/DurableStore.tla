---------------------------- MODULE DurableStore ----------------------------
(***************************************************************************)
(* What dumping a value promises, however many threads change it and dump  *)
(* it at a time: the file has the value of one moment, dumps reach it in   *)
(* the order in which their values were read, a stop loses what was changed*)
(* since and no more, and only a stop in the middle of a copy may lose all *)
(* of it.                                                                  *)
(***************************************************************************)
CONSTANTS
  Empty,  \* what the file has before there is one
  Fresh   \* the values a program may start with that could not load the file

VARIABLES
  mem,    \* {the value} of the running program, {} while it is stopped
  snap,   \* {the value} that is being dumped, if any
  saved,  \* what the file has, or as much of it as was copied
  copy    \* "whole", "copying" or "torn"

vars == <<mem, snap, saved, copy>>

Init == mem = {} /\ snap = {} /\ saved = Empty /\ copy = "torn"

Running == mem # {}

Change ==
  /\ Running /\ \E v \in mem' : mem' = {v}
  /\ UNCHANGED <<snap, saved, copy>>

\* A dump begins with the value of this moment; it may come to nothing.
Snapshot ==
  /\ Running /\ snap = {} /\ copy # "copying"
  /\ snap' = mem
  /\ UNCHANGED <<mem, saved, copy>>
Drop ==
  /\ snap' = {}
  /\ UNCHANGED <<mem, saved, copy>>

\* The file is overwritten ...
BeginCopy ==
  /\ snap = {saved'} /\ snap' = {}
  /\ copy' = "copying"
  /\ UNCHANGED mem
\* ... and whole again.
EndCopy ==
  /\ copy = "copying" /\ copy' = "whole"
  /\ UNCHANGED <<mem, snap, saved>>

Stop ==
  /\ Running /\ mem' = {} /\ snap' = {}
  /\ copy' = IF copy = "copying" THEN "torn" ELSE copy
  /\ UNCHANGED saved

Start ==
  /\ ~Running
  /\ \E v \in {saved} \cup (IF copy = "torn" THEN Fresh ELSE {}) : mem' = {v}
  /\ UNCHANGED <<snap, saved, copy>>

Next == Change \/ Snapshot \/ Drop \/ BeginCopy \/ EndCopy \/ Stop \/ Start

Spec == Init /\ [][Next]_vars
=============================================================================
